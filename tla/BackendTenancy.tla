--------------------------- MODULE BackendTenancy ---------------------------
(***************************************************************************)
(* The request path as an implementation of Tenancy.                       *)
(*                                                                         *)
(* All of a request's way through the routers, the lookups and the         *)
(* handlers is one abstract state, "open": the abstract answer is given in *)
(* the step that writes the response.  The principal shows only then.      *)
(***************************************************************************)
EXTENDS Backend

\* Paths that are answered without access control, and carry no tenant's data.
Public(in) == in.path \in {"own_metrics", "whitelist"} /\ in.method = "GET"

\* What Prometheus answers to the request as the client sent it.
InFull(in) ==
    [ok |-> TRUE,
     series |-> IF RawQuery(in).valid THEN SeriesOf(RawQuery(in), TSDB) ELSE {},
     values |-> ValuesOf(RawQuery(in))]

\* What the request asks for inside the namespaces S.  The values of a label
\* other than "namespace" and "__name__" are those of the whole TSDB.
Inside(in, S) ==
    [ok |-> TRUE,
     series |-> Asked(in, Own(S)),
     values |-> IF in.path # "label" THEN {}
                ELSE IF in.label = namespaceMatchName THEN S
                ELSE IF in.label = nameLabel THEN {s[nameLabel] : s \in Own(S)}
                ELSE ValuesOf(RawQuery(in))]

stateBar == [r \in Request |-> IF Open(r) THEN "open" ELSE pc[r]]
actingBar == [r \in Request |-> IF pc[r] = "done" THEN principal[r] ELSE NoPrincipal]
answerBar == [r \in Request |-> [ok |-> answer[r].code = 200,
                                 series |-> answer[r].series, values |-> answer[r].values]]

T == INSTANCE Tenancy WITH Input <- Inputs, now <- Moment(namespaces, grants, secrets),
                           state <- stateBar, request <- input, acting <- actingBar,
                           answer <- answerBar

\* The request path keeps the promise: however the watches interleave with the
\* lookups and the handlers, an answer to a tenant is exactly what was asked
\* for inside one set of namespaces of the tenant, with nothing mixed in that
\* a second look at the caches would have shown, and it is complete when the
\* cluster did not change.
Promise == T!Spec

=============================================================================
