----------------------------- MODULE MCBackend ------------------------------
(***************************************************************************)
(* Backend for TLC: a user and a service account, an application namespace *)
(* and the monitoring namespace, and a list of requests that reaches every *)
(* branch of every handler.                                                *)
(***************************************************************************)
EXTENDS BackendTenancy

CONSTANTS app, mon,       \* the namespaces
          up, kube,       \* metric names
          pod,            \* a label other than "namespace" and "__name__"
          user, sa,       \* the principals
          saToken, stray, \* the token of sa, a token of nobody
          sec1, sec2      \* secrets

Point(ns, name) == [l \in Label |-> CASE l = namespaceMatchName -> ns
                                      [] l = nameLabel -> name
                                      [] OTHER -> Blank]

\* kube exists only in the monitoring namespace; one series has no namespace.
MCTSDB == {Point(app, up), Point(mon, up), Point(mon, kube), Point(Blank, up)}

M(name, type, value) == [name |-> name, type |-> type, value |-> value]

V(ms) == [kind |-> "vector", matchers |-> ms]

\* up, {namespace="mon"}, {namespace!~"app"} and rate(up{namespace!="app"}[5m])
Up     == V(<<M(nameLabel, "=", up)>>)
InMon  == V(<<M(namespaceMatchName, "=", mon)>>)
NotApp == V(<<M(namespaceMatchName, "!~", {app})>>)
Ranged == [kind |-> "matrix", matchers |-> <<M(nameLabel, "=", up),
                                             M(namespaceMatchName, "!=", app)>>]

E(isSelector, type, selectors) ==
    [isSelector |-> isSelector, isExpr |-> TRUE, type |-> type, selectors |-> selectors]

Exprs == {E(TRUE, "vector", <<Up>>), E(TRUE, "vector", <<InMon>>),
          E(FALSE, "vector", <<Up, NotApp>>), E(FALSE, "matrix", <<Ranged>>),
          E(FALSE, "scalar", <<Up>>), E(FALSE, "string", <<>>)}

Syntax == [isSelector |-> FALSE, isExpr |-> FALSE, type |-> "vector", selectors |-> <<>>]
Braces == [Syntax EXCEPT !.isSelector = TRUE]

Reads == {<<>>, <<M(namespaceMatchName, "=~", {app, Blank})>>,
          <<M(namespaceMatchName, "=~", BadPattern)>>,
          <<M(nameLabel, "=", up), M(namespaceMatchName, "?", app)>>}

Base == [path |-> "other", method |-> "GET", label |-> pod,
         user |-> NoPrincipal, token |-> NoToken, acceptsJSON |-> FALSE,
         malformed |-> FALSE, exprs |-> <<>>, reads |-> <<>>]

Anonymous ==
    {[Base EXCEPT !.path = p, !.method = m] :
        p \in {"own_metrics", "whitelist", "other"}, m \in {"GET", "POST"}}
    \cup {[Base EXCEPT !.path = p, !.exprs = <<e>>] :
        p \in {"query", "query_range"}, e \in Exprs \cup {Syntax}}
    \cup {[Base EXCEPT !.path = p, !.exprs = es] : p \in {"series", "federate"},
        es \in {<<>>, <<Syntax>>, <<Braces>>, <<E(TRUE, "vector", <<Up>>)>>,
                <<E(TRUE, "vector", <<InMon>>), E(TRUE, "vector", <<Up>>)>>}}
    \cup {[Base EXCEPT !.path = p, !.malformed = TRUE, !.acceptsJSON = j] :
        p \in {"query", "query_range", "series", "federate"}, j \in BOOLEAN}
    \cup {[Base EXCEPT !.path = p, !.method = "POST"] : p \in {"query", "series", "label"}}
    \cup {[Base EXCEPT !.path = "read", !.method = "POST", !.reads = <<q>>] : q \in Reads}
    \cup {[Base EXCEPT !.path = "read", !.method = m, !.malformed = TRUE] : m \in {"GET", "POST"}}
    \cup {[Base EXCEPT !.path = "label", !.label = l] : l \in Label}
    \cup {[Base EXCEPT !.path = "label", !.malformed = TRUE]}

As(ins, creds) == {[i EXCEPT !.user = c[1], !.token = c[2]] : i \in ins, c \in creds}

\* A user sends every request.  The other credentials (a service account's, the
\* agent's own, none, two at once, a token of nobody) are decided before the
\* handlers: the requests of a few paths show what becomes of them.
MCInputs ==
    As(Anonymous, {<<user, NoToken>>})
    \cup As({i \in Anonymous : i.path \in {"series", "read", "label"}},
            {<<NoPrincipal, saToken>>})
    \cup As({i \in Anonymous : i.path \in {"whitelist", "label"}},
            {<<NoPrincipal, NoToken>>, <<NoPrincipal, myToken>>,
             <<user, saToken>>, <<user, myToken>>, <<NoPrincipal, stray>>})

G(nodes, nss, pods) == [nodes |-> nodes, namespaces |-> nss, pods |-> pods]

MCGrants == {G(FALSE, {}, FALSE), G(FALSE, {app}, FALSE), G(FALSE, {app, mon}, FALSE),
             G(FALSE, {app, mon}, TRUE), G(TRUE, {app, mon}, TRUE)}

S(isToken, deleting, p) ==
    [saToken |-> isToken, token |-> saToken, deleting |-> deleting, sa |-> p]

MCSecretStates == {S(FALSE, FALSE, NoPrincipal), S(TRUE, FALSE, sa),
                   S(TRUE, TRUE, sa), S(TRUE, FALSE, NoPrincipal)}

MCClusters ==
    {[namespaces |-> [n \in NamespaceName |-> "active"],
      grants |-> [p \in Principal |-> G(FALSE, {app, mon}, FALSE)],
      secrets |-> [k \in SecretName |-> IF k = sec1 THEN S(TRUE, FALSE, sa)
                                        ELSE S(FALSE, FALSE, NoPrincipal)]]}

=============================================================================
