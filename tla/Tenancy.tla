------------------------------ MODULE Tenancy -------------------------------
(***************************************************************************)
(* What prometheus-auth promises, without how it keeps the promise: every  *)
(* request is answered in one step, out of what was true of the cluster at *)
(* some moment while it was open.  A tenant gets exactly what was asked    *)
(* for inside one set of namespaces, each of which was active and granted; *)
(* all of them, if the cluster did not change meanwhile.                   *)
(*                                                                         *)
(* There are no caches, no rewritten queries and no handlers here.  The    *)
(* module BackendTenancy shows that the request path implements this.      *)
(***************************************************************************)
CONSTANTS
    Request,                    \* slots for requests
    Input,                      \* what a client may ask
    Principal, NoPrincipal,
    Token, myToken,
    NamespaceName,
    Public(_),                  \* whether a request is answered to anybody
    InFull(_),                  \* what Prometheus answers to a request
    Inside(_, _)                \* what a request asks for in some namespaces

VARIABLES now,                  \* what is true of the cluster
          state, request, window, acting, answer

vars == <<now, state, request, window, acting, answer>>

Moment == [active : SUBSET NamespaceName, granted : SUBSET (Principal \X NamespaceName),
           admins : SUBSET Principal, owners : SUBSET (Token \X Principal),
           stable : {TRUE}]

NoWindow == [active |-> {}, granted |-> {}, admins |-> {}, owners |-> {}, stable |-> TRUE]

Empty == [ok |-> TRUE, series |-> {}, values |-> {}]
Refusal == [ok |-> FALSE, series |-> {}, values |-> {}]

Init ==
    /\ now \in Moment
    /\ state = [r \in Request |-> "idle"]
    /\ request = [r \in Request |-> CHOOSE i \in Input : TRUE]
    /\ window = [r \in Request |-> NoWindow]
    /\ acting = [r \in Request |-> NoPrincipal]
    /\ answer = [r \in Request |-> Refusal]

\* The cluster changes, and every open request may see it before or after.
Change ==
    /\ now' \in Moment
    /\ window' = [r \in Request |->
           IF state[r] # "open" THEN window[r]
           ELSE [active  |-> window[r].active \cup now'.active,
                 granted |-> window[r].granted \cup now'.granted,
                 admins  |-> window[r].admins \cup now'.admins,
                 owners  |-> window[r].owners \cup now'.owners,
                 stable  |-> FALSE]]
    /\ UNCHANGED <<state, request, acting, answer>>

Arrive(r) ==
    /\ state[r] = "idle"
    /\ state' = [state EXCEPT ![r] = "open"]
    /\ \E i \in Input : request' = [request EXCEPT ![r] = i]
    /\ window' = [window EXCEPT ![r] = now]
    /\ UNCHANGED <<now, acting, answer>>

\* A request may act as the user it names, or as the owner of its token.
Entitled(p, in, w) ==
    \/ p \in {NoPrincipal, in.user}
    \/ in.user = NoPrincipal /\ <<in.token, p>> \in w.owners

Operator(p, in, w) ==
    \/ in.user = NoPrincipal /\ in.token = myToken
    \/ p \in w.admins

\* The namespaces an answer may come from.
Sources(p, w) ==
    LET scope == {n \in w.active : <<p, n>> \in w.granted}
    IN  IF w.stable THEN {scope} ELSE SUBSET scope

Permitted(p, in, w) ==
    {Refusal}
    \cup (IF Public(in) THEN {Empty} ELSE {})
    \cup (IF Operator(p, in, w) THEN {InFull(in)} ELSE {})
    \cup (IF p # NoPrincipal THEN {Inside(in, S) : S \in Sources(p, w)} ELSE {})

Answer(r) ==
    /\ state[r] = "open"
    /\ state' = [state EXCEPT ![r] = "done"]
    /\ \E p \in Principal \cup {NoPrincipal} :
          /\ Entitled(p, request[r], window[r])
          /\ acting' = [acting EXCEPT ![r] = p]
          /\ \E a \in Permitted(p, request[r], window[r]) :
                answer' = [answer EXCEPT ![r] = a]
    /\ UNCHANGED <<now, request, window>>

Finish(r) ==
    /\ state[r] = "done"
    /\ state' = [state EXCEPT ![r] = "idle"]
    /\ request' = [request EXCEPT ![r] = CHOOSE i \in Input : TRUE]
    /\ window' = [window EXCEPT ![r] = NoWindow]
    /\ acting' = [acting EXCEPT ![r] = NoPrincipal]
    /\ answer' = [answer EXCEPT ![r] = Refusal]
    /\ UNCHANGED now

Next == Change \/ \E r \in Request : Arrive(r) \/ Answer(r) \/ Finish(r)

Spec == Init /\ [][Next]_vars

=============================================================================
