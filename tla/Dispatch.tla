------------------------------ MODULE Dispatch ------------------------------
(***************************************************************************)
(* What the listeners of prometheus-auth promise a client, without how     *)
(* they keep it.  A connection is let in when the agent is ready and fewer *)
(* than Limit are inside; it is given to one server, that speaks its       *)
(* protocol, or turned away; its call is answered once, by that server;    *)
(* and once it is closed it stays closed.                                  *)
(*                                                                         *)
(* There are no slots, channels, matchers and goroutines here.  The module *)
(* ServerDispatch shows that the agent implements this.                    *)
(***************************************************************************)
EXTENDS Naturals, Sequences, FiniteSets

CONSTANTS
    Conn,
    Listener, NoListener,    \* the servers behind the listeners
    Chunk,                   \* what a client may send at a time
    Limit,                   \* connections that may be inside
    Speaks(_, _),            \* whether a server speaks the protocol of a stream
    ReplyOf(_), NoReply      \* what a server does with a call

VARIABLES
    ready,     \* the agent knows the cluster
    state,     \* of each connection
    wire,      \* what its client has sent
    owner,     \* the server it was given to
    reply      \* how its call was answered

vars == <<ready, state, wire, owner, reply>>

Init ==
    /\ ready = FALSE
    /\ state = [c \in Conn |-> "none"]
    /\ wire = [c \in Conn |-> <<>>]
    /\ owner = [c \in Conn |-> NoListener]
    /\ reply = [c \in Conn |-> NoReply]

Inside == {c \in Conn : state[c] \in {"admitted", "served"}}

Ready ==
    /\ ready' = TRUE
    /\ UNCHANGED <<state, wire, owner, reply>>

Connect(c) ==
    /\ state[c] = "none"
    /\ state' = [state EXCEPT ![c] = "waiting"]
    /\ UNCHANGED <<ready, wire, owner, reply>>

Hear(c) ==
    /\ state[c] \in {"waiting", "admitted", "served"}
    /\ \E x \in Chunk : wire' = [wire EXCEPT ![c] = Append(wire[c], x)]
    /\ UNCHANGED <<ready, state, owner, reply>>

Admit(c) ==
    /\ ready
    /\ state[c] = "waiting" /\ Cardinality(Inside) < Limit
    /\ state' = [state EXCEPT ![c] = "admitted"]
    /\ UNCHANGED <<ready, wire, owner, reply>>

TurnAway(c) ==
    /\ state[c] = "admitted"
    /\ state' = [state EXCEPT ![c] = "closed"]
    /\ UNCHANGED <<ready, wire, owner, reply>>

Give(c, l) ==
    /\ state[c] = "admitted" /\ Speaks(l, wire[c])
    /\ state' = [state EXCEPT ![c] = "served"]
    /\ owner' = [owner EXCEPT ![c] = l]
    /\ UNCHANGED <<ready, wire, reply>>

Answer(c) ==
    /\ state[c] = "served" /\ reply[c] = NoReply
    /\ reply' = [reply EXCEPT ![c] = ReplyOf(owner[c])]
    /\ UNCHANGED <<ready, state, wire, owner>>

Leave(c) ==
    /\ state[c] = "served"
    /\ state' = [state EXCEPT ![c] = "closed"]
    /\ owner' = [owner EXCEPT ![c] = NoListener]
    /\ UNCHANGED <<ready, wire, reply>>

Next == \/ Ready
        \/ \E c \in Conn : \/ Connect(c) \/ Hear(c) \/ Admit(c) \/ TurnAway(c)
                           \/ (\E l \in Listener : Give(c, l)) \/ Answer(c) \/ Leave(c)

Spec == Init /\ [][Next]_vars

=============================================================================
