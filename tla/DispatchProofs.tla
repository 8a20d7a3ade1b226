--------------------------- MODULE DispatchProofs ---------------------------
(***************************************************************************)
(* The listeners implement Dispatch, for any number of connections, any    *)
(* limit and any clients.                                                  *)
(*                                                                         *)
(* The invariants of ServerProofs carry the argument.  The counter of the  *)
(* LimitListener is the number of connections inside (SlotsInv), so that   *)
(* an accept finds room; the head of a channel is queued, and for this     *)
(* listener (QueueOK), so that whoever takes it, server or drain, takes a  *)
(* connection that nobody else has; and a matcher that said yes stays      *)
(* right (SniffOK), so that the server gets what it speaks, however long   *)
(* the connection was in the channel.                                      *)
(***************************************************************************)
EXTENDS ServerProofs, ServerDispatch

DInv == IInv /\ SniffInv /\ SyncedFirst /\ CachesFirst

\* What Speaks says of a stream, SpeaksHTTP and SpeaksGRPC say of a connection.
LEMMA SpeaksReceived ==
    ASSUME IInv, SniffInv, NEW c \in Conn, phase[c] \in Assigned
    PROVE  Speaks(Via(c), Received(c))
  <1>1. bytes[c] <= Len(script[c].chunks) /\ RightFor(c) /\ TypeOK /\ bytes[c] \in Nat
    BY DEF SniffInv, SniffOK, IInv, TypeOK
  <1>2. /\ Received(c) \in Seq(Chunk) /\ Len(Received(c)) = bytes[c]
        /\ \A i \in 1 .. bytes[c] : Received(c)[i] = script[c].chunks[i]
        /\ Received(c) = <<>> <=> bytes[c] = 0
    BY <1>1, ReceivedFacts
  <1>3. CASE Via(c) = "http"
    <2>1. bytes[c] > 0 /\ script[c].chunks[1].kind \in {"request", "short"}
      BY <1>1, <1>3 DEF RightFor, SpeaksHTTP
    <2> QED BY <1>1, <1>2, <1>3, <2>1 DEF Speaks
  <1>4. CASE Via(c) # "http"
    <2>1. SpeaksGRPC(c)
      BY <1>1, <1>4 DEF RightFor
    <2>2. PICK i \in 2 .. bytes[c] : script[c].chunks[i].kind = "headers" /\ Announces(c, i)
      BY <2>1 DEF SpeaksGRPC, HeaderFrames
    <2>3. bytes[c] > 0 /\ script[c].chunks[1].kind = "preface"
      BY <2>1 DEF SpeaksGRPC
    <2>4. Received(c)[i] = script[c].chunks[i] /\ i \in 2 .. Len(Received(c))
      BY <1>1, <1>2, <2>2
    <2>5. Received(c) # <<>> /\ Received(c)[1].kind = "preface"
      BY <1>1, <1>2, <2>3
    <2> QED BY <1>4, <2>2, <2>4, <2>5 DEF Speaks, Announces
  <1> QED BY <1>3, <1>4

\* The connections inside are those that hold a slot.
LEMMA InsideHeld == TypeOK => D!Inside = Held
  BY DEF TypeOK, Phase, D!Inside, Held, Holding, stateBar, Place

-----------------------------------------------------------------------------
(* Steps as their abstract counterparts *)

\* Nothing that a client can tell apart changes.
LEMMA Stutters ==
    ASSUME UNCHANGED <<synced, script, bytes, phase, seen, at, reply>>
    PROVE  UNCHANGED D!vars
  <1>1. UNCHANGED <<stateBar, wireBar, ownerBar>>
    BY DEF stateBar, wireBar, ownerBar, Received, Via
  <1> QED BY <1>1 DEF D!vars

\* One connection moves from one phase to another.
LEMMA MovesBar ==
    ASSUME TypeOK, NEW c \in Conn, NEW x \in Phase, phase' = [phase EXCEPT ![c] = x],
           UNCHANGED <<script, bytes>>,
           \A d \in Conn \ {c} : at'[d] = at[d] /\ seen'[d] = seen[d]
    PROVE  /\ stateBar' = [stateBar EXCEPT ![c] = Place(x)]
           /\ wireBar' = wireBar
           /\ x # "serving" => ownerBar' = [ownerBar EXCEPT ![c] = "none"]
           /\ x = "serving" => ownerBar' = [ownerBar EXCEPT ![c] = Via(c)']
           /\ ownerBar[c] = (IF phase[c] = "serving" THEN Via(c) ELSE "none")
           /\ stateBar[c] = Place(phase[c])
  <1>1. \A d \in Conn : phase'[d] = IF d = c THEN x ELSE phase[d]
    BY DEF TypeOK
  <1>a. /\ stateBar = [d \in Conn |-> Place(phase[d])]
        /\ stateBar' = [d \in Conn |-> Place(phase'[d])]
    BY DEF stateBar, Place
  <1>b. \A d \in Conn : Place(phase'[d]) = IF d = c THEN Place(x) ELSE Place(phase[d])
    <2> SUFFICES ASSUME NEW d \in Conn
                 PROVE  Place(phase'[d]) = IF d = c THEN Place(x) ELSE Place(phase[d])
      OBVIOUS
    <2>1. CASE d = c
      BY <1>1, <2>1
    <2>2. CASE d # c
      BY <1>1, <2>2
    <2> QED BY <2>1, <2>2
  <1>2. stateBar' = [stateBar EXCEPT ![c] = Place(x)]
    BY <1>a, <1>b
  <1>3. wireBar' = wireBar
    BY DEF wireBar, Received
  <1>4. \A d \in Conn \ {c} : Via(d)' = Via(d)
    BY DEF Via
  <1>5. x # "serving" => ownerBar' = [ownerBar EXCEPT ![c] = "none"]
    BY <1>1, <1>4 DEF ownerBar
  <1>6. x = "serving" => ownerBar' = [ownerBar EXCEPT ![c] = Via(c)']
    BY <1>1, <1>4 DEF ownerBar
  <1> QED BY <1>2, <1>3, <1>5, <1>6 DEF stateBar, ownerBar

\* A connection inside the multiplexer goes on, and its client sees nothing.
LEMMA GoesOn ==
    ASSUME TypeOK, NEW c \in Conn, NEW x \in Phase, phase' = [phase EXCEPT ![c] = x],
           UNCHANGED <<synced, script, bytes, reply>>,
           \A d \in Conn \ {c} : at'[d] = at[d] /\ seen'[d] = seen[d],
           phase[c] \in {"accepted", "sniffing", "handover", "queued"},
           x \in {"accepted", "sniffing", "handover", "queued"}
    PROVE  UNCHANGED D!vars
  <1>1. /\ stateBar' = [stateBar EXCEPT ![c] = Place(x)] /\ wireBar' = wireBar
        /\ ownerBar' = [ownerBar EXCEPT ![c] = "none"]
        /\ ownerBar[c] = "none" /\ stateBar[c] = Place(phase[c])
    BY MovesBar
  <1>2. Place(x) = "admitted" /\ Place(phase[c]) = "admitted"
    BY DEF Place
  <1>3. stateBar' = stateBar
    BY <1>1, <1>2 DEF stateBar
  <1>4. ownerBar' = ownerBar
    BY <1>1 DEF ownerBar
  <1> QED BY <1>1, <1>3, <1>4 DEF D!vars

\* A connection that no server has is closed.
LEMMA TurnedAway ==
    ASSUME TypeOK, NEW c \in Conn, phase' = [phase EXCEPT ![c] = "closed"],
           UNCHANGED <<synced, script, bytes, seen, at, reply>>,
           phase[c] \in {"accepted", "sniffing", "handover", "queued"}
    PROVE  D!TurnAway(c)
  <1>1. /\ stateBar' = [stateBar EXCEPT ![c] = Place("closed")] /\ wireBar' = wireBar
        /\ ownerBar' = [ownerBar EXCEPT ![c] = "none"]
        /\ ownerBar[c] = "none" /\ stateBar[c] = Place(phase[c])
    BY MovesBar DEF Phase
  <1>2. Place("closed") = "closed" /\ Place(phase[c]) = "admitted"
    BY DEF Place
  <1>3. ownerBar' = ownerBar
    BY <1>1 DEF ownerBar
  <1> QED BY <1>1, <1>2, <1>3 DEF D!TurnAway

-----------------------------------------------------------------------------
(* The clients *)

LEMMA ConnectDispatch == ASSUME DInv, NEW c \in Conn, Connect(c) PROVE D!Connect(c)
  <1>1. /\ phase[c] = "none" /\ phase' = [phase EXCEPT ![c] = "backlog"]
        /\ UNCHANGED <<synced, bytes, seen, at, reply>>
        /\ \E s \in Scripts : script' = [script EXCEPT ![c] = s]
    BY DEF Connect
  <1>2. TypeOK /\ bytes[c] = 0
    BY <1>1 DEF DInv, IInv, SniffInv, SniffOK
  <1>3. \A d \in Conn : phase'[d] = IF d = c THEN "backlog" ELSE phase[d]
    BY <1>1, <1>2 DEF TypeOK
  <1>4. /\ stateBar = [d \in Conn |-> Place(phase[d])]
        /\ stateBar' = [d \in Conn |-> Place(phase'[d])]
    BY DEF stateBar, Place
  <1>5. Place("backlog") = "waiting" /\ Place("none") = "none"
    BY DEF Place
  <1>6. stateBar[c] = "none" /\ stateBar' = [stateBar EXCEPT ![c] = "waiting"]
    <2>1. stateBar' = [d \in Conn |-> IF d = c THEN "waiting" ELSE Place(phase[d])]
      BY <1>3, <1>4, <1>5, Zenon
    <2> QED BY <1>1, <1>4, <1>5, <2>1
  <1>7. \A d \in Conn : Received(d)' = Received(d)
    <2> SUFFICES ASSUME NEW d \in Conn PROVE Received(d)' = Received(d)
      OBVIOUS
    <2>1. CASE d = c
      BY <1>1, <1>2, <2>1 DEF Received
    <2>2. CASE d # c
      <3>1. script'[d] = script[d]
        BY <1>1, <1>2, <2>2 DEF TypeOK
      <3> QED BY <1>1, <3>1 DEF Received
    <2> QED BY <2>1, <2>2
  <1>8. wireBar' = wireBar
    BY <1>7, Zenon DEF wireBar
  <1>9. ownerBar' = ownerBar
    BY <1>1, <1>3 DEF ownerBar, Via
  <1> QED BY <1>1, <1>6, <1>8, <1>9 DEF D!Connect

\* One more chunk of the script is one more of what was received.
LEMMA ReceivesNext ==
    ASSUME NEW s \in Seq(Chunk), NEW n \in Nat, n < Len(s)
    PROVE  SubSeq(s, 1, n + 1) = Append(SubSeq(s, 1, n), s[n + 1])
  OBVIOUS

LEMMA SendDispatch == ASSUME DInv, NEW c \in Conn, Send(c) PROVE D!Hear(c)
  <1>1. /\ phase[c] \notin {"none", "closed"} /\ bytes[c] < Len(script[c].chunks)
        /\ bytes' = [bytes EXCEPT ![c] = bytes[c] + 1]
        /\ UNCHANGED <<synced, script, phase, seen, at, reply>>
    BY DEF Send
  <1>2. /\ TypeOK /\ bytes[c] \in Nat /\ script[c] \in Scripts
        /\ script[c].chunks \in Seq(Chunk)
    BY ScriptAssumption DEF DInv, IInv, TypeOK, Script
  <1> DEFINE x == script[c].chunks[bytes[c] + 1]
  <1>3. x \in Said
    <2>1. x \in ToSet(script[c].chunks)
      BY <1>1, <1>2 DEF ToSet
    <2> QED BY <1>2, <2>1 DEF Said
  <1>4. Received(c)' = Append(Received(c), x)
    <2>1. bytes'[c] = bytes[c] + 1 /\ script'[c] = script[c]
      BY <1>1, <1>2 DEF TypeOK
    <2>2. SubSeq(script[c].chunks, 1, bytes[c] + 1)
            = Append(SubSeq(script[c].chunks, 1, bytes[c]), script[c].chunks[bytes[c] + 1])
      BY <1>1, <1>2, ReceivesNext
    <2> QED BY <2>1, <2>2 DEF Received
  <1>5. \A d \in Conn \ {c} : Received(d)' = Received(d)
    BY <1>1, <1>2 DEF Received, TypeOK
  <1> HIDE DEF x
  <1>6. wireBar' = [wireBar EXCEPT ![c] = Append(wireBar[c], x)]
    BY <1>4, <1>5 DEF wireBar
  <1>7. stateBar[c] \in {"waiting", "admitted", "served"}
    BY <1>1, <1>2 DEF TypeOK, Phase, stateBar, Place
  <1>8. UNCHANGED <<stateBar, ownerBar>>
    BY <1>1 DEF stateBar, ownerBar, Via
  <1> QED BY <1>1, <1>3, <1>6, <1>7, <1>8 DEF D!Hear

-----------------------------------------------------------------------------
(* The accept loop and the sniffers *)

\* The loop holds a slot of its own while it accepts, so there is room.
LEMMA AcceptDispatch == ASSUME DInv, NEW c \in Conn, Accept(c) PROVE D!Admit(c)
  <1>1. /\ Running /\ loop = "accept" /\ phase[c] = "backlog"
        /\ phase' = [phase EXCEPT ![c] = "accepted"]
        /\ UNCHANGED <<synced, script, bytes, seen, at, reply>>
    BY DEF Accept, loopUnchanged
  <1>2. TypeOK /\ synced
    BY <1>1 DEF DInv, IInv, SyncedFirst
  <1>3. Cardinality(D!Inside) < maxConnections
    <2>1. /\ sem = Cardinality(Held) + 1 /\ sem <= maxConnections
          /\ Cardinality(Held) \in Nat
      BY <1>1, HeldFinite DEF DInv, IInv, SlotsInv, Slot
    <2>2. D!Inside = Held
      BY <1>2, InsideHeld
    <2> QED BY <2>1, <2>2, LimitAssumption
  <1>4. /\ stateBar' = [stateBar EXCEPT ![c] = Place("accepted")] /\ wireBar' = wireBar
        /\ ownerBar' = [ownerBar EXCEPT ![c] = "none"]
        /\ ownerBar[c] = "none" /\ stateBar[c] = Place("backlog")
    BY <1>1, <1>2, MovesBar DEF Phase
  <1>5. Place("accepted") = "admitted" /\ Place("backlog") = "waiting"
    BY DEF Place
  <1>6. ownerBar' = ownerBar
    BY <1>4 DEF ownerBar
  <1>7. D!Cardinality(D!Inside) = Cardinality(D!Inside)
    BY Zenon DEF D!Cardinality, Cardinality
  <1> QED BY <1>1, <1>2, <1>3, <1>4, <1>5, <1>6, <1>7 DEF D!Admit

LEMMA SniffDispatch ==
    ASSUME DInv, NEW c \in Conn, SniffConn(c)
    PROVE  D!TurnAway(c) \/ UNCHANGED D!vars
  <1>t. TypeOK
    BY DEF DInv, IInv
  <1>1. CASE StartSniffing(c)
    <2>1. /\ phase[c] = "accepted" /\ phase' = [phase EXCEPT ![c] = "sniffing"]
          /\ UNCHANGED <<synced, script, bytes, at, reply>>
          /\ \A d \in Conn \ {c} : at'[d] = at[d] /\ seen'[d] = seen[d]
      BY <1>1, <1>t DEF StartSniffing, sniffUnchanged, TypeOK
    <2> QED BY <1>t, <2>1, GoesOn DEF Phase
  <1>2. CASE Sniff(c)
    <2>1. phase[c] = "sniffing" /\ UNCHANGED <<synced, script, bytes, seen, reply>>
      BY <1>2 DEF Sniff, sniffUnchanged
    <2>2. CASE Close(c, "unmatched") /\ UNCHANGED at
      BY <1>t, <2>1, <2>2, TurnedAway DEF Close
    <2>3. CASE at' = [at EXCEPT ![c] = at[c] + 1] /\ UNCHANGED phase
      <3>1. \A d \in Conn : phase[d] = "serving" => Via(d)' = Via(d)
        BY <1>t, <2>1, <2>3 DEF Via, TypeOK
      <3>2. ownerBar' = ownerBar
        BY <2>3, <3>1 DEF ownerBar
      <3>3. UNCHANGED <<stateBar, wireBar>>
        BY <2>1, <2>3 DEF stateBar, wireBar, Received
      <3> QED BY <2>1, <3>2, <3>3 DEF D!vars
    <2>4. CASE phase' = [phase EXCEPT ![c] = "handover"] /\ UNCHANGED at
      BY <1>t, <2>1, <2>4, GoesOn DEF Phase
    <2> QED BY <1>2, <2>2, <2>3, <2>4 DEF Sniff
  <1>3. CASE HandOver(c)
    <2>1. phase[c] = "handover" /\ UNCHANGED <<synced, script, bytes, seen, at, reply>>
      BY <1>3 DEF HandOver, sniffUnchanged
    <2>2. CASE phase' = [phase EXCEPT ![c] = "queued"]
      BY <1>t, <2>1, <2>2, GoesOn DEF Phase
    <2>3. CASE Close(c, "dropped")
      BY <1>t, <2>1, <2>3, TurnedAway DEF Close
    <2> QED BY <1>3, <2>2, <2>3 DEF HandOver
  <1> QED BY <1>1, <1>2, <1>3 DEF SniffConn

\* What the drain takes out of a channel, no server has.
LEMMA DrainDispatch ==
    ASSUME DInv, Drain
    PROVE  (\E c \in Conn : D!TurnAway(c)) \/ UNCHANGED D!vars
  <1>1. IInv /\ TypeOK /\ UNCHANGED synced
    BY DEF DInv, IInv, Drain, loopUnchanged
  <1>2. CASE UNCHANGED conns
    BY <1>1, <1>2, Stutters DEF conns
  <1>3. CASE /\ drain # <<>> /\ queue[Head(drain)] # <<>>
             /\ Close(Head(queue[Head(drain)]), "dropped")
             /\ UNCHANGED <<script, bytes, eof, seen, at, reply>>
    <2> DEFINE c == Head(queue[Head(drain)])
    <2>1. Head(drain) \in Listener
      BY <1>1, <1>3 DEF TypeOK
    <2>2. c \in Conn /\ phase[c] = "queued"
      BY <1>1, <1>3, <2>1, HeadOfChannel
    <2>3. phase' = [phase EXCEPT ![c] = "closed"]
      BY <1>3 DEF Close
    <2> HIDE DEF c
    <2>4. D!TurnAway(c)
      BY <1>1, <1>3, <2>2, <2>3, TurnedAway
    <2> QED BY <2>2, <2>4
  <1> QED BY <1>2, <1>3 DEF Drain

-----------------------------------------------------------------------------
(* The servers *)

\* The head of a channel was matched for this server, by what it had sent then;
\* what it has sent since cannot change that.
LEMMA AcceptsDispatch ==
    ASSUME DInv, NEW l \in Listener, ServerAccepts(l)
    PROVE  \E c \in Conn : D!Give(c, l)
  <1>a. /\ queue[l] # <<>> /\ phase' = [phase EXCEPT ![Head(queue[l])] = "serving"]
        /\ UNCHANGED <<synced, script, bytes, seen, at, reply>>
    BY DEF ServerAccepts, serverUnchanged
  <1>2. IInv /\ SniffInv /\ TypeOK
    BY DEF DInv, IInv
  <1>b. Head(queue[l]) \in Conn
    BY <1>a, <1>2, HeadOfChannel
  <1>c. PICK c \in Conn : c = Head(queue[l])
    BY <1>b
  <1>1. /\ phase' = [phase EXCEPT ![c] = "serving"]
        /\ UNCHANGED <<synced, script, bytes, seen, at, reply>>
    BY <1>a, <1>c
  <1>3. c \in Conn /\ phase[c] = "queued" /\ Via(c) = l
    BY <1>a, <1>2, <1>c, HeadOfChannel
  <1>4. Speaks(l, Received(c))
    BY <1>2, <1>3, SpeaksReceived DEF Assigned
  <1>5. Via(c)' = l
    BY <1>1, <1>3 DEF Via
  <1>6. /\ stateBar' = [stateBar EXCEPT ![c] = Place("serving")] /\ wireBar' = wireBar
        /\ ownerBar' = [ownerBar EXCEPT ![c] = l] /\ stateBar[c] = Place("queued")
    BY <1>1, <1>2, <1>3, <1>5, MovesBar DEF Phase
  <1>7. Place("serving") = "served" /\ Place("queued") = "admitted"
    BY DEF Place
  <1>8. wireBar[c] = Received(c)
    BY <1>3 DEF wireBar
  <1>9. D!Give(c, l)
    BY <1>1, <1>4, <1>6, <1>7, <1>8 DEF D!Give
  <1> QED BY <1>3, <1>9

LEMMA ServeDispatch ==
    ASSUME DInv, NEW c \in Conn, ServeConn(c)
    PROVE  D!Answer(c) \/ D!Leave(c)
  <1>t. TypeOK
    BY DEF DInv, IInv
  <1>1. phase[c] = "serving" /\ UNCHANGED <<synced, script, bytes, seen, at>>
    BY DEF ServeConn, Handle, CloseServed, serverUnchanged
  <1>2. stateBar[c] = "served" /\ ownerBar[c] = Via(c)
    BY <1>1 DEF stateBar, ownerBar, Place
  <1>3. CASE Handle(c)
    <2>1. DialContext(DialOptions) = "error"
      BY DEF DialContext, DialOptions
    <2>2. reply[c] = "none" /\ reply' = [reply EXCEPT ![c] = ReplyOf(Via(c))] /\ UNCHANGED phase
      BY <1>3, <2>1 DEF Handle, ReplyOf
    <2>3. UNCHANGED <<stateBar, wireBar, ownerBar>>
      BY <1>1, <2>2 DEF stateBar, wireBar, ownerBar, Received, Via
    <2> QED BY <1>1, <1>2, <2>2, <2>3 DEF D!Answer
  <1>4. CASE CloseServed(c)
    <2>1. phase' = [phase EXCEPT ![c] = "closed"] /\ UNCHANGED reply
      BY <1>4 DEF CloseServed, Close
    <2>2. /\ stateBar' = [stateBar EXCEPT ![c] = Place("closed")] /\ wireBar' = wireBar
          /\ ownerBar' = [ownerBar EXCEPT ![c] = "none"]
      BY <1>t, <1>1, <2>1, MovesBar DEF Phase
    <2>3. Place("closed") = "closed"
      BY DEF Place
    <2> QED BY <1>1, <1>2, <2>1, <2>2, <2>3 DEF D!Leave
  <1> QED BY <1>3, <1>4 DEF ServeConn

-----------------------------------------------------------------------------
(* The refinement *)

LEMMA DispatchInit == Init => D!Init
  <1> SUFFICES ASSUME Init PROVE D!Init
    OBVIOUS
  <1>1. /\ stateBar = [c \in Conn |-> "none"]
        /\ ownerBar = [c \in Conn |-> "none"]
    BY DEF Init, stateBar, ownerBar, Place
  <1>2. \A c \in Conn : Received(c) = <<>>
    BY DEF Init, Received
  <1>3. wireBar = [c \in Conn |-> <<>>]
    BY <1>2, Zenon DEF wireBar
  <1> QED BY <1>1, <1>3 DEF Init, D!Init

\* The caches become ready in one step; the rest of Run, and of the loop, moves
\* no connection.
LEMMA AgentDispatch ==
    ASSUME Agent \/ TornRead \/ Exited \/ Acquire \/ AcceptFails \/ SniffersDone
    PROVE  D!Ready \/ UNCHANGED D!vars
  <1>1. CASE InformersSync
    <2>1. synced' = TRUE /\ UNCHANGED <<script, bytes, phase, seen, at, reply>>
      BY <1>1 DEF InformersSync, conns
    <2>2. UNCHANGED <<stateBar, wireBar, ownerBar>>
      BY <2>1 DEF stateBar, wireBar, ownerBar, Received, Via
    <2> QED BY <2>1, <2>2 DEF D!Ready
  <1>2. CASE UNCHANGED <<synced, conns>>
    BY <1>2, Stutters DEF conns
  <1>3. InformersSync \/ UNCHANGED <<synced, conns>>
    BY DEF Agent, Listen, createAgent, serve, serveReturns, Fatal, TornRead, Exited, Acquire,
           AcceptFails, SniffersDone, loopUnchanged, vars, conns
  <1> QED BY <1>1, <1>2, <1>3

LEMMA DispatchStep == DInv /\ [Next]_vars => [D!Next]_(D!vars)
  <1> SUFFICES ASSUME DInv, [Next]_vars PROVE D!Next \/ UNCHANGED D!vars
    OBVIOUS
  <1>1. CASE UNCHANGED vars
    BY <1>1, Stutters DEF vars
  <1>2. CASE Agent \/ TornRead \/ Exited \/ Acquire \/ AcceptFails \/ SniffersDone
    BY <1>2, AgentDispatch DEF D!Next
  <1>3. CASE Drain
    BY <1>3, DrainDispatch DEF D!Next
  <1>4. ASSUME NEW l \in Listener, Register(l) \/ ServerReturns(l)
        PROVE  UNCHANGED D!vars
    BY <1>4, Stutters DEF Register, MatchRead, MatchWrite, ServerReturns, serverUnchanged, conns
  <1>5. ASSUME NEW l \in Listener, ServerAccepts(l)
        PROVE  D!Next
    BY <1>5, AcceptsDispatch DEF D!Next
  <1>6. ASSUME NEW c \in Conn, Client(c)
        PROVE  D!Next \/ UNCHANGED D!vars
    <2>1. CASE Connect(c)
      BY <2>1, ConnectDispatch DEF D!Next
    <2>2. CASE Send(c)
      BY <2>2, SendDispatch DEF D!Next
    <2>3. CASE HangUp(c)
      BY <2>3, Stutters DEF HangUp
    <2> QED BY <1>6, <2>1, <2>2, <2>3 DEF Client
  <1>7. ASSUME NEW c \in Conn, Accept(c)
        PROVE  D!Next
    BY <1>7, AcceptDispatch DEF D!Next
  <1>8. ASSUME NEW c \in Conn, SniffConn(c)
        PROVE  D!Next \/ UNCHANGED D!vars
    BY <1>8, SniffDispatch DEF D!Next
  <1>9. ASSUME NEW c \in Conn, ServeConn(c)
        PROVE  D!Next
    BY <1>9, ServeDispatch DEF D!Next
  <1> QED BY <1>1, <1>2, <1>3, <1>4, <1>5, <1>6, <1>7, <1>8, <1>9 DEF Next, Mux

\* Every behaviour of the accept loop, the sniffers, the channels and the two
\* servers is one of Dispatch: a connection is let in below the limit and after
\* the caches are filled, given to one server that speaks its protocol, answered
\* at most once, by that server, and left alone once it is closed.
THEOREM DispatchesHolds == Spec => Dispatches
  <1>1. Init => DInv
    BY InitOK, SniffInit DEF DInv, Init, SyncedFirst, Running, CachesFirst, Holding
  <1>2. DInv /\ [Next]_vars => DInv'
    BY StepOK, SniffNext, CachesNext DEF DInv
  <1> QED BY <1>1, <1>2, DispatchInit, DispatchStep, PTL DEF Spec, Dispatches, D!Spec

=============================================================================
