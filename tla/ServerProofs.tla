---------------------------- MODULE ServerProofs ----------------------------
(***************************************************************************)
(* The slots of the LimitListener are accounted for exactly, for any       *)
(* number of connections, slots and buffer places, and any scripts.        *)
(*                                                                         *)
(* A connection gives its slot back when it is closed, so each close must  *)
(* be of a connection that still holds one.  For the sniffer and the       *)
(* servers the phase says so.  The drain closes what it finds in a         *)
(* channel: there the argument needs that a channel holds only connections *)
(* that are queued, each of them once.                                     *)
(***************************************************************************)
EXTENDS Server, FiniteSetTheorems, WellFoundedInduction, TLAPS

Held == {c \in Conn : phase[c] \in Holding}

Slot == IF loop = "accept" THEN 1 ELSE 0

Assigned == {"handover", "queued", "serving"}

\* A connection that was given to a listener has one.
ViaOK == \A c \in Conn : phase[c] \in Assigned => at[c] \in 1 .. Len(seen[c])

Unique(s) == \A i, j \in 1 .. Len(s) : s[i] = s[j] => i = j

\* A channel holds queued connections of its own listener, each of them once.
QueueOK ==
    \A l \in Listener :
        /\ Unique(queue[l])
        /\ \A i \in 1 .. Len(queue[l]) : phase[queue[l][i]] = "queued" /\ Via(queue[l][i]) = l

SlotsInv == /\ sem = Cardinality(Held) + Slot
            /\ sem <= maxConnections

\* cMux.Serve has not been called yet.
LoopOff == main \in {"create", "configure", "start"} => loop = "off"

IInv == TypeOK /\ ViaOK /\ QueueOK /\ SlotsInv /\ LoopOff

-----------------------------------------------------------------------------
(* Sequences without repetition, and the cardinality of Held *)

LEMMA TailUnique ==
    ASSUME NEW s \in Seq(Conn), s # <<>>, Unique(s)
    PROVE  /\ Head(s) \in Conn /\ Head(s) = s[1] /\ 1 \in 1 .. Len(s)
           /\ Tail(s) \in Seq(Conn) /\ Unique(Tail(s))
           /\ \A i \in 1 .. Len(Tail(s)) :
                 /\ i + 1 \in 1 .. Len(s) /\ Tail(s)[i] = s[i + 1] /\ Tail(s)[i] # Head(s)
  <1>1. Len(s) \in Nat /\ Len(s) >= 1 /\ Head(s) = s[1] /\ s[1] \in Conn
    OBVIOUS
  <1>2. Tail(s) \in Seq(Conn) /\ Len(Tail(s)) = Len(s) - 1
    BY <1>1
  <1>3. \A i \in 1 .. Len(Tail(s)) : i + 1 \in 1 .. Len(s) /\ Tail(s)[i] = s[i + 1]
    BY <1>1, <1>2
  <1>4. \A i \in 1 .. Len(Tail(s)) : s[i + 1] # s[1]
    BY <1>1, <1>2, <1>3 DEF Unique
  <1>5. Unique(Tail(s))
    BY <1>1, <1>2, <1>3 DEF Unique
  <1> QED BY <1>1, <1>2, <1>3, <1>4, <1>5

LEMMA AppendUnique ==
    ASSUME NEW s \in Seq(Conn), NEW c \in Conn, Unique(s),
           \A i \in 1 .. Len(s) : s[i] # c
    PROVE  /\ Append(s, c) \in Seq(Conn) /\ Unique(Append(s, c))
           /\ \A i \in 1 .. Len(Append(s, c)) :
                 \/ i \in 1 .. Len(s) /\ Append(s, c)[i] = s[i]
                 \/ Append(s, c)[i] = c
  <1>1. /\ Append(s, c) \in Seq(Conn) /\ Len(Append(s, c)) = Len(s) + 1 /\ Len(s) \in Nat
        /\ \A i \in 1 .. Len(s) : Append(s, c)[i] = s[i]
        /\ Append(s, c)[Len(s) + 1] = c
    OBVIOUS
  <1>2. \A i \in 1 .. Len(s) + 1 : i \in 1 .. Len(s) \/ i = Len(s) + 1
    BY <1>1
  <1> QED BY <1>1, <1>2 DEF Unique

LEMMA HeldFinite == IsFiniteSet(Held) /\ Cardinality(Held) \in Nat
  <1>1. Held \subseteq Conn
    BY DEF Held
  <1> QED BY <1>1, LimitAssumption, FS_Subset, FS_CardinalityType

\* A connection that enters, leaves or stays among those that hold a slot.
LEMMA HeldEnter ==
    ASSUME TypeOK, NEW c \in Conn, NEW x, phase[c] \notin Holding, x \in Holding,
           phase' = [phase EXCEPT ![c] = x]
    PROVE  Cardinality(Held') = Cardinality(Held) + 1
  <1>1. Held' = Held \cup {c} /\ c \notin Held
    BY DEF Held, TypeOK
  <1> QED BY <1>1, HeldFinite, FS_AddElement

LEMMA HeldLeave ==
    ASSUME TypeOK, NEW c \in Conn, NEW x, phase[c] \in Holding, x \notin Holding,
           phase' = [phase EXCEPT ![c] = x]
    PROVE  Cardinality(Held') = Cardinality(Held) - 1 /\ Cardinality(Held) >= 1
  <1>1. Held' = Held \ {c} /\ c \in Held
    BY DEF Held, TypeOK
  <1>2. Cardinality(Held') = Cardinality(Held) - 1
    BY <1>1, HeldFinite, FS_RemoveElement
  <1>3. IsFiniteSet(Held') /\ Cardinality(Held') \in Nat
    BY <1>1, HeldFinite, FS_RemoveElement, FS_CardinalityType
  <1> QED BY <1>2, <1>3, HeldFinite

LEMMA HeldStay ==
    ASSUME TypeOK, NEW c \in Conn, NEW x, phase[c] \in Holding <=> x \in Holding,
           phase' = [phase EXCEPT ![c] = x]
    PROVE  Held' = Held
  BY DEF Held, TypeOK

-----------------------------------------------------------------------------
(* The invariant holds initially, and each kind of step keeps it *)

\* The invariant holds when the process starts.
THEOREM InitOK == Init => IInv
  <1> SUFFICES ASSUME Init PROVE IInv
    OBVIOUS
  <1>1. TypeOK
    <2>1. (CHOOSE s \in Scripts : TRUE) \in Scripts
      BY ScriptAssumption
    <2>2. script \in [Conn -> Scripts]
      BY <2>1 DEF Init
    <2>3. /\ local \in [Listener -> Seq(Listener)] /\ queue \in [Listener -> Seq(Conn)]
          /\ seen \in [Conn -> Seq(Listener)] /\ sls \in Seq(Listener) /\ drain \in Seq(Listener)
      BY DEF Init
    <2>4. /\ main = "create" /\ synced = FALSE /\ loop = "off" /\ closed = {} /\ sem = 0
          /\ server = [l \in Listener |-> "off"] /\ bytes = [c \in Conn |-> 0]
          /\ eof = [c \in Conn |-> FALSE] /\ phase = [c \in Conn |-> "none"]
          /\ at = [c \in Conn |-> 1] /\ outcome = [c \in Conn |-> "none"]
          /\ reply = [c \in Conn |-> "none"]
      BY DEF Init
    <2>5. /\ server \in [Listener -> {"off", "match", "publish", "accept", "send"}]
          /\ bytes \in [Conn -> Nat] /\ eof \in [Conn -> BOOLEAN] /\ phase \in [Conn -> Phase]
          /\ at \in [Conn -> Nat \ {0}]
          /\ outcome \in [Conn -> {"none", "unmatched", "dropped", "finished"}]
          /\ reply \in [Conn -> {"none", "backend", "unavailable", "forwarded"}]
      BY <2>4 DEF Phase
    <2> QED BY <2>2, <2>3, <2>4, <2>5 DEF TypeOK
  <1>2. Held = {}
    BY DEF Init, Held, Holding
  <1>3. Cardinality(Held) = 0
    BY <1>2, FS_EmptySet
  <1>4. SlotsInv
    BY <1>3, LimitAssumption DEF Init, SlotsInv, Slot
  <1>5. ViaOK
    BY DEF Init, ViaOK, Assigned
  <1>6. QueueOK
    BY DEF Init, QueueOK, Unique
  <1> QED BY <1>1, <1>4, <1>5, <1>6 DEF Init, IInv, LoopOff

\* The counters of SlotsInv are numbers.
LEMMA Numbers ==
    ASSUME IInv
    PROVE  sem \in Nat /\ Cardinality(Held) \in Nat /\ Slot \in {0, 1}
           /\ maxConnections \in Nat
  BY HeldFinite, LimitAssumption DEF IInv, TypeOK, Slot

\* A step that touches neither the connections nor the slots.
LEMMA Elsewhere ==
    ASSUME IInv, TypeOK', LoopOff', UNCHANGED <<phase, queue, at, seen, sem>>, Slot' = Slot
    PROVE  IInv'
  BY DEF IInv, ViaOK, QueueOK, Via, SlotsInv, Held

\* A step that moves one connection c that is in no channel: from a phase in
\* which it holds no listener to one in which it holds none either.
LEMMA Moves ==
    ASSUME IInv, TypeOK', LoopOff', NEW c \in Conn, NEW x,
           phase' = [phase EXCEPT ![c] = x], phase[c] # "queued", x # "queued",
           \A d \in Conn : d # c => at'[d] = at[d] /\ seen'[d] = seen[d],
           x \in Assigned => at'[c] \in 1 .. Len(seen'[c]),
           UNCHANGED queue, SlotsInv'
    PROVE  IInv'
  <1>1. \A d \in Conn : phase'[d] = IF d = c THEN x ELSE phase[d]
    BY DEF IInv, TypeOK
  <1>2. ViaOK'
    BY <1>1 DEF IInv, ViaOK
  <1>3. \A l \in Listener : \A i \in 1 .. Len(queue[l]) : queue[l][i] \in Conn \ {c}
    <2> SUFFICES ASSUME NEW l \in Listener, NEW i \in 1 .. Len(queue[l])
                 PROVE  queue[l][i] \in Conn \ {c}
      OBVIOUS
    <2>1. queue[l] \in Seq(Conn)
      BY DEF IInv, TypeOK
    <2>2. queue[l][i] \in Conn
      BY <2>1
    <2>3. phase[queue[l][i]] = "queued"
      BY DEF IInv, QueueOK
    <2> QED BY <2>2, <2>3
  <1>4. QueueOK'
    BY <1>1, <1>3 DEF IInv, QueueOK, Via
  <1> QED BY <1>2, <1>4 DEF IInv

LEMMA AgentStep == IInv /\ Agent => IInv'
  <1> SUFFICES ASSUME IInv, Agent PROVE IInv'
    OBVIOUS
  <1>1. UNCHANGED <<phase, queue, at, seen, sem>>
    BY DEF Agent, Listen, createAgent, InformersSync, serve, serveReturns, Fatal, mux, conns
  <1>2. Slot' = Slot
    BY DEF IInv, LoopOff, Slot, Agent, Listen, createAgent, InformersSync, serve,
           serveReturns, Fatal, mux
  <1>3. LoopOff'
    BY DEF IInv, LoopOff, Agent, Listen, createAgent, InformersSync, serve,
           serveReturns, Fatal, Exit, mux
  <1>4. TypeOK'
    <2>1. main' \in {"create", "configure", "start", "select", "fatal", "exited"}
      BY DEF IInv, TypeOK, Agent, Listen, createAgent, InformersSync, serve,
             serveReturns, Fatal, Exit
    <2>2. synced' \in BOOLEAN
      BY DEF IInv, TypeOK, Agent, Listen, createAgent, InformersSync, serve,
             serveReturns, Fatal
    <2>3. server' \in [Listener -> {"off", "match", "publish", "accept", "send"}]
      BY DEF IInv, TypeOK, Agent, Listen, createAgent, InformersSync, serve,
             serveReturns, Fatal
    <2>4. loop' \in {"off", "acquire", "accept", "wait", "drain", "send"}
      BY DEF IInv, TypeOK, Agent, Listen, createAgent, InformersSync, serve,
             serveReturns, Fatal, mux
    <2>5. UNCHANGED <<local, sls, drain, closed, queue, sem, script, bytes, eof, phase,
                      seen, at, outcome, reply>>
      BY DEF Agent, Listen, createAgent, InformersSync, serve, serveReturns, Fatal, mux, conns
    <2> QED BY <2>1, <2>2, <2>3, <2>4, <2>5 DEF IInv, TypeOK
  <1> QED BY <1>1, <1>2, <1>3, <1>4, Elsewhere

LEMMA TornStep == IInv /\ TornRead => IInv'
  <1> SUFFICES ASSUME IInv, TornRead PROVE IInv'
    OBVIOUS
  <1>1. UNCHANGED <<synced, server, local, sls, loop, drain, closed, queue, sem, script,
                    bytes, eof, phase, seen, at, outcome, reply>> /\ main' = "exited"
    BY DEF TornRead, Exit, mux, conns
  <1>2. TypeOK' /\ LoopOff' /\ Slot' = Slot
    BY <1>1 DEF IInv, TypeOK, LoopOff, Slot
  <1> QED BY <1>1, <1>2, Elsewhere

LEMMA RegisterStep == ASSUME NEW l \in Listener PROVE IInv /\ Register(l) => IInv'
  <1> SUFFICES ASSUME IInv, Register(l) PROVE IInv'
    OBVIOUS
  <1>1. UNCHANGED <<main, synced, loop, drain, closed, queue, sem, script, bytes, eof,
                    phase, seen, at, outcome, reply>>
    BY DEF Register, MatchRead, MatchWrite, conns
  <1>2. /\ local' \in [Listener -> Seq(Listener)] /\ sls' \in Seq(Listener)
        /\ server' \in [Listener -> {"off", "match", "publish", "accept", "send"}]
    <2>1. CASE MatchRead(l)
      BY <2>1 DEF IInv, TypeOK, MatchRead
    <2>2. CASE MatchWrite(l)
      <3>1. local[l] \in Seq(Listener)
        BY DEF IInv, TypeOK
      <3>2. Append(local[l], l) \in Seq(Listener)
        BY <3>1
      <3> QED BY <2>2, <3>2 DEF IInv, TypeOK, MatchWrite
    <2> QED BY <2>1, <2>2 DEF Register
  <1>3. TypeOK' /\ LoopOff' /\ Slot' = Slot
    BY <1>1, <1>2 DEF IInv, TypeOK, LoopOff, Slot
  <1> QED BY <1>1, <1>3, Elsewhere

LEMMA ServerReturnsStep == ASSUME NEW l \in Listener PROVE IInv /\ ServerReturns(l) => IInv'
  <1> SUFFICES ASSUME IInv, ServerReturns(l) PROVE IInv'
    OBVIOUS
  <1>1. UNCHANGED <<main, synced, local, sls, loop, drain, closed, queue, sem, script, bytes,
                    eof, phase, seen, at, outcome, reply>>
        /\ server' = [server EXCEPT ![l] = "send"]
    BY DEF ServerReturns, serverUnchanged, conns
  <1>2. TypeOK' /\ LoopOff' /\ Slot' = Slot
    BY <1>1 DEF IInv, TypeOK, LoopOff, Slot
  <1> QED BY <1>1, <1>2, Elsewhere


LEMMA ConnectStep == ASSUME NEW c \in Conn PROVE IInv /\ Client(c) => IInv'
  <1> SUFFICES ASSUME IInv, Client(c) PROVE IInv'
    OBVIOUS
  <1>0. UNCHANGED <<main, synced, server, local, sls, loop, drain, closed, queue, sem, seen,
                    at, outcome, reply>>
    BY DEF Client, Connect, Send, HangUp, mux
  <1>1. LoopOff' /\ Slot' = Slot
    BY <1>0 DEF IInv, LoopOff, Slot
  <1>2. CASE Connect(c)
    <2>1. /\ phase' = [phase EXCEPT ![c] = "backlog"] /\ phase[c] = "none"
          /\ script' \in [Conn -> Scripts] /\ UNCHANGED <<bytes, eof>>
      BY <1>2 DEF Connect, IInv, TypeOK
    <2>2. TypeOK'
      BY <1>0, <2>1 DEF IInv, TypeOK, Phase
    <2>3. Held' = Held
      BY <2>1, HeldStay DEF IInv, Holding
    <2>4. SlotsInv'
      BY <1>0, <1>1, <2>3 DEF IInv, SlotsInv
    <2> QED BY <1>0, <1>1, <2>1, <2>2, <2>4, Moves DEF Assigned
  <1>3. CASE Send(c) \/ HangUp(c)
    <2>0. UNCHANGED <<phase, script>>
      BY <1>3 DEF Send, HangUp
    <2>d. bytes' = bytes \/ bytes' = [bytes EXCEPT ![c] = bytes[c] + 1]
      BY <1>3 DEF Send, HangUp
    <2>e. bytes \in [Conn -> Nat]
      BY DEF IInv, TypeOK
    <2>a. bytes' \in [Conn -> Nat]
      BY <2>d, <2>e
    <2>b. eof' = eof \/ eof' = [eof EXCEPT ![c] = TRUE]
      BY <1>3 DEF Send, HangUp
    <2>c. eof' \in [Conn -> BOOLEAN]
      BY <2>b DEF IInv, TypeOK
    <2>1. /\ UNCHANGED <<phase, script>> /\ bytes' \in [Conn -> Nat]
          /\ eof' \in [Conn -> BOOLEAN]
      BY <2>0, <2>a, <2>c
    <2>2. TypeOK'
      BY <1>0, <2>1 DEF IInv, TypeOK
    <2> QED BY <1>0, <1>1, <2>1, <2>2, Elsewhere
  <1> QED BY <1>2, <1>3 DEF Client

LEMMA LoopStep == IInv /\ (Acquire \/ AcceptFails \/ SniffersDone) => IInv'
  <1> SUFFICES ASSUME IInv, Acquire \/ AcceptFails \/ SniffersDone PROVE IInv'
    OBVIOUS
  <1>0. UNCHANGED <<main, synced, server, local, sls, closed, queue, script, bytes, eof,
                    phase, seen, at, outcome, reply>> /\ Running
    BY DEF Acquire, AcceptFails, SniffersDone, loopUnchanged, conns
  <1>1. Held' = Held /\ ViaOK' /\ QueueOK' /\ LoopOff'
    BY <1>0 DEF IInv, Held, ViaOK, QueueOK, Via, LoopOff, Running
  <1>2. SlotsInv' /\ sem' \in Nat
    BY <1>1, Numbers DEF IInv, SlotsInv, Slot, Acquire, AcceptFails, SniffersDone
  <1>3. /\ loop' \in {"off", "acquire", "accept", "wait", "drain", "send"}
        /\ drain' \in Seq(Listener)
    BY DEF IInv, TypeOK, Acquire, AcceptFails, SniffersDone
  <1>4. TypeOK'
    BY <1>0, <1>2, <1>3 DEF IInv, TypeOK
  <1> QED BY <1>1, <1>2, <1>4 DEF IInv

LEMMA AcceptStep == ASSUME NEW c \in Conn PROVE IInv /\ Accept(c) => IInv'
  <1> SUFFICES ASSUME IInv, Accept(c) PROVE IInv'
    OBVIOUS
  <1>0. /\ UNCHANGED <<main, synced, server, local, sls, drain, closed, queue, sem, script,
                       bytes, eof, seen, at, outcome, reply>> /\ Running
        /\ phase[c] = "backlog" /\ phase' = [phase EXCEPT ![c] = "accepted"]
        /\ loop = "accept" /\ loop' = "acquire"
    BY DEF Accept, loopUnchanged
  <1>1. TypeOK' /\ LoopOff'
    BY <1>0 DEF IInv, TypeOK, Phase, LoopOff, Running
  <1>2. Cardinality(Held') = Cardinality(Held) + 1
    BY <1>0, HeldEnter DEF IInv, Holding
  <1>3. SlotsInv'
    BY <1>0, <1>2, Numbers DEF IInv, SlotsInv, Slot
  <1> QED BY <1>0, <1>1, <1>3, Moves DEF Assigned

\* Closing a connection that holds a slot and is in no channel.
LEMMA CloseStep ==
    ASSUME IInv, NEW c \in Conn, NEW how \in {"unmatched", "dropped", "finished"},
           Close(c, how), phase[c] \in Holding \ {"queued"},
           UNCHANGED <<main, synced, server, local, sls, loop, drain, closed, queue, script,
                       bytes, eof, seen, at, reply>>
    PROVE  IInv'
  <1>1. /\ phase' = [phase EXCEPT ![c] = "closed"] /\ sem' = sem - 1
        /\ outcome' = [outcome EXCEPT ![c] = how]
    BY DEF Close
  <1>h. phase[c] \in Holding /\ "closed" \notin Holding /\ TypeOK
    BY DEF IInv, Holding
  <1>2. Cardinality(Held') = Cardinality(Held) - 1 /\ Cardinality(Held) >= 1
    BY <1>1, <1>h, HeldLeave
  <1>3. SlotsInv' /\ sem' \in Nat
    BY <1>1, <1>2, Numbers DEF IInv, SlotsInv, Slot
  <1>4. TypeOK' /\ LoopOff'
    BY <1>1, <1>3 DEF IInv, TypeOK, Phase, LoopOff
  <1> QED BY <1>1, <1>3, <1>4, Moves DEF Assigned, Holding

LEMMA SniffStep == ASSUME NEW c \in Conn PROVE IInv /\ (StartSniffing(c) \/ Sniff(c)) => IInv'
  <1> SUFFICES ASSUME IInv, StartSniffing(c) \/ Sniff(c) PROVE IInv'
    OBVIOUS
  <1>0. UNCHANGED <<main, synced, server, local, sls, loop, drain, closed, queue, script,
                    bytes, eof, reply>>
    BY DEF StartSniffing, Sniff, sniffUnchanged
  <1>1. CASE StartSniffing(c)
    <2>1. /\ phase[c] = "accepted" /\ phase' = [phase EXCEPT ![c] = "sniffing"]
          /\ seen' = [seen EXCEPT ![c] = sls] /\ UNCHANGED <<sem, at, outcome>>
      BY <1>1 DEF StartSniffing
    <2>2. TypeOK' /\ LoopOff'
      BY <1>0, <2>1 DEF IInv, TypeOK, Phase, LoopOff
    <2>3. Held' = Held
      BY <2>1, HeldStay DEF IInv, Holding
    <2>4. SlotsInv'
      BY <1>0, <2>1, <2>3 DEF IInv, SlotsInv, Slot
    <2>5. \A d \in Conn : d # c => at'[d] = at[d] /\ seen'[d] = seen[d]
      BY <2>1 DEF IInv, TypeOK
    <2> QED BY <1>0, <2>1, <2>2, <2>4, <2>5, Moves DEF Assigned
  <1>2. CASE phase[c] = "sniffing" /\ Close(c, "unmatched") /\ UNCHANGED <<at, seen>>
    BY <1>0, <1>2, CloseStep DEF Holding
  <1>3. CASE /\ phase[c] = "sniffing" /\ at' = [at EXCEPT ![c] = @ + 1]
             /\ UNCHANGED <<phase, outcome, sem, seen>>
    <2>1. TypeOK' /\ LoopOff'
      BY <1>0, <1>3 DEF IInv, TypeOK, LoopOff
    <2>2. phase' = [phase EXCEPT ![c] = "sniffing"]
      BY <1>3 DEF IInv, TypeOK
    <2>3. SlotsInv'
      BY <1>0, <1>3 DEF IInv, SlotsInv, Slot, Held
    <2>4. \A d \in Conn : d # c => at'[d] = at[d] /\ seen'[d] = seen[d]
      BY <1>3 DEF IInv, TypeOK
    <2> QED BY <1>0, <1>3, <2>1, <2>2, <2>3, <2>4, Moves DEF Assigned
  <1>4. CASE /\ phase[c] = "sniffing" /\ phase' = [phase EXCEPT ![c] = "handover"]
             /\ at[c] <= Len(seen[c]) /\ UNCHANGED <<at, outcome, sem, seen>>
    <2>1. TypeOK' /\ LoopOff'
      BY <1>0, <1>4 DEF IInv, TypeOK, Phase, LoopOff
    <2>2. Held' = Held
      BY <1>4, HeldStay DEF IInv, Holding
    <2>3. SlotsInv'
      BY <1>0, <1>4, <2>2 DEF IInv, SlotsInv, Slot
    <2>4. at'[c] \in 1 .. Len(seen'[c])
      BY <1>4 DEF IInv, TypeOK
    <2> QED BY <1>0, <1>4, <2>1, <2>3, <2>4, Moves
  <1> QED BY <1>1, <1>2, <1>3, <1>4 DEF StartSniffing, Sniff


\* Replacing one channel, when nothing else about the connections in the other
\* one changes.
LEMMA ChannelStep ==
    ASSUME IInv, NEW l \in Listener, NEW q \in Seq(Conn), NEW c \in Conn, NEW x,
           queue' = [queue EXCEPT ![l] = q], phase' = [phase EXCEPT ![c] = x],
           UNCHANGED <<at, seen>>, Via(c) = l, Unique(q),
           \A i \in 1 .. Len(q) : \/ q[i] # c /\ phase[q[i]] = "queued" /\ Via(q[i]) = l
                                  \/ q[i] = c /\ x = "queued"
    PROVE  QueueOK'
  <1> SUFFICES ASSUME NEW m \in Listener
               PROVE  /\ Unique(queue'[m])
                      /\ \A i \in 1 .. Len(queue'[m]) :
                            phase'[queue'[m][i]] = "queued" /\ Via(queue[m][i])' = m
    BY DEF QueueOK
  <1>1. \A i : Via(queue[m][i])' = seen[queue'[m][i]][at[queue'[m][i]]]
    BY DEF Via
  <1>2. \A d \in Conn : phase'[d] = IF d = c THEN x ELSE phase[d]
    BY DEF IInv, TypeOK
  <1>3. queue'[m] = IF m = l THEN q ELSE queue[m]
    BY DEF IInv, TypeOK
  <1>4. CASE m = l
    <2>1. queue'[m] = q
      BY <1>3, <1>4
    <2>2. \A i \in 1 .. Len(q) : q[i] \in Conn
      OBVIOUS
    <2>3. \A i \in 1 .. Len(q) : phase'[q[i]] = "queued" /\ Via(q[i]) = m
      BY <1>2, <1>4, <2>2
    <2> QED BY <1>1, <2>1, <2>3 DEF Via
  <1>5. CASE m # l
    <2>1. queue'[m] = queue[m] /\ queue[m] \in Seq(Conn)
      BY <1>3, <1>5 DEF IInv, TypeOK
    <2>2. \A i \in 1 .. Len(queue[m]) : queue[m][i] \in Conn
      BY <2>1
    <2>3. \A i \in 1 .. Len(queue[m]) : phase[queue[m][i]] = "queued" /\ Via(queue[m][i]) = m
      BY DEF IInv, QueueOK
    <2>4. \A i \in 1 .. Len(queue[m]) : phase'[queue[m][i]] = "queued"
      BY <1>2, <1>5, <2>2, <2>3
    <2>5. Unique(queue[m])
      BY DEF IInv, QueueOK
    <2> QED BY <1>1, <2>1, <2>3, <2>4, <2>5 DEF Via
  <1> QED BY <1>4, <1>5


LEMMA HandOverStep == ASSUME NEW c \in Conn PROVE IInv /\ HandOver(c) => IInv'
  <1> SUFFICES ASSUME IInv, HandOver(c) PROVE IInv'
    OBVIOUS
  <1>0. /\ UNCHANGED <<main, synced, server, local, sls, loop, drain, closed, script, bytes,
                       eof, seen, at, reply>>
        /\ phase[c] = "handover"
    BY DEF HandOver, sniffUnchanged
  <1>1. CASE Close(c, "dropped") /\ UNCHANGED queue
    BY <1>0, <1>1, CloseStep DEF Holding
  <1>2. CASE /\ queue' = [queue EXCEPT ![Via(c)] = Append(@, c)]
             /\ phase' = [phase EXCEPT ![c] = "queued"] /\ UNCHANGED <<outcome, sem>>
    <2>1. at[c] \in 1 .. Len(seen[c]) /\ seen[c] \in Seq(Listener)
      BY <1>0 DEF IInv, TypeOK, ViaOK, Assigned
    <2>2. Via(c) \in Listener
      BY <2>1 DEF Via
    <2> DEFINE l == Via(c)
               q == Append(queue[l], c)
    <2>3. queue[l] \in Seq(Conn) /\ Unique(queue[l])
          /\ \A i \in 1 .. Len(queue[l]) : phase[queue[l][i]] = "queued" /\ Via(queue[l][i]) = l
      BY <2>2 DEF IInv, TypeOK, QueueOK
    <2>4. \A i \in 1 .. Len(queue[l]) : queue[l][i] # c
      BY <1>0, <2>3
    <2>5. /\ q \in Seq(Conn) /\ Unique(q)
          /\ \A i \in 1 .. Len(q) : \/ i \in 1 .. Len(queue[l]) /\ q[i] = queue[l][i]
                                    \/ q[i] = c
      BY <2>3, <2>4, AppendUnique
    <2>6. queue' = [queue EXCEPT ![l] = q]
      BY <1>2
    <2>7. l \in Listener /\ Via(c) = l
      BY <2>2
    <2> HIDE DEF l, q
    <2>8. \A i \in 1 .. Len(q) : \/ q[i] # c /\ phase[q[i]] = "queued" /\ Via(q[i]) = l
                                 \/ q[i] = c
      BY <2>3, <2>4, <2>5
    <2>9. QueueOK'
      BY <1>0, <1>2, <2>5, <2>6, <2>7, <2>8, ChannelStep
    <2>10. Held' = Held
      BY <1>0, <1>2, HeldStay DEF IInv, Holding
    <2>11. SlotsInv'
      BY <1>0, <1>2, <2>10 DEF IInv, SlotsInv, Slot
    <2>12. TypeOK' /\ LoopOff'
      BY <1>0, <1>2, <2>5, <2>6, <2>7 DEF IInv, TypeOK, Phase, LoopOff
    <2>13. ViaOK'
      BY <1>0, <1>2 DEF IInv, TypeOK, ViaOK, Assigned
    <2> QED BY <2>9, <2>11, <2>12, <2>13 DEF IInv
  <1> QED BY <1>1, <1>2 DEF HandOver

\* What the head of a channel that is not empty is.
LEMMA HeadOfChannel ==
    ASSUME IInv, NEW l \in Listener, queue[l] # <<>>
    PROVE  /\ Head(queue[l]) \in Conn /\ phase[Head(queue[l])] = "queued"
           /\ Via(Head(queue[l])) = l
           /\ Tail(queue[l]) \in Seq(Conn) /\ Unique(Tail(queue[l]))
           /\ \A i \in 1 .. Len(Tail(queue[l])) :
                 /\ Tail(queue[l])[i] # Head(queue[l])
                 /\ phase[Tail(queue[l])[i]] = "queued" /\ Via(Tail(queue[l])[i]) = l
  <1>1. queue[l] \in Seq(Conn) /\ Unique(queue[l])
        /\ \A i \in 1 .. Len(queue[l]) : phase[queue[l][i]] = "queued" /\ Via(queue[l][i]) = l
    BY DEF IInv, TypeOK, QueueOK
  <1> DEFINE s == queue[l]
  <1>2. /\ Head(s) \in Conn /\ Head(s) = s[1] /\ 1 \in 1 .. Len(s)
        /\ Tail(s) \in Seq(Conn) /\ Unique(Tail(s))
        /\ \A i \in 1 .. Len(Tail(s)) :
              /\ i + 1 \in 1 .. Len(s) /\ Tail(s)[i] = s[i + 1] /\ Tail(s)[i] # Head(s)
    BY <1>1, TailUnique
  <1> QED BY <1>1, <1>2

LEMMA ServerAcceptsStep == ASSUME NEW l \in Listener PROVE IInv /\ ServerAccepts(l) => IInv'
  <1> SUFFICES ASSUME IInv, ServerAccepts(l) PROVE IInv'
    OBVIOUS
  <1> DEFINE c == Head(queue[l])
             q == Tail(queue[l])
  <1>0. /\ UNCHANGED <<main, synced, server, local, sls, loop, drain, closed, sem, script,
                       bytes, eof, seen, at, outcome, reply>>
        /\ queue[l] # <<>>
        /\ phase' = [phase EXCEPT ![c] = "serving"] /\ queue' = [queue EXCEPT ![l] = q]
    BY DEF ServerAccepts, serverUnchanged
  <1>1. /\ c \in Conn /\ phase[c] = "queued" /\ Via(c) = l /\ q \in Seq(Conn) /\ Unique(q)
        /\ \A i \in 1 .. Len(q) : q[i] # c /\ phase[q[i]] = "queued" /\ Via(q[i]) = l
    BY <1>0, HeadOfChannel
  <1> HIDE DEF c, q
  <1>2. QueueOK'
    BY <1>0, <1>1, ChannelStep
  <1>3. Held' = Held
    BY <1>0, <1>1, HeldStay DEF IInv, Holding
  <1>4. SlotsInv'
    BY <1>0, <1>3 DEF IInv, SlotsInv, Slot
  <1>5. TypeOK' /\ LoopOff'
    BY <1>0, <1>1 DEF IInv, TypeOK, Phase, LoopOff
  <1>6. ViaOK'
    BY <1>0, <1>1 DEF IInv, TypeOK, ViaOK, Assigned
  <1> QED BY <1>2, <1>4, <1>5, <1>6 DEF IInv

LEMMA DrainStep == IInv /\ Drain => IInv'
  <1> SUFFICES ASSUME IInv, Drain PROVE IInv'
    OBVIOUS
  <1>0. UNCHANGED <<main, synced, server, local, sls>> /\ loop = "drain" /\ Running
    BY DEF Drain, loopUnchanged
  <1>1. ASSUME UNCHANGED <<queue, sem, script, bytes, eof, phase, seen, at, outcome, reply>>,
               loop' \in {"drain", "send"}, drain' \in Seq(Listener), closed' \in SUBSET Listener
        PROVE  IInv'
    <2>1. TypeOK' /\ LoopOff' /\ Slot' = Slot
      BY <1>0, <1>1 DEF IInv, TypeOK, LoopOff, Slot, Running
    <2> QED BY <1>1, <2>1, Elsewhere
  <1>d. drain \in Seq(Listener) /\ closed \in SUBSET Listener
    BY DEF IInv, TypeOK
  <1>2. CASE drain = <<>> /\ loop' = "send" /\ UNCHANGED <<drain, closed, queue, sem, conns>>
    BY <1>d, <1>1, <1>2 DEF conns
  <1>3. CASE /\ drain # <<>> /\ closed' = closed \cup {Head(drain)}
             /\ UNCHANGED <<loop, drain, queue, sem, conns>>
    BY <1>0, <1>d, <1>1, <1>3 DEF conns
  <1>4. CASE /\ drain # <<>> /\ drain' = Tail(drain)
             /\ UNCHANGED <<loop, closed, queue, sem, conns>>
    BY <1>0, <1>d, <1>1, <1>4 DEF conns
  <1>5. CASE /\ drain # <<>> /\ queue[Head(drain)] # <<>>
             /\ Close(Head(queue[Head(drain)]), "dropped")
             /\ queue' = [queue EXCEPT ![Head(drain)] = Tail(@)]
             /\ UNCHANGED <<loop, drain, closed, script, bytes, eof, seen, at, reply>>
    <2> DEFINE l == Head(drain)
               c == Head(queue[l])
               q == Tail(queue[l])
    <2>1. l \in Listener
      BY <1>d, <1>5
    <2>2. queue[l] # <<>> /\ queue' = [queue EXCEPT ![l] = q]
      BY <1>5
    <2>3. /\ phase' = [phase EXCEPT ![c] = "closed"] /\ sem' = sem - 1
          /\ outcome' = [outcome EXCEPT ![c] = "dropped"]
      BY <1>5 DEF Close
    <2>4. /\ c \in Conn /\ phase[c] = "queued" /\ Via(c) = l /\ q \in Seq(Conn) /\ Unique(q)
          /\ \A i \in 1 .. Len(q) : q[i] # c /\ phase[q[i]] = "queued" /\ Via(q[i]) = l
      BY <2>1, <2>2, HeadOfChannel
    <2> HIDE DEF l, c, q
    <2>5. QueueOK'
      BY <1>5, <2>1, <2>2, <2>3, <2>4, ChannelStep
    <2>6. phase[c] \in Holding /\ "closed" \notin Holding /\ TypeOK
      BY <2>4 DEF IInv, Holding
    <2>7. Cardinality(Held') = Cardinality(Held) - 1 /\ Cardinality(Held) >= 1
      BY <2>3, <2>4, <2>6, HeldLeave
    <2>8. SlotsInv' /\ sem' \in Nat
      BY <1>5, <2>3, <2>7, Numbers DEF IInv, SlotsInv, Slot
    <2>a. /\ queue' \in [Listener -> Seq(Conn)] /\ phase' \in [Conn -> Phase]
          /\ outcome' \in [Conn -> {"none", "unmatched", "dropped", "finished"}]
      BY <2>1, <2>2, <2>3, <2>4 DEF IInv, TypeOK, Phase
    <2>9. TypeOK' /\ LoopOff'
      BY <1>0, <1>5, <2>a, <2>8 DEF IInv, TypeOK, LoopOff
    <2>10. ViaOK'
      BY <1>5, <2>3, <2>4 DEF IInv, TypeOK, ViaOK, Assigned
    <2> QED BY <2>5, <2>8, <2>9, <2>10 DEF IInv
  <1> QED BY <1>2, <1>3, <1>4, <1>5 DEF Drain

LEMMA ServeStep == ASSUME NEW c \in Conn PROVE IInv /\ ServeConn(c) => IInv'
  <1> SUFFICES ASSUME IInv, ServeConn(c) PROVE IInv'
    OBVIOUS
  <1>1. CASE Handle(c)
    <2>1. UNCHANGED <<main, synced, server, local, sls, loop, drain, closed, queue, sem, script,
                      bytes, eof, phase, seen, at, outcome>>
      BY <1>1 DEF Handle, serverUnchanged
    <2>2. \E x \in {"backend", "unavailable", "forwarded"} : reply' = [reply EXCEPT ![c] = x]
      BY <1>1 DEF Handle
    <2>3. TypeOK' /\ LoopOff' /\ Slot' = Slot
      BY <2>1, <2>2 DEF IInv, TypeOK, LoopOff, Slot
    <2> QED BY <2>1, <2>3, Elsewhere
  <1>2. CASE CloseServed(c)
    <2>1. /\ UNCHANGED <<main, synced, server, local, sls, loop, drain, closed, queue, script,
                         bytes, eof, seen, at, reply>>
          /\ Close(c, "finished") /\ phase[c] = "serving"
      BY <1>2 DEF CloseServed, serverUnchanged
    <2> QED BY <2>1, CloseStep DEF Holding
  <1> QED BY <1>1, <1>2 DEF ServeConn

\* Every step of the specification keeps the invariant.
THEOREM StepOK == IInv /\ [Next]_vars => IInv'
  <1> SUFFICES ASSUME IInv, [Next]_vars PROVE IInv'
    OBVIOUS
  <1>1. CASE UNCHANGED vars
    BY <1>1 DEF vars, IInv, TypeOK, ViaOK, QueueOK, Via, SlotsInv, Held, Slot, LoopOff
  <1>2. CASE Next
    <2>1. CASE Exited
      BY <1>1, <2>1 DEF Exited
    <2>2. CASE Mux
      BY <2>2, LoopStep, DrainStep DEF Mux
    <2>3. ASSUME NEW c \in Conn, Client(c) \/ Accept(c) \/ SniffConn(c) \/ ServeConn(c)
          PROVE  IInv'
      BY <2>3, ConnectStep, AcceptStep, SniffStep, HandOverStep, ServeStep DEF SniffConn
    <2>4. ASSUME NEW l \in Listener, Register(l) \/ ServerAccepts(l) \/ ServerReturns(l)
          PROVE  IInv'
      BY <2>4, RegisterStep, ServerAcceptsStep, ServerReturnsStep
    <2> QED BY <1>2, <2>1, <2>2, <2>3, <2>4, AgentStep, TornStep DEF Next
  <1> QED BY <1>1, <1>2

\* The types of the server's state, for every instance.
THEOREM TypeCorrect == Spec => []TypeOK
  <1>1. IInv => TypeOK
    BY DEF IInv
  <1> QED BY InitOK, StepOK, <1>1, PTL DEF Spec

\* No interleaving of the accept loop, the sniffers, the servers and the drain
\* leaks a slot of the LimitListener or gives one back twice.
THEOREM SlotsExactHolds == Spec => []SlotsExact
  <1>1. IInv => SlotsExact
    BY DEF IInv, SlotsInv, SlotsExact, Held, Slot
  <1> QED BY InitOK, StepOK, <1>1, PTL DEF Spec

-----------------------------------------------------------------------------
(* The servers get the connections that are meant for them *)

\* What the HTTP matcher has seen when it turned a connection down.
NotHTTP(c) == IF bytes[c] = 0 THEN eof[c]
              ELSE script[c].chunks[1].kind \notin {"request", "short"}

\* What the gRPC matcher has seen when it turned a connection down: the end of
\* the stream, another protocol, or a frame that ends the headers before any
\* that was recognised.
Blocks(c, j) == Ends(c, j) /\ ~Calls(c, j)
NotGRPC(c) ==
    \/ eof[c] /\ ~CallsLast(c)
    \/ bytes[c] > 0 /\ script[c].chunks[1].kind # "preface"
    \/ \E j \in 2 .. bytes[c] :
          /\ Blocks(c, j)
          /\ \A i \in 2 .. j - 1 : ~Calls(c, i)

Declined(l, c) == IF l = "http" THEN NotHTTP(c) ELSE NotGRPC(c)

RightFor(c) == IF Via(c) = "http" THEN SpeaksHTTP(c) ELSE SpeaksGRPC(c)

\* What is true of one connection.  A matcher that said no was right, and keeps
\* being right: the first bytes stay what they are, and nothing follows an end.
SniffOK(c) ==
    /\ bytes[c] <= Len(script[c].chunks)
    /\ phase[c] = "none" => bytes[c] = 0 /\ ~eof[c]
    /\ phase[c] \in {"none", "backlog", "accepted"} => at[c] = 1
    /\ phase[c] \in Assigned => RightFor(c)
    /\ \A i \in 1 .. Len(seen[c]) : i < at[c] => Declined(seen[c][i], c)
    /\ outcome[c] = "unmatched" => phase[c] = "closed" /\ at[c] > Len(seen[c])

SniffInv == \A c \in Conn : SniffOK(c)

\* The chunks received so far are the first ones of the script.
LEMMA ReceivedFacts ==
    ASSUME TypeOK, NEW c \in Conn, bytes[c] <= Len(script[c].chunks)
    PROVE  /\ Received(c) \in Seq(Chunk) /\ Len(Received(c)) = bytes[c]
           /\ \A i \in 1 .. bytes[c] : Received(c)[i] = script[c].chunks[i]
           /\ Received(c) = <<>> <=> bytes[c] = 0
           /\ bytes[c] > 0 => Head(Received(c)) = script[c].chunks[1]
  <1>1. script[c].chunks \in Seq(Chunk) /\ bytes[c] \in Nat
    BY ScriptAssumption DEF TypeOK, Script
  <1> DEFINE s == script[c].chunks
             n == bytes[c]
  <1>2. s \in Seq(Chunk) /\ n \in Nat /\ n <= Len(s) /\ Received(c) = SubSeq(s, 1, n)
    BY <1>1 DEF Received
  <1> HIDE DEF s, n
  <1>3. /\ SubSeq(s, 1, n) \in Seq(Chunk) /\ Len(SubSeq(s, 1, n)) = n
        /\ \A i \in 1 .. n : SubSeq(s, 1, n)[i] = s[i]
    BY <1>2
  <1>4. n > 0 => Head(SubSeq(s, 1, n)) = s[1]
    BY <1>3, <1>2
  <1> QED BY <1>2, <1>3, <1>4 DEF s, n

\* A matcher says yes only to the protocol of its own server.
LEMMA MatchRight ==
    ASSUME TypeOK, NEW c \in Conn, NEW l \in Listener, bytes[c] <= Len(script[c].chunks),
           Matcher(l, Received(c), eof[c]) = "match"
    PROVE  IF l = "http" THEN SpeaksHTTP(c) ELSE SpeaksGRPC(c)
  <1> DEFINE s == Received(c)
             chunks == script[c].chunks
  <1>0. /\ s \in Seq(Chunk) /\ Len(s) = bytes[c] /\ bytes[c] \in Nat
        /\ \A i \in 1 .. bytes[c] : s[i] = chunks[i]
        /\ s = <<>> <=> bytes[c] = 0
        /\ bytes[c] > 0 => Head(s) = chunks[1]
    BY ReceivedFacts DEF TypeOK
  <1>a. AtEnd(eof[c]) # "match"
    BY DEF AtEnd
  <1> HIDE DEF s, chunks
  <1>1. CASE l = "http"
    <2>1. createHTTPListener(s, eof[c]) = "match"
      BY <1>1 DEF Matcher, s
    <2>2. s # <<>> /\ Head(s).kind \in {"request", "short"}
      BY <1>a, <2>1 DEF createHTTPListener
    <2> QED BY <1>0, <1>1, <2>2 DEF SpeaksHTTP, chunks
  <1>2. CASE l # "http"
    <2>1. http2HeaderFieldEqual(s, eof[c]) = "match"
      BY <1>2 DEF Matcher, s
    <2>2. hasHTTP2Preface(s, eof[c]) = "match"
      BY <2>1 DEF http2HeaderFieldEqual
    <2>3. s # <<>> /\ Head(s).kind = "preface"
      BY <1>a, <2>2 DEF hasHTTP2Preface
    <2>4. \E i \in Deciding(s) : s[i].kind = "headers" /\ matchedAfter(s[i])
      BY <1>a, <2>1, <2>2 DEF http2HeaderFieldEqual
    <2>5. PICK i \in 2 .. Len(s) : s[i].kind = "headers" /\ matchedAfter(s[i])
      BY <2>4 DEF Deciding
    <2>6. s[i] = chunks[i] /\ i \in 2 .. bytes[c] /\ s[i] \in Chunk
      BY <1>0
    <2>7. s[i].fields \in Seq(Field) /\ s[i].fields # <<>> /\ Last(s[i].fields) = "grpc"
      BY <2>5, <2>6 DEF matchedAfter, Matched, Chunk
    <2>8. "grpc" \in ToSet(s[i].fields)
      <3> DEFINE f == s[i].fields
      <3>1. f \in Seq(Field) /\ f # <<>> /\ Last(f) = f[Len(f)] /\ Last(f) = "grpc"
        BY <2>7 DEF Last
      <3> HIDE DEF f
      <3>2. Len(f) \in DOMAIN f
        BY <3>1
      <3> QED BY <3>1, <3>2 DEF f, ToSet
    <2>9. \E j \in HeaderFrames(c) : Announces(c, j)
      BY <2>5, <2>6, <2>8 DEF HeaderFrames, Announces, chunks
    <2> QED BY <1>0, <1>2, <2>3, <2>9 DEF SpeaksGRPC, chunks
  <1> QED BY <1>1, <1>2

\* The HTTP matcher says no only to what does not start with a method.
LEMMA NoMatchRight ==
    ASSUME TypeOK, NEW c \in Conn, bytes[c] <= Len(script[c].chunks),
           Matcher("http", Received(c), eof[c]) = "nomatch"
    PROVE  NotHTTP(c)
  <1>1. /\ Received(c) = <<>> <=> bytes[c] = 0
        /\ bytes[c] > 0 => Head(Received(c)) = script[c].chunks[1]
    BY ReceivedFacts
  <1>2. bytes[c] \in Nat /\ eof[c] \in BOOLEAN
    BY DEF TypeOK
  <1>3. createHTTPListener(Received(c), eof[c]) = "nomatch"
    BY DEF Matcher
  <1>4. CASE bytes[c] = 0
    <2>1. AtEnd(eof[c]) = "nomatch"
      BY <1>1, <1>3, <1>4 DEF createHTTPListener
    <2>2. eof[c]
      BY <1>2, <2>1 DEF AtEnd
    <2> QED BY <1>4, <2>2 DEF NotHTTP
  <1>5. CASE bytes[c] # 0
    <2>1. Head(Received(c)).kind \notin {"request", "short"}
      BY <1>1, <1>3, <1>5 DEF createHTTPListener
    <2> QED BY <1>1, <1>2, <1>5, <2>1 DEF NotHTTP
  <1> QED BY <1>4, <1>5

\* A set of frames that is not empty has a first one.
LEMMA FirstFrame ==
    ASSUME NEW S \in SUBSET Nat, S # {}
    PROVE  \E m \in S : \A k \in S : m <= k
  <1>1. PICK m \in S : \A k \in S : <<k, m>> \notin OpToRel(<, Nat)
    BY NatLessThanWellFounded, WFMin
  <1>2. \A k \in S : ~(k < m)
    BY <1>1 DEF OpToRel
  <1> QED BY <1>2

\* Whatever makes the gRPC matcher say no excludes a call it could recognise.
LEMMA NotGRPCRight ==
    ASSUME NEW c \in Conn, bytes[c] \in Nat, NotGRPC(c)
    PROVE  ~CallsLast(c)
  <1> SUFFICES ASSUME CallsLast(c) PROVE FALSE
    OBVIOUS
  <1>1. PICK i \in 2 .. bytes[c] : /\ Calls(c, i)
                                  /\ \A j \in 2 .. i - 1 : ~Ends(c, j)
    BY DEF CallsLast
  <1>2. PICK j \in 2 .. bytes[c] :
           /\ Blocks(c, j)
           /\ \A k \in 2 .. j - 1 : ~Calls(c, k)
    BY DEF NotGRPC, CallsLast
  <1>3. ~(j < i)
    BY <1>1, <1>2 DEF Blocks
  <1>4. ~(i < j)
    BY <1>1, <1>2
  <1>5. i # j
    BY <1>1, <1>2 DEF Blocks
  <1> QED BY <1>3, <1>4, <1>5

\* The gRPC matcher says no only for such a reason.
LEMMA NoCallRight ==
    ASSUME TypeOK, NEW c \in Conn, bytes[c] <= Len(script[c].chunks),
           Matcher("grpc", Received(c), eof[c]) = "nomatch"
    PROVE  NotGRPC(c)
  <1> DEFINE s == Received(c)
             chunks == script[c].chunks
             gone == eof[c]
  <1>0. /\ s \in Seq(Chunk) /\ Len(s) = bytes[c] /\ bytes[c] \in Nat /\ gone \in BOOLEAN
        /\ \A i \in 1 .. bytes[c] : s[i] = chunks[i]
        /\ s = <<>> <=> bytes[c] = 0
        /\ bytes[c] > 0 => Head(s) = chunks[1]
    BY ReceivedFacts DEF TypeOK
  <1>1. http2HeaderFieldEqual(s, gone) = "nomatch"
    BY DEF Matcher
  <1> HIDE DEF s, gone
  <1>a. AtEnd(gone) = "nomatch" => gone
    BY <1>0 DEF AtEnd
  <1>2. ASSUME NEW i \in 2 .. bytes[c]
        PROVE  i \in Deciding(s) <=> \/ Ends(c, i)
                                     \/ Calls(c, i)
    <2>1. s[i] = chunks[i]
      BY <1>0
    <2>2. matchedAfter(s[i]) <=> AnnouncesLast(c, i)
      BY <2>1 DEF matchedAfter, Matched, AnnouncesLast
    <2>3. checkFrameOrder(s, i) <=> InPlace(c, i)
      BY <1>0, <2>1 DEF checkFrameOrder, Unfinished, InPlace
    <2> QED BY <1>0, <2>1, <2>2, <2>3 DEF Deciding, Ends, Calls
  <1>3. CASE hasHTTP2Preface(s, gone) # "match"
    <2>1. hasHTTP2Preface(s, gone) = "nomatch"
      BY <1>1, <1>3 DEF http2HeaderFieldEqual
    <2>2. CASE s = <<>>
      <3>1. gone
        BY <1>a, <2>1, <2>2 DEF hasHTTP2Preface
      <3> QED BY <1>0, <2>2, <3>1 DEF NotGRPC, CallsLast, gone
    <2>3. CASE s # <<>>
      <3>1. Head(s).kind # "preface"
        BY <2>1, <2>3 DEF hasHTTP2Preface
      <3> QED BY <1>0, <2>3, <3>1 DEF NotGRPC
    <2> QED BY <2>2, <2>3
  <1>4. CASE hasHTTP2Preface(s, gone) = "match" /\ Deciding(s) = {}
    <2>1. gone
      BY <1>1, <1>4, <1>a DEF http2HeaderFieldEqual
    <2>2. ~CallsLast(c)
      BY <1>2, <1>4 DEF CallsLast
    <2> QED BY <2>1, <2>2 DEF NotGRPC, gone
  <1>5. CASE hasHTTP2Preface(s, gone) = "match" /\ Deciding(s) # {}
    <2>1. Deciding(s) \in SUBSET Nat /\ Deciding(s) \subseteq 2 .. bytes[c]
      BY <1>0 DEF Deciding
    <2>2. PICK j \in Deciding(s) : \A k \in Deciding(s) : j <= k
      BY <1>5, <2>1, FirstFrame
    <2>3. ~(s[j].kind = "headers" /\ matchedAfter(s[j]) /\ checkFrameOrder(s, j))
      BY <1>1, <1>5, <2>2 DEF http2HeaderFieldEqual
    <2>4. j \in 2 .. bytes[c] /\ s[j] = chunks[j]
      BY <1>0, <2>1, <2>2
    <2>5. ~Calls(c, j)
      <3>1. checkFrameOrder(s, j) <=> InPlace(c, j)
        BY <1>0, <2>4 DEF checkFrameOrder, Unfinished, InPlace
      <3> QED BY <2>3, <2>4, <3>1 DEF matchedAfter, Matched, AnnouncesLast, Calls
    <2>6. Blocks(c, j)
      BY <1>2, <2>2, <2>4, <2>5 DEF Blocks
    <2>7. ASSUME NEW k \in 2 .. j - 1
          PROVE  ~Calls(c, k)
      <3>1. k \in 2 .. bytes[c] /\ ~(j <= k)
        BY <1>0, <2>4
      <3> QED BY <1>2, <2>2, <3>1
    <2> QED BY <2>4, <2>6, <2>7 DEF NotGRPC
  <1> QED BY <1>3, <1>4, <1>5

\* What the client of c has sent and the listeners it goes through are the same.
StreamSame(c) == /\ script'[c] = script[c] /\ bytes'[c] = bytes[c] /\ eof'[c] = eof[c]
                 /\ seen'[c] = seen[c]

LEMMA StreamFacts ==
    ASSUME NEW c \in Conn, StreamSame(c)
    PROVE  /\ NotHTTP(c)' <=> NotHTTP(c)
           /\ NotGRPC(c)' <=> NotGRPC(c)
           /\ at'[c] = at[c] => (RightFor(c)' <=> RightFor(c))
  <1>1. SpeaksHTTP(c)' <=> SpeaksHTTP(c)
    BY DEF StreamSame, SpeaksHTTP
  <1>2. HeaderFrames(c)' = HeaderFrames(c)
    BY DEF StreamSame, HeaderFrames
  <1>3. SpeaksGRPC(c)' <=> SpeaksGRPC(c)
    BY <1>2 DEF StreamSame, SpeaksGRPC, Announces
  <1>4. NotHTTP(c)' <=> NotHTTP(c)
    BY DEF StreamSame, NotHTTP
  <1>5. at'[c] = at[c] => Via(c)' = Via(c)
    BY DEF StreamSame, Via
  <1>6. CallsLast(c)' <=> CallsLast(c)
    BY DEF StreamSame, CallsLast, Calls, AnnouncesLast, Ends, InPlace
  <1>7. NotGRPC(c)' <=> NotGRPC(c)
    BY <1>6 DEF StreamSame, NotGRPC, Blocks, Calls, AnnouncesLast, Ends, InPlace
  <1> QED BY <1>1, <1>3, <1>4, <1>5, <1>7 DEF RightFor

\* A step that only moves c from one phase to another.
LEMMA SniffMoves ==
    ASSUME NEW c \in Conn, SniffOK(c), StreamSame(c), at'[c] = at[c],
           phase'[c] = "none" => phase[c] = "none",
           phase'[c] \in {"none", "backlog", "accepted"} =>
              phase[c] \in {"none", "backlog", "accepted"},
           phase'[c] \in Assigned => RightFor(c),
           outcome'[c] = "unmatched" => phase'[c] = "closed" /\ at[c] > Len(seen[c])
    PROVE  SniffOK(c)'
  <1>1. /\ NotHTTP(c)' <=> NotHTTP(c)
        /\ NotGRPC(c)' <=> NotGRPC(c)
        /\ RightFor(c)' <=> RightFor(c)
    BY StreamFacts
  <1> QED BY <1>1 DEF SniffOK, Declined, StreamSame

\* A step that leaves c alone.
LEMMA SniffFrame ==
    ASSUME NEW c \in Conn, SniffOK(c), StreamSame(c), at'[c] = at[c],
           phase'[c] = phase[c], outcome'[c] = outcome[c]
    PROVE  SniffOK(c)'
  BY SniffMoves DEF SniffOK

LEMMA SniffInit == Init => SniffInv
  <1> SUFFICES ASSUME Init, NEW c \in Conn PROVE SniffOK(c)
    BY DEF SniffInv
  <1>1. /\ bytes[c] = 0 /\ eof[c] = FALSE /\ phase[c] = "none" /\ seen[c] = <<>> /\ at[c] = 1
        /\ outcome[c] = "none" /\ script[c] \in Scripts
    BY InitOK DEF Init, IInv, TypeOK
  <1>2. Len(script[c].chunks) \in Nat
    BY <1>1, ScriptAssumption DEF Script
  <1> QED BY <1>1, <1>2 DEF SniffOK, Assigned

\* A step in which no connection moves and no client acts.
LEMMA SniffElsewhere ==
    ASSUME SniffInv, UNCHANGED <<script, bytes, eof, phase, seen, at, outcome>>
    PROVE  SniffInv'
  <1> SUFFICES ASSUME NEW c \in Conn PROVE SniffOK(c)'
    BY DEF SniffInv
  <1> QED BY SniffFrame DEF SniffInv, StreamSame

\* Only c moves, and no client acts.
LEMMA SniffOne ==
    ASSUME IInv, SniffInv, NEW c \in Conn, NEW x, NEW o,
           phase' = [phase EXCEPT ![c] = x], outcome' = [outcome EXCEPT ![c] = o],
           UNCHANGED <<script, bytes, eof, seen, at>>,
           x \notin {"none", "backlog", "accepted"} \/ (x = "accepted" /\ phase[c] = "backlog"),
           x \in Assigned => RightFor(c),
           o = "unmatched" => x = "closed" /\ at[c] > Len(seen[c])
    PROVE  SniffInv'
  <1> SUFFICES ASSUME NEW d \in Conn PROVE SniffOK(d)'
    BY DEF SniffInv
  <1>0. SniffOK(d) /\ StreamSame(d) /\ at'[d] = at[d]
    BY DEF SniffInv, StreamSame
  <1>1. CASE d # c
    <2>1. phase'[d] = phase[d] /\ outcome'[d] = outcome[d]
      BY <1>1 DEF IInv, TypeOK
    <2> QED BY <1>0, <2>1, SniffFrame
  <1>2. CASE d = c
    <2>1. phase'[d] = x /\ outcome'[d] = o
      BY <1>2 DEF IInv, TypeOK
    <2> QED BY <1>0, <1>2, <2>1, SniffMoves
  <1> QED BY <1>1, <1>2

LEMMA SniffClient == ASSUME NEW c \in Conn PROVE IInv /\ SniffInv /\ Client(c) => SniffInv'
  <1> SUFFICES ASSUME IInv, SniffInv, Client(c), NEW d \in Conn PROVE SniffOK(d)'
    BY DEF SniffInv
  <1>0. UNCHANGED <<seen, at, outcome>> /\ SniffOK(d)
    BY DEF Client, Connect, Send, HangUp, SniffInv
  <1>t. TypeOK /\ TypeOK'
    BY ConnectStep DEF IInv
  <1>1. CASE d # c
    <2>1. /\ script'[d] = script[d] /\ bytes'[d] = bytes[d] /\ eof'[d] = eof[d]
          /\ phase'[d] = phase[d]
      BY <1>1, <1>t DEF TypeOK, Client, Connect, Send, HangUp
    <2> QED BY <1>0, <2>1, SniffFrame DEF StreamSame
  <1>2. CASE d = c /\ Connect(c)
    <2>1. /\ phase[d] = "none" /\ phase'[d] = "backlog" /\ bytes'[d] = bytes[d] /\ eof'[d] = eof[d]
          /\ script'[d] \in Scripts
      BY <1>2, <1>t DEF TypeOK, Connect
    <2>2. bytes'[d] = 0 /\ at'[d] = 1 /\ outcome'[d] # "unmatched"
      BY <1>0, <2>1 DEF SniffOK
    <2>3. Len(script'[d].chunks) \in Nat
      BY <2>1, ScriptAssumption DEF Script
    <2> QED BY <2>1, <2>2, <2>3 DEF SniffOK, Assigned
  <1>3. CASE d = c /\ (Send(c) \/ HangUp(c))
    <2>1. /\ UNCHANGED <<script, phase, seen, at, outcome>> /\ phase[d] # "none"
          /\ bytes[d] \in Nat /\ eof[d] \in BOOLEAN /\ Len(script[d].chunks) \in Nat
      <3>1. script[d] \in Script
        BY <1>t, ScriptAssumption DEF TypeOK
      <3>2. Len(script[d].chunks) \in Nat
        BY <3>1 DEF Script
      <3> QED BY <1>0, <1>3, <1>t, <3>2 DEF TypeOK, Send, HangUp
    <2>2. \/ bytes'[d] = bytes[d] + 1 /\ eof'[d] = eof[d] /\ ~eof[d]
             /\ bytes[d] < Len(script[d].chunks)
          \/ bytes'[d] = bytes[d] /\ eof'[d] = TRUE
      BY <1>3, <1>t DEF TypeOK, Send, HangUp
    <2>3. bytes'[d] <= Len(script'[d].chunks) /\ bytes[d] <= bytes'[d] /\ bytes'[d] \in Nat
      BY <1>0, <2>1, <2>2 DEF SniffOK
    <2>4. NotHTTP(d) => NotHTTP(d)'
      BY <2>1, <2>2 DEF NotHTTP
    <2>a. NotGRPC(d) => NotGRPC(d)'
      <3>1. CASE eof[d] /\ ~CallsLast(d)
        <4>1. bytes'[d] = bytes[d] /\ eof'[d]
          BY <2>2, <3>1
        <4>2. CallsLast(d)' => CallsLast(d)
          BY <2>1, <4>1 DEF CallsLast, Calls, AnnouncesLast, Ends, InPlace
        <4> QED BY <3>1, <4>1, <4>2 DEF NotGRPC
      <3>2. CASE bytes[d] > 0 /\ script[d].chunks[1].kind # "preface"
        BY <2>1, <2>3, <3>2 DEF NotGRPC
      <3>3. ASSUME NEW j \in 2 .. bytes[d], Blocks(d, j),
                   \A i \in 2 .. j - 1 : ~Calls(d, i)
            PROVE  NotGRPC(d)'
        <4>1. j \in 2 .. bytes'[d]
          BY <2>1, <2>3
        <4> QED BY <2>1, <3>3, <4>1 DEF NotGRPC, Blocks, Calls, Ends, AnnouncesLast, InPlace
      <3> QED BY <3>1, <3>2, <3>3 DEF NotGRPC
    <2>5. RightFor(d) => RightFor(d)'
      <3>1. SpeaksHTTP(d) => SpeaksHTTP(d)'
        BY <2>1, <2>3 DEF SpeaksHTTP
      <3>2. HeaderFrames(d) \subseteq HeaderFrames(d)'
        BY <2>1, <2>3 DEF HeaderFrames
      <3>3. SpeaksGRPC(d) => SpeaksGRPC(d)'
        BY <2>1, <2>3, <3>2 DEF SpeaksGRPC, Announces
      <3> QED BY <2>1, <3>1, <3>3 DEF RightFor, Via
    <2> QED BY <1>0, <2>1, <2>3, <2>4, <2>5, <2>a DEF SniffOK, Declined
  <1> QED BY <1>1, <1>2, <1>3 DEF Client

LEMMA SniffSniff ==
    ASSUME NEW c \in Conn
    PROVE  IInv /\ SniffInv /\ (StartSniffing(c) \/ Sniff(c)) => SniffInv'
  <1> SUFFICES ASSUME IInv, SniffInv, StartSniffing(c) \/ Sniff(c) PROVE SniffInv'
    OBVIOUS
  <1>0. UNCHANGED <<script, bytes, eof>> /\ TypeOK
    BY DEF StartSniffing, Sniff, IInv
  <1>1. CASE StartSniffing(c)
    <2>1. /\ phase[c] = "accepted" /\ phase' = [phase EXCEPT ![c] = "sniffing"]
          /\ seen' = [seen EXCEPT ![c] = sls] /\ UNCHANGED <<at, outcome>>
      BY <1>1 DEF StartSniffing
    <2> SUFFICES ASSUME NEW d \in Conn PROVE SniffOK(d)'
      BY DEF SniffInv
    <2>2. SniffOK(d)
      BY DEF SniffInv
    <2>3. CASE d # c
      <3>1. phase'[d] = phase[d] /\ seen'[d] = seen[d]
        BY <1>0, <2>1, <2>3 DEF TypeOK
      <3> QED BY <1>0, <2>1, <2>2, <3>1, SniffFrame DEF StreamSame
    <2>4. CASE d = c
      <3>1. phase'[d] = "sniffing" /\ at'[d] = 1 /\ outcome'[d] # "unmatched"
        BY <1>0, <2>1, <2>2, <2>4 DEF TypeOK, SniffOK
      <3> QED BY <1>0, <2>2, <3>1 DEF SniffOK, Assigned
    <2> QED BY <2>3, <2>4
  <1>2. CASE /\ phase[c] = "sniffing" /\ at[c] > Len(seen[c])
             /\ Close(c, "unmatched") /\ UNCHANGED <<at, seen>>
    BY <1>0, <1>2, SniffOne DEF Close, Assigned
  <1>3. CASE /\ phase[c] = "sniffing" /\ at[c] <= Len(seen[c])
             /\ Matcher(Via(c), Received(c), eof[c]) = "match"
             /\ phase' = [phase EXCEPT ![c] = "handover"] /\ UNCHANGED <<at, outcome, seen>>
    <2>1. Via(c) \in Listener
      BY <1>0, <1>3 DEF TypeOK, Via
    <2>2. bytes[c] <= Len(script[c].chunks)
      BY DEF SniffInv, SniffOK
    <2>3. RightFor(c)
      BY <1>0, <1>3, <2>1, <2>2, MatchRight DEF RightFor
    <2>4. outcome' = [outcome EXCEPT ![c] = outcome[c]]
      BY <1>0, <1>3 DEF TypeOK
    <2>5. outcome[c] # "unmatched"
      BY <1>3 DEF SniffInv, SniffOK
    <2> QED BY <1>0, <1>3, <2>3, <2>4, <2>5, SniffOne
  <1>4. CASE /\ phase[c] = "sniffing" /\ at[c] <= Len(seen[c])
             /\ Matcher(Via(c), Received(c), eof[c]) = "nomatch"
             /\ at' = [at EXCEPT ![c] = @ + 1] /\ UNCHANGED <<phase, outcome, seen>>
    <2> SUFFICES ASSUME NEW d \in Conn PROVE SniffOK(d)'
      BY DEF SniffInv
    <2>1. SniffOK(d) /\ StreamSame(d)
      BY <1>0, <1>4 DEF SniffInv, StreamSame
    <2>2. CASE d # c
      <3>1. at'[d] = at[d]
        BY <1>0, <1>4, <2>2 DEF TypeOK
      <3> QED BY <1>4, <2>1, <3>1, SniffFrame
    <2>3. CASE d = c
      <3>1. at'[d] = at[d] + 1 /\ at[d] \in Nat
        BY <1>0, <1>4, <2>3 DEF TypeOK
      <3>3. (NotHTTP(d)' <=> NotHTTP(d)) /\ (NotGRPC(d)' <=> NotGRPC(d))
        BY <2>1, StreamFacts
      <3>4. seen[d] \in Seq(Listener) /\ Len(seen[d]) \in Nat
        BY <1>0 DEF TypeOK
      <3>2. Declined(seen[d][at[d]], d)
        <4>1. seen[d][at[d]] \in Listener
          BY <1>4, <2>3, <3>1, <3>4, <1>0 DEF TypeOK
        <4> QED BY <1>0, <1>4, <2>1, <2>3, <4>1, NoMatchRight, NoCallRight
                DEF Via, SniffOK, Declined, Listener
      <3>5. \A j \in 1 .. Len(seen'[d]) : j < at'[d] =>
               IF seen'[d][j] = "http" THEN NotHTTP(d)' ELSE NotGRPC(d)'
        <4> SUFFICES ASSUME NEW j \in 1 .. Len(seen[d]), j < at[d] + 1
                     PROVE  Declined(seen[d][j], d)
          BY <1>4, <3>1, <3>3 DEF Declined
        <4>1. j < at[d] \/ j = at[d]
          BY <3>1
        <4> QED BY <2>1, <3>2, <4>1 DEF SniffOK
      <3> QED BY <1>0, <1>4, <2>1, <2>3, <3>5 DEF SniffOK, Assigned, Declined
    <2> QED BY <2>2, <2>3
  <1> QED BY <1>1, <1>2, <1>3, <1>4 DEF StartSniffing, Sniff

\* The other moves of a connection: it was assigned before, or it ends.
LEMMA SniffRest ==
    ASSUME IInv, SniffInv, NEW c \in Conn, NEW x \in {"accepted", "queued", "serving", "closed"},
           NEW o \in {"none", "dropped", "finished", outcome[c]},
           x = "accepted" => phase[c] = "backlog",
           x \in {"queued", "serving"} => phase[c] \in {"handover", "queued"},
           phase[c] # "closed",
           phase' = [phase EXCEPT ![c] = x], outcome' = [outcome EXCEPT ![c] = o],
           UNCHANGED <<script, bytes, eof, seen, at>>
    PROVE  SniffInv'
  <1>1. SniffOK(c)
    BY DEF SniffInv
  <1>2. o # "unmatched"
    BY <1>1 DEF SniffOK
  <1>3. x \in Assigned => RightFor(c)
    BY <1>1 DEF SniffOK, Assigned
  <1> QED BY <1>2, <1>3, SniffOne

LEMMA SniffNext == IInv /\ SniffInv /\ [Next]_vars => SniffInv'
  <1> SUFFICES ASSUME IInv, SniffInv, [Next]_vars PROVE SniffInv'
    OBVIOUS
  <1>t. TypeOK /\ \A c \in Conn : outcome = [outcome EXCEPT ![c] = outcome[c]]
    BY DEF IInv, TypeOK
  <1>1. CASE UNCHANGED vars \/ Exited
    BY <1>1, SniffElsewhere DEF vars, Exited
  <1>2. CASE Agent \/ TornRead
    BY <1>2, SniffElsewhere DEF Agent, TornRead, Listen, createAgent, InformersSync, serve,
                                serveReturns, Fatal, conns
  <1>3. CASE Acquire \/ AcceptFails \/ SniffersDone
    BY <1>3, SniffElsewhere DEF Acquire, AcceptFails, SniffersDone, conns
  <1>4. CASE Drain
    <2>1. CASE UNCHANGED conns
      BY <2>1, SniffElsewhere DEF conns
    <2>2. CASE /\ drain # <<>> /\ queue[Head(drain)] # <<>>
               /\ Close(Head(queue[Head(drain)]), "dropped")
               /\ UNCHANGED <<script, bytes, eof, seen, at, reply>>
      <3> DEFINE c == Head(queue[Head(drain)])
      <3>1. Head(drain) \in Listener
        BY <1>t, <2>2 DEF TypeOK
      <3>2. c \in Conn /\ phase[c] = "queued"
        BY <2>2, <3>1, HeadOfChannel
      <3>3. /\ phase' = [phase EXCEPT ![c] = "closed"]
            /\ outcome' = [outcome EXCEPT ![c] = "dropped"]
        BY <2>2 DEF Close
      <3> HIDE DEF c
      <3> QED BY <2>2, <3>2, <3>3, SniffRest
    <2> QED BY <1>4, <2>1, <2>2 DEF Drain
  <1>5. ASSUME NEW l \in Listener, Register(l) \/ ServerReturns(l)
        PROVE  SniffInv'
    BY <1>5, SniffElsewhere DEF Register, MatchRead, MatchWrite, ServerReturns, conns
  <1>6. ASSUME NEW l \in Listener, ServerAccepts(l)
        PROVE  SniffInv'
    <2> DEFINE c == Head(queue[l])
    <2>1. queue[l] # <<>> /\ phase' = [phase EXCEPT ![c] = "serving"]
          /\ UNCHANGED <<script, bytes, eof, seen, at, outcome>>
      BY <1>6 DEF ServerAccepts
    <2>2. c \in Conn /\ phase[c] = "queued"
      BY <2>1, HeadOfChannel
    <2> HIDE DEF c
    <2>3. outcome' = [outcome EXCEPT ![c] = outcome[c]]
      BY <1>t, <2>1, <2>2
    <2> QED BY <2>1, <2>2, <2>3, SniffRest
  <1>7. ASSUME NEW c \in Conn, Accept(c)
        PROVE  SniffInv'
    <2>1. /\ phase[c] = "backlog" /\ phase' = [phase EXCEPT ![c] = "accepted"]
          /\ UNCHANGED <<script, bytes, eof, seen, at, outcome>>
      BY <1>7 DEF Accept
    <2>2. outcome' = [outcome EXCEPT ![c] = outcome[c]]
      BY <1>t, <2>1
    <2> QED BY <2>1, <2>2, SniffRest
  <1>8. ASSUME NEW c \in Conn, HandOver(c)
        PROVE  SniffInv'
    <2>1. phase[c] = "handover" /\ UNCHANGED <<script, bytes, eof, seen, at>>
      BY <1>8 DEF HandOver
    <2>2. CASE phase' = [phase EXCEPT ![c] = "queued"] /\ UNCHANGED outcome
      <3>1. outcome' = [outcome EXCEPT ![c] = outcome[c]]
        BY <1>t, <2>2
      <3> QED BY <2>1, <2>2, <3>1, SniffRest
    <2>3. CASE Close(c, "dropped")
      <3>1. /\ phase' = [phase EXCEPT ![c] = "closed"]
            /\ outcome' = [outcome EXCEPT ![c] = "dropped"]
        BY <2>3 DEF Close
      <3> QED BY <2>1, <3>1, SniffRest
    <2> QED BY <1>8, <2>2, <2>3 DEF HandOver
  <1>9. ASSUME NEW c \in Conn, ServeConn(c)
        PROVE  SniffInv'
    <2>1. CASE Handle(c)
      BY <2>1, SniffElsewhere DEF Handle
    <2>2. CASE CloseServed(c)
      <3>1. /\ phase[c] = "serving" /\ UNCHANGED <<script, bytes, eof, seen, at>>
            /\ phase' = [phase EXCEPT ![c] = "closed"]
            /\ outcome' = [outcome EXCEPT ![c] = "finished"]
        BY <2>2 DEF CloseServed, Close
      <3> QED BY <3>1, SniffRest
    <2> QED BY <1>9, <2>1, <2>2 DEF ServeConn
  <1> QED BY <1>1, <1>2, <1>3, <1>4, <1>5, <1>6, <1>7, <1>8, <1>9, SniffClient, SniffSniff
          DEF Next, Mux, SniffConn

\* The two together are inductive, which the theorems below use.
THEOREM Invariance == Spec => [](IInv /\ SniffInv)
  <1>1. Init => IInv /\ SniffInv
    BY InitOK, SniffInit
  <1>2. (IInv /\ SniffInv) /\ [Next]_vars => (IInv /\ SniffInv)'
    BY StepOK, SniffNext
  <1> QED BY <1>1, <1>2, PTL DEF Spec

\* Whatever order the servers register in, and whatever a client sends, the
\* HTTP server is given only HTTP/1 and the gRPC server only announced gRPC.
THEOREM RightServerHolds == Spec => []RightServer
  <1>1. SniffInv => RightServer
    BY DEF SniffInv, SniffOK, RightServer, RightFor, Assigned
  <1> QED BY Invariance, <1>1, PTL

\* An HTTP/1 connection, or a gRPC call whose content-type ends a HEADERS frame,
\* is closed unserved only by a sniffer that started before the matcher for it
\* was in the slice, or after it was lost from it.
THEOREM RefusedOnlyUnregisteredHolds == Spec => []RefusedOnlyUnregistered
  <1>1. IInv /\ SniffInv => RefusedOnlyUnregistered
    <2> SUFFICES ASSUME IInv, SniffInv, NEW c \in Conn, outcome[c] = "unmatched",
                        NEW l \in Listener, l \in ToSet(seen[c]),
                        IF l = "http" THEN SpeaksHTTP(c) ELSE CallsLast(c)
                 PROVE  FALSE
      BY DEF RefusedOnlyUnregistered, Listener
    <2>1. seen[c] \in Seq(Listener) /\ at[c] \in Nat /\ bytes[c] \in Nat
      BY DEF IInv, TypeOK
    <2>2. PICK i \in 1 .. Len(seen[c]) : seen[c][i] = l
      BY <2>1 DEF ToSet
    <2>3. at[c] > Len(seen[c])
      BY DEF SniffInv, SniffOK
    <2>4. Declined(l, c)
      BY <2>1, <2>2, <2>3 DEF SniffInv, SniffOK
    <2>5. CASE l = "http"
      BY <2>1, <2>4, <2>5 DEF NotHTTP, SpeaksHTTP, Declined
    <2>6. CASE l # "http"
      BY <2>1, <2>4, <2>6, NotGRPCRight DEF Declined
    <2> QED BY <2>5, <2>6
  <1> QED BY Invariance, <1>1, PTL

-----------------------------------------------------------------------------
(* Nothing is accepted before the caches, and nothing passes but the backend *)

\* serve starts its goroutines after Start has returned.
SyncedFirst == Running => synced

LEMMA CachesNext == IInv /\ SyncedFirst /\ CachesFirst /\ [Next]_vars => SyncedFirst' /\ CachesFirst'
  <1> SUFFICES ASSUME IInv, SyncedFirst, CachesFirst, [Next]_vars
               PROVE  SyncedFirst' /\ CachesFirst'
    OBVIOUS
  <1>0. TypeOK
    BY DEF IInv
  <1>1. \/ UNCHANGED <<main, synced>>
        \/ main' = "exited" /\ UNCHANGED synced
        \/ Agent
    BY DEF Next, vars, Mux, TornRead, Exit, Exited, Register, MatchRead, MatchWrite, ServerAccepts,
           ServerReturns, Client, Connect, Send, HangUp, Accept, SniffConn, StartSniffing, Sniff,
           HandOver, ServeConn, Handle, CloseServed, Acquire, AcceptFails, SniffersDone, Drain,
           loopUnchanged, sniffUnchanged, serverUnchanged
  <1>2. SyncedFirst' /\ (synced => synced')
    BY <1>0, <1>1 DEF SyncedFirst, Running, Agent, Listen, createAgent, InformersSync, serve,
                      serveReturns, Fatal, Exit, TypeOK
  <1>3. ASSUME NEW c \in Conn, phase'[c] \in Holding
        PROVE  synced
    <2>1. CASE phase' = phase
      BY <1>3, <2>1 DEF CachesFirst
    <2>2. CASE Running
      BY <2>2 DEF SyncedFirst
    <2>3. CASE \E d \in Conn : Connect(d)
      <3>1. PICK d \in Conn : phase' = [phase EXCEPT ![d] = "backlog"]
        BY <2>3 DEF Connect
      <3>2. phase[c] \in Holding
        BY <1>0, <1>3, <3>1 DEF TypeOK, Holding
      <3> QED BY <3>2 DEF CachesFirst
    <2>4. phase' = phase \/ Running \/ \E d \in Conn : Connect(d)
      BY DEF Next, vars, Agent, Listen, createAgent, InformersSync, serve, serveReturns, Fatal, Mux,
             TornRead, Exited, Register, MatchRead, MatchWrite, ServerAccepts, ServerReturns, Client,
             Send, HangUp, Accept, SniffConn, StartSniffing, Sniff, HandOver, ServeConn, Handle,
             CloseServed, Acquire, AcceptFails, SniffersDone, Drain, conns
    <2> QED BY <2>1, <2>2, <2>3, <2>4
  <1> QED BY <1>2, <1>3 DEF CachesFirst

\* The socket listens while the caches are filled, and nothing that connects
\* then is accepted before they are.
THEOREM CachesFirstHolds == Spec => []CachesFirst
  <1>1. Init => SyncedFirst /\ CachesFirst
    BY DEF Init, SyncedFirst, Running, CachesFirst, Holding
  <1> DEFINE I == IInv /\ SyncedFirst /\ CachesFirst
  <1>2. Init => I
    BY <1>1, InitOK
  <1>3. I /\ [Next]_vars => I'
    BY CachesNext, StepOK
  <1>4. I => CachesFirst
    OBVIOUS
  <1> HIDE DEF I
  <1> QED BY <1>2, <1>3, <1>4, PTL DEF Spec

\* No call is forwarded to Prometheus by the gRPC proxy, which checks nothing.
THEOREM OnlyThroughBackendHolds == Spec => []OnlyThroughBackend
  <1>1. Init => OnlyThroughBackend
    BY DEF Init, OnlyThroughBackend
  <1>2. IInv /\ OnlyThroughBackend /\ [Next]_vars => OnlyThroughBackend'
    <2> SUFFICES ASSUME IInv, OnlyThroughBackend, [Next]_vars PROVE OnlyThroughBackend'
      OBVIOUS
    <2>1. CASE UNCHANGED reply
      BY <2>1 DEF OnlyThroughBackend
    <2>2. ASSUME NEW c \in Conn, Handle(c)
          PROVE  OnlyThroughBackend'
      <3>1. DialContext(DialOptions) = "error"
        BY DEF DialContext, DialOptions
      <3>2. \E x \in {"backend", "unavailable"} : reply' = [reply EXCEPT ![c] = x]
        BY <2>2, <3>1 DEF Handle
      <3>3. reply \in [Conn -> {"none", "backend", "unavailable", "forwarded"}]
        BY DEF IInv, TypeOK
      <3> QED BY <3>2, <3>3 DEF OnlyThroughBackend
    <2>3. UNCHANGED reply \/ \E c \in Conn : Handle(c)
      BY DEF Next, vars, Agent, Listen, createAgent, InformersSync, serve, serveReturns, Fatal, Mux,
             TornRead, Exited, Register, MatchRead, MatchWrite, ServerAccepts, ServerReturns, Client,
             Connect, Send, HangUp, Accept, SniffConn, StartSniffing, Sniff, HandOver, ServeConn,
             CloseServed, Acquire, AcceptFails, SniffersDone, Drain, conns
    <2> QED BY <2>1, <2>2, <2>3
  <1>3. (IInv /\ OnlyThroughBackend) /\ [Next]_vars => (IInv /\ OnlyThroughBackend)'
    BY <1>2, StepOK
  <1>4. Init => IInv /\ OnlyThroughBackend
    BY <1>1, InitOK
  <1> QED BY <1>3, <1>4, PTL DEF Spec

=============================================================================
