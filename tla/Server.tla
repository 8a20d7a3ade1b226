------------------------------- MODULE Server -------------------------------
(***************************************************************************)
(* The life of the agent around the request handlers: Run, createAgent and *)
(* serve of pkg/agent/entry.go, the listeners of listener.go and the gRPC  *)
(* proxy of grpc.go.  One TCP listener, limited to maxConnections, feeds a *)
(* connection multiplexer (cmux); the multiplexer reads the first bytes of *)
(* a connection in a goroutine of its own and hands it to the HTTP server  *)
(* or to the gRPC server, each of which registers its matcher in the       *)
(* goroutine that runs it.                                                 *)
(*                                                                         *)
(* cmux, netutil.LimitListener and the http2 framer are modelled from the  *)
(* vendored code, net/http from how the agent uses it.  The context that   *)
(* serve selects on is cancelled only after serve has returned, so that    *)
(* branch is never taken and has no action.                                *)
(***************************************************************************)
EXTENDS Integers, Sequences, FiniteSets, SequencesExt, FiniteSetsExt

CONSTANTS
    Conn,              \* the connections that clients may open
    Scripts,           \* what a client may send, and how
    maxConnections,    \* --max-connections
    connBuffer         \* the capacity of a mux listener's channel (cmux: 1024)

Listener == {"http", "grpc"}

\* A header field: content-type application/grpc, another content-type, or
\* any other field.
Field == {"grpc", "othertype", "other"}

\* A piece of a connection's byte stream.  A "request" starts with an HTTP/1
\* method and has at least the 24 bytes of an HTTP/2 preface, a "short" one has
\* fewer; "noise" starts with neither; "headers" is a HEADERS frame with the
\* fields decoded from its fragment and its END_HEADERS flag, "continuation" a
\* CONTINUATION frame of the same stream, "other" any other frame, "bad" what
\* ReadFrame rejects for itself, or the decoder.
Chunk == [kind : {"request", "short", "noise", "preface", "headers", "continuation", "other",
                  "bad"},
          fields : Seq(Field), end : BOOLEAN]

\* A polite client sends no HEADERS before it has seen the server's SETTINGS.
Script == [chunks : Seq(Chunk), polite : BOOLEAN]

ASSUME ScriptAssumption == Scripts \subseteq Script /\ Scripts # {}

ASSUME LimitAssumption == /\ IsFiniteSet(Conn)
                          /\ maxConnections \in Nat \ {0}
                          /\ connBuffer \in Nat \ {0}

VARIABLES
    main,       \* where Run is
    synced,     \* the informer caches have their first list
    server,     \* the goroutine of each server
    local,      \* m.sls as Match has read it, before it writes it back
    sls,        \* the listeners registered in the multiplexer, in order
    loop,       \* where cMux.Serve is
    drain,      \* the listeners whose channels Serve has yet to drain
    closed,     \* the listeners whose channels are closed
    queue,      \* the channel of each mux listener
    sem,        \* slots of the LimitListener in use
    script,     \* of each connection: what its client will send
    bytes,      \* how many chunks of it have arrived
    eof,        \* whether the client has hung up
    phase,      \* where the connection is
    seen, at,   \* the listeners its sniffer goes through, and which is next
    outcome,    \* how it ended
    reply       \* who answered its call

conns == <<script, bytes, eof, phase, seen, at, outcome, reply>>
mux == <<local, sls, loop, drain, closed, queue, sem>>
vars == <<main, synced, server, local, sls, loop, drain, closed, queue, sem,
          script, bytes, eof, phase, seen, at, outcome, reply>>

Received(c) == SubSeq(script[c].chunks, 1, bytes[c])

\* The connections that hold a slot of the LimitListener.
Phase == {"none", "backlog", "accepted", "sniffing", "handover", "queued", "serving", "closed"}
Holding == {"accepted", "sniffing", "handover", "queued", "serving"}
Sniffing == {"accepted", "sniffing", "handover"}

\* The listener that took the connection, once a matcher has said so.
Via(c) == seen[c][at[c]]

\* The goroutines of serve run until the process is gone.
Running == main \in {"select", "fatal"}

TypeOK ==
    /\ main \in {"create", "configure", "start", "select", "fatal", "exited"}
    /\ synced \in BOOLEAN
    /\ server \in [Listener -> {"off", "match", "publish", "accept", "send"}]
    /\ local \in [Listener -> Seq(Listener)]
    /\ sls \in Seq(Listener) /\ drain \in Seq(Listener)
    /\ loop \in {"off", "acquire", "accept", "wait", "drain", "send"}
    /\ closed \in SUBSET Listener
    /\ queue \in [Listener -> Seq(Conn)]
    /\ sem \in Nat
    /\ script \in [Conn -> Scripts]
    /\ bytes \in [Conn -> Nat]
    /\ eof \in [Conn -> BOOLEAN]
    /\ phase \in [Conn -> Phase]
    /\ seen \in [Conn -> Seq(Listener)]
    /\ at \in [Conn -> Nat \ {0}]
    /\ outcome \in [Conn -> {"none", "unmatched", "dropped", "finished"}]
    /\ reply \in [Conn -> {"none", "backend", "unavailable", "forwarded"}]

Init ==
    /\ main = "create" /\ synced = FALSE
    /\ server = [l \in Listener |-> "off"]
    /\ local = [l \in Listener |-> <<>>]
    /\ sls = <<>> /\ drain = <<>>
    /\ loop = "off"
    /\ closed = {}
    /\ queue = [l \in Listener |-> <<>>]
    /\ sem = 0
    /\ script = [c \in Conn |-> CHOOSE s \in Scripts : TRUE]
    /\ bytes = [c \in Conn |-> 0]
    /\ eof = [c \in Conn |-> FALSE]
    /\ phase = [c \in Conn |-> "none"]
    /\ seen = [c \in Conn |-> <<>>]
    /\ at = [c \in Conn |-> 1]
    /\ outcome = [c \in Conn |-> "none"]
    /\ reply = [c \in Conn |-> "none"]

-----------------------------------------------------------------------------
(* Run, createAgent and serve *)

\* log.Fatal in Run: an error of createAgent or of serve ends the process.
Exit == main' = "exited"

Listen ==
    /\ main = "create"
    /\ main' = "configure" \/ Exit
    /\ UNCHANGED <<synced, server, mux, conns>>

\* The clients, the access store and the indexers; the socket is listening.
createAgent ==
    /\ main = "configure"
    /\ main' = "start" \/ Exit
    /\ UNCHANGED <<synced, server, mux, conns>>

InformersSync ==
    /\ main = "start" /\ ~synced
    /\ synced' = TRUE
    /\ UNCHANGED <<main, server, mux, conns>>

\* Mutant: the controllers are started without waiting for their caches.
serveUnsynced ==
    /\ main = "start"
    /\ main' = "select"
    /\ server' = [l \in Listener |-> "match"]
    /\ loop' = "acquire"
    /\ UNCHANGED <<synced, local, sls, drain, closed, queue, sem, conns>>

\* controllerFactory.Start returns once every informer has synced; then the
\* three goroutines are started, and serve waits for the first error.
serve ==
    /\ main = "start"
    /\ \/ /\ synced
          /\ main' = "select"
          /\ server' = [l \in Listener |-> "match"]
          /\ loop' = "acquire"
       \/ Exit /\ UNCHANGED <<server, loop>>
    /\ UNCHANGED <<synced, local, sls, drain, closed, queue, sem, conns>>

\* Mutant: the error of the multiplexer itself is only logged.
SendingServers == \E l \in Listener : server[l] = "send"

\* The three goroutines that may be blocked on the unbuffered errCh.
Sending == (\E l \in Listener : server[l] = "send") \/ loop = "send"

\* The one receive of serve; whoever else is sending stays blocked.
serveReturns ==
    /\ main = "select" /\ Sending
    /\ main' = "fatal"
    /\ UNCHANGED <<synced, server, mux, conns>>

Fatal ==
    /\ main = "fatal"
    /\ Exit
    /\ UNCHANGED <<synced, server, mux, conns>>

Exited == main = "exited" /\ UNCHANGED vars

-----------------------------------------------------------------------------
(* Match: m.sls = append(m.sls, ...), in two goroutines, without a lock *)

MatchRead(l) ==
    /\ Running /\ server[l] = "match"
    /\ local' = [local EXCEPT ![l] = sls]
    /\ server' = [server EXCEPT ![l] = "publish"]
    /\ UNCHANGED <<main, synced, sls, loop, drain, closed, queue, sem, conns>>

MatchWrite(l) ==
    /\ Running /\ server[l] = "publish"
    /\ sls' = Append(local[l], l)
    /\ local' = [local EXCEPT ![l] = <<>>]
    /\ server' = [server EXCEPT ![l] = "accept"]
    /\ UNCHANGED <<main, synced, loop, drain, closed, queue, sem, conns>>

\* A slice header has three words: whoever reads it while it is written may
\* see the new length with the old, nil array, and the process dies of it.
TornRead ==
    /\ Running
    /\ \E l \in Listener :
          /\ server[l] = "publish"
          /\ \/ \E k \in Listener \ {l} : server[k] = "match"
             \/ \E c \in Conn : phase[c] = "accepted"
             \/ loop = "wait"
    /\ Exit
    /\ UNCHANGED <<synced, server, mux, conns>>

-----------------------------------------------------------------------------
(* The clients *)

Connect(c) ==
    /\ main \in {"configure", "start", "select", "fatal"}
    /\ phase[c] = "none"
    /\ \E s \in Scripts : script' = [script EXCEPT ![c] = s]
    /\ phase' = [phase EXCEPT ![c] = "backlog"]
    /\ UNCHANGED <<main, synced, server, mux, bytes, eof, seen, at, outcome, reply>>

Send(c) ==
    /\ main # "exited" /\ phase[c] \notin {"none", "closed"}
    /\ ~eof[c] /\ bytes[c] < Len(script[c].chunks)
    /\ script[c].polite /\ script[c].chunks[bytes[c] + 1].kind = "headers" =>
          phase[c] = "serving"
    /\ bytes' = [bytes EXCEPT ![c] = @ + 1]
    /\ UNCHANGED <<main, synced, server, mux, script, eof, phase, seen, at, outcome, reply>>

HangUp(c) ==
    /\ main # "exited" /\ phase[c] \notin {"none", "closed"} /\ ~eof[c]
    /\ eof' = [eof EXCEPT ![c] = TRUE]
    /\ UNCHANGED <<main, synced, server, mux, script, bytes, phase, seen, at, outcome, reply>>

-----------------------------------------------------------------------------
(* cMux.Serve over the LimitListener *)

loopUnchanged == UNCHANGED <<main, synced, server, local, sls>>

\* limitListener.Accept first takes a slot.
Acquire ==
    /\ Running /\ loop = "acquire" /\ sem < maxConnections
    /\ sem' = sem + 1
    /\ loop' = "accept"
    /\ loopUnchanged /\ UNCHANGED <<drain, closed, queue, conns>>

Accept(c) ==
    /\ Running /\ loop = "accept" /\ phase[c] = "backlog"
    /\ phase' = [phase EXCEPT ![c] = "accepted"]
    /\ loop' = "acquire"
    /\ loopUnchanged
    /\ UNCHANGED <<drain, closed, queue, sem, script, bytes, eof, seen, at, outcome, reply>>

\* Mutant: a failed accept keeps its slot.
AcceptFailsKeepsSlot ==
    /\ Running /\ loop = "accept"
    /\ loop' \in {"acquire", "wait"}
    /\ loopUnchanged /\ UNCHANGED <<drain, closed, queue, sem, conns>>

\* A failed accept gives its slot back.  After a temporary error the loop goes
\* on; after another one it closes donec and waits for the sniffers.
AcceptFails ==
    /\ Running /\ loop = "accept"
    /\ sem' = sem - 1
    /\ loop' \in {"acquire", "wait"}
    /\ loopUnchanged /\ UNCHANGED <<drain, closed, queue, conns>>

donec == loop \in {"wait", "drain", "send"}

\* wg.Wait: every sniffer has handed its connection over or closed it.
SniffersDone ==
    /\ Running /\ loop = "wait"
    /\ \A c \in Conn : phase[c] \notin Sniffing
    /\ loop' = "drain" /\ drain' = sls
    /\ loopUnchanged /\ UNCHANGED <<closed, queue, sem, conns>>

\* Mutant: a connection that is closed twice gives two slots back.
CloseTwice(c, how) ==
    /\ phase' = [phase EXCEPT ![c] = "closed"]
    /\ outcome' = [outcome EXCEPT ![c] = how]
    /\ sem' = sem - 2

\* limitListenerConn.Close gives the slot back, once.
Close(c, how) ==
    /\ phase' = [phase EXCEPT ![c] = "closed"]
    /\ outcome' = [outcome EXCEPT ![c] = how]
    /\ sem' = sem - 1

\* Serve closes the channel of every registered listener in turn and closes
\* what is left in it; the server of that listener may still take it first.
Drain ==
    /\ Running /\ loop = "drain"
    /\ \/ /\ drain = <<>>
          /\ loop' = "send"
          /\ UNCHANGED <<drain, closed, queue, sem, conns>>
       \/ /\ drain # <<>> /\ Head(drain) \notin closed
          /\ closed' = closed \cup {Head(drain)}
          /\ UNCHANGED <<loop, drain, queue, sem, conns>>
       \/ /\ drain # <<>> /\ Head(drain) \in closed /\ queue[Head(drain)] # <<>>
          /\ Close(Head(queue[Head(drain)]), "dropped")
          /\ queue' = [queue EXCEPT ![Head(drain)] = Tail(@)]
          /\ UNCHANGED <<loop, drain, closed, script, bytes, eof, seen, at, reply>>
       \/ /\ drain # <<>> /\ Head(drain) \in closed /\ queue[Head(drain)] = <<>>
          /\ drain' = Tail(drain)
          /\ UNCHANGED <<loop, closed, queue, sem, conns>>
    /\ loopUnchanged

-----------------------------------------------------------------------------
(* The sniffer of a connection: cMux.serve with the matchers of listener.go *)

\* A matcher blocks until it can tell: it returns TRUE, FALSE or not yet.
Verdict == {"match", "nomatch", "wait"}

AtEnd(gone) == IF gone THEN "nomatch" ELSE "wait"

\* Mutant: a request shorter than a preface is not recognised.
createHTTPListenerLong(s, gone) ==
    IF s = <<>> THEN AtEnd(gone)
    ELSE IF Head(s).kind = "request" THEN "match" ELSE "nomatch"

createHTTPListener(s, gone) ==
    IF s = <<>> THEN AtEnd(gone)
    ELSE IF Head(s).kind \in {"request", "short"} THEN "match" ELSE "nomatch"

\* Twenty-four bytes, or the end of the stream before that.
hasHTTP2Preface(s, gone) ==
    IF s = <<>> \/ (Len(s) = 1 /\ Head(s).kind = "short") THEN AtEnd(gone)
    ELSE IF Head(s).kind = "preface" THEN "match" ELSE "nomatch"

\* Mutant: the value of the field is not compared.
MatchedByName(f) == f \in {"grpc", "othertype"}

\* The callback of the decoder on one field.
Matched(f) == f = "grpc"

\* The callback overwrites matched on every field: the last one decides.
matchedAfter(frame) == frame.fields # <<>> /\ Matched(Last(frame.fields))

\* The headers that the frame before i has begun or continued are unfinished.
Unfinished(s, i) ==
    i > 2 /\ s[i - 1].kind \in {"headers", "continuation"} /\ ~s[i - 1].end

\* ReadFrame wants CONTINUATION after unfinished headers, and nowhere else.
checkFrameOrder(s, i) == s[i].kind = "continuation" <=> Unfinished(s, i)

\* Mutant: every HEADERS frame decides, also without END_HEADERS.
DecidingEveryHeaders(s) ==
    {i \in 2 .. Len(s) : s[i].kind \in {"bad", "headers"} \/ ~checkFrameOrder(s, i)}

\* The frames at which the loop over ReadFrame returns.  Every other frame is
\* skipped, CONTINUATION and the fields in it included, and the framer writes to
\* ioutil.Discard: the client sees no SETTINGS.
Deciding(s) ==
    {i \in 2 .. Len(s) :
        \/ s[i].kind = "bad" \/ ~checkFrameOrder(s, i)
        \/ s[i].kind = "headers" /\ (matchedAfter(s[i]) \/ s[i].end)}

http2HeaderFieldEqual(s, gone) ==
    IF hasHTTP2Preface(s, gone) # "match" THEN hasHTTP2Preface(s, gone)
    ELSE IF Deciding(s) = {} THEN AtEnd(gone)
    ELSE IF \E i \in Deciding(s) : /\ \A j \in Deciding(s) : i <= j
                                   /\ checkFrameOrder(s, i)
                                   /\ s[i].kind = "headers" /\ matchedAfter(s[i])
         THEN "match" ELSE "nomatch"

Matcher(l, s, gone) ==
    IF l = "http" THEN createHTTPListener(s, gone) ELSE http2HeaderFieldEqual(s, gone)

sniffUnchanged == UNCHANGED <<main, synced, server, local, sls, loop, drain, closed>>

\* for _, sl := range m.sls: the slice is read once, here.
StartSniffing(c) ==
    /\ Running /\ phase[c] = "accepted"
    /\ seen' = [seen EXCEPT ![c] = sls]
    /\ phase' = [phase EXCEPT ![c] = "sniffing"]
    /\ sniffUnchanged /\ UNCHANGED <<queue, sem, script, bytes, eof, at, outcome, reply>>

Sniff(c) ==
    /\ Running /\ phase[c] = "sniffing"
    /\ \/ /\ at[c] > Len(seen[c])
          /\ Close(c, "unmatched")
          /\ UNCHANGED at
       \/ /\ at[c] <= Len(seen[c])
          /\ Matcher(Via(c), Received(c), eof[c]) = "nomatch"
          /\ at' = [at EXCEPT ![c] = @ + 1]
          /\ UNCHANGED <<phase, outcome, sem>>
       \/ /\ at[c] <= Len(seen[c])
          /\ Matcher(Via(c), Received(c), eof[c]) = "match"
          /\ phase' = [phase EXCEPT ![c] = "handover"]
          /\ UNCHANGED <<at, outcome, sem>>
    /\ sniffUnchanged /\ UNCHANGED <<queue, script, bytes, eof, seen, reply>>

\* select: into the channel when there is room, or closed once donec is.
HandOver(c) ==
    /\ Running /\ phase[c] = "handover"
    /\ \/ /\ Len(queue[Via(c)]) < connBuffer
          /\ queue' = [queue EXCEPT ![Via(c)] = Append(@, c)]
          /\ phase' = [phase EXCEPT ![c] = "queued"]
          /\ UNCHANGED <<outcome, sem>>
       \/ donec /\ Close(c, "dropped") /\ UNCHANGED queue
    /\ sniffUnchanged /\ UNCHANGED <<script, bytes, eof, seen, at, reply>>

-----------------------------------------------------------------------------
(* The servers of createHTTPProxy and createGRPCProxy *)

serverUnchanged == UNCHANGED <<main, synced, local, sls, loop, drain, closed>>

ServerAccepts(l) ==
    /\ Running /\ server[l] = "accept" /\ queue[l] # <<>>
    /\ phase' = [phase EXCEPT ![Head(queue[l])] = "serving"]
    /\ queue' = [queue EXCEPT ![l] = Tail(@)]
    /\ serverUnchanged
    /\ UNCHANGED <<server, sem, script, bytes, eof, seen, at, outcome, reply>>

\* Accept on a closed and empty channel: ErrListenerClosed, and Serve returns.
ServerReturns(l) ==
    /\ Running /\ server[l] = "accept" /\ queue[l] = <<>> /\ l \in closed
    /\ server' = [server EXCEPT ![l] = "send"]
    /\ serverUnchanged /\ UNCHANGED <<queue, sem, conns>>

\* Mutant: the connection to Prometheus is dialled with grpc.WithInsecure().
DialOptionsInsecure == {"default_call_options", "insecure"}

\* The options grpcBackend dials Prometheus with.
DialOptions == {"default_call_options"}

\* grpc.DialContext refuses to dial without transport security.
DialContext(opts) == IF opts \cap {"insecure", "credentials"} = {} THEN "error" ELSE "conn"

\* Mutant: a call is answered although its connection was closed meanwhile.
HandleAfterClose(c) ==
    /\ Running /\ (phase[c] = "serving" \/ outcome[c] = "finished") /\ reply[c] = "none"
    /\ reply' = [reply EXCEPT ![c] = IF Via(c) = "http" THEN "backend" ELSE "unavailable"]
    /\ serverUnchanged
    /\ UNCHANGED <<server, queue, sem, script, bytes, eof, phase, seen, at, outcome>>

\* An HTTP request goes to the backend of pkg/agent/http.go, a gRPC call to the
\* director of grpcBackend, which no access control precedes.
Handle(c) ==
    /\ Running /\ phase[c] = "serving" /\ reply[c] = "none"
    /\ reply' = [reply EXCEPT ![c] =
          IF Via(c) = "http" THEN "backend"
          ELSE IF DialContext(DialOptions) = "error" THEN "unavailable" ELSE "forwarded"]
    /\ serverUnchanged
    /\ UNCHANGED <<server, queue, sem, script, bytes, eof, phase, seen, at, outcome>>

\* The HTTP server closes a connection that is done, or idle or slow for
\* longer than ReadTimeout; the gRPC server has no such limit.
CloseServed(c) ==
    /\ Running /\ phase[c] = "serving" /\ (Via(c) = "http" \/ eof[c])
    /\ Close(c, "finished")
    /\ serverUnchanged /\ UNCHANGED <<server, queue, script, bytes, eof, seen, at, reply>>

-----------------------------------------------------------------------------

Agent == \/ Listen \/ createAgent \/ InformersSync \/ serve \/ serveReturns \/ Fatal
Mux == Acquire \/ AcceptFails \/ SniffersDone \/ Drain
Register(l) == MatchRead(l) \/ MatchWrite(l)
SniffConn(c) == StartSniffing(c) \/ Sniff(c) \/ HandOver(c)
ServeConn(c) == Handle(c) \/ CloseServed(c)
Client(c) == Connect(c) \/ Send(c) \/ HangUp(c)

Next == \/ Agent \/ Mux \/ TornRead \/ Exited
        \/ \E l \in Listener : Register(l) \/ ServerAccepts(l) \/ ServerReturns(l)
        \/ \E c \in Conn : Client(c) \/ Accept(c) \/ SniffConn(c) \/ ServeConn(c)

Spec == Init /\ [][Next]_vars

\* The Go scheduler runs every goroutine that can run.  A connection that waits
\* in the kernel's queue is accepted if accepts keep being tried; CloseServed is
\* the read timeout, or for gRPC the reaction to the client's hanging up.
FairSpec ==
    /\ Spec
    /\ WF_vars(Listen) /\ WF_vars(createAgent) /\ WF_vars(serve) /\ WF_vars(serveReturns)
    /\ WF_vars(Fatal) /\ WF_vars(Acquire) /\ WF_vars(SniffersDone) /\ WF_vars(Drain)
    /\ \A l \in Listener : /\ WF_vars(Register(l))
                           /\ WF_vars(ServerAccepts(l)) /\ WF_vars(ServerReturns(l))
    /\ \A c \in Conn : /\ SF_vars(Accept(c)) /\ WF_vars(SniffConn(c))
                       /\ WF_vars(Handle(c)) /\ WF_vars(CloseServed(c))

\* In addition, the Kubernetes API answers the informers' first lists, and every
\* client hangs up in the end, as one that times out does.
EnvironmentMoves == WF_vars(InformersSync) /\ \A c \in Conn : WF_vars(HangUp(c))

LiveSpec == FairSpec /\ EnvironmentMoves

-----------------------------------------------------------------------------
(* What the listeners promise *)

\* A client speaks HTTP/1, or HTTP/2 with a header that announces gRPC.
SpeaksHTTP(c) == bytes[c] > 0 /\ script[c].chunks[1].kind \in {"request", "short"}
HeaderFrames(c) == {i \in 2 .. bytes[c] : script[c].chunks[i].kind = "headers"}
Announces(c, i) == "grpc" \in ToSet(script[c].chunks[i].fields)
SpeaksGRPC(c) == /\ bytes[c] > 0 /\ script[c].chunks[1].kind = "preface"
                 /\ \E i \in HeaderFrames(c) : Announces(c, i)

\* A call that can be recognised: its content-type is the last field of a
\* HEADERS frame in its place, and no frame before that is a HEADERS frame which
\* ends the headers, is broken or is out of place.
InPlace(c, i) == checkFrameOrder(script[c].chunks, i)
AnnouncesLast(c, i) == LET fields == script[c].chunks[i].fields
                       IN  fields # <<>> /\ Last(fields) = "grpc"
Calls(c, i) == script[c].chunks[i].kind = "headers" /\ AnnouncesLast(c, i) /\ InPlace(c, i)
Ends(c, i) == LET frame == script[c].chunks[i]
              IN  \/ frame.kind = "bad" \/ ~InPlace(c, i)
                  \/ frame.kind = "headers" /\ frame.end
CallsLast(c) == /\ bytes[c] > 0 /\ script[c].chunks[1].kind = "preface"
                /\ \E i \in 2 .. bytes[c] : Calls(c, i) /\ \A j \in 2 .. i - 1 : ~Ends(c, j)

\* The slots in use are those of the connections that are accepted and not yet
\* closed, and the one the accept loop holds: no path through the multiplexer,
\* the servers or a failed accept leaks a slot or gives one back twice.
SlotsExact ==
    /\ sem = Cardinality({c \in Conn : phase[c] \in Holding})
             + (IF loop = "accept" THEN 1 ELSE 0)
    /\ sem <= maxConnections

\* The HTTP server sees only HTTP/1 and the gRPC server only connections that
\* carry application/grpc, in whatever order the two have registered.
RightServer ==
    \A c \in Conn : phase[c] \in {"handover", "queued", "serving"} =>
        IF Via(c) = "http" THEN SpeaksHTTP(c) ELSE SpeaksGRPC(c)

\* An HTTP/1 connection is refused only when it was accepted before the HTTP
\* server had registered its matcher, or after that registration was lost; so is
\* a gRPC call, if its content-type ends a HEADERS frame: however the bytes before
\* it are cut into frames that HTTP/2 allows, headers continued in other frames
\* included, and whenever they arrive, none of them makes the matcher give up.
RefusedOnlyUnregistered ==
    \A c \in Conn : outcome[c] = "unmatched" =>
        /\ SpeaksHTTP(c) => "http" \notin ToSet(seen[c])
        /\ CallsLast(c) => "grpc" \notin ToSet(seen[c])

\* Nothing reaches Prometheus but through the HTTP backend and its access
\* control: the gRPC proxy, which has none, answers every call Unavailable.
OnlyThroughBackend == \A c \in Conn : reply[c] # "forwarded"

\* No connection is accepted before the informer caches have synced, although
\* the socket listens much earlier: the backend never decides from an empty cache.
CachesFirst == \A c \in Conn : phase[c] \in Holding => synced

\* A connection that waits to be accepted is served or closed, also while all
\* slots are taken, if clients hang up in the end.
EveryConnectionSettled ==
    \A c \in Conn : phase[c] = "backlog" ~>
        phase[c] \in {"serving", "closed"} \/ main = "exited" \/ donec

\* When the listener fails, the process ends, and with it the connections that
\* are still open: no goroutine waits for another for ever, if clients hang up in
\* the end.  (One that stays silent and connected keeps its sniffer, and Serve
\* waits for that before it reports: see ReadTimeoutClosesIdle.)
FailureEndsProcess == donec ~> main = "exited"

\* The read timeout closes every connection on which nothing is read.
ReadTimeoutClosesIdle ==
    \A c \in Conn : phase[c] = "sniffing" ~> phase[c] # "sniffing" \/ main = "exited"

=============================================================================
