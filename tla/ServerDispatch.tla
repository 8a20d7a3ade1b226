--------------------------- MODULE ServerDispatch ---------------------------
(***************************************************************************)
(* The listeners and servers as an implementation of Dispatch.             *)
(*                                                                         *)
(* All of a connection's way through the multiplexer, from the accept to   *)
(* the channel of a listener, is one abstract state, "admitted"; it is     *)
(* given to a server in the step in which the server takes it out of the   *)
(* channel.                                                                *)
(***************************************************************************)
EXTENDS Server

\* The protocols of the two servers: HTTP/1, and HTTP/2 with a header that
\* announces gRPC.
Speaks(l, s) ==
    /\ s # <<>>
    /\ IF l = "http" THEN s[1].kind \in {"request", "short"}
       ELSE /\ s[1].kind = "preface"
            /\ \E i \in 2 .. Len(s) : s[i].kind = "headers" /\ "grpc" \in ToSet(s[i].fields)

\* The HTTP server hands a request to the access control, the gRPC server
\* refuses every call.
ReplyOf(l) == IF l = "http" THEN "backend" ELSE "unavailable"

\* What some client may send.
Said == UNION {ToSet(s.chunks) : s \in Scripts}

\* Where a connection in phase x is, for its client.
Place(x) ==
    IF x = "backlog" THEN "waiting"
    ELSE IF x \in {"accepted", "sniffing", "handover", "queued"} THEN "admitted"
    ELSE IF x = "serving" THEN "served" ELSE x

stateBar == [c \in Conn |-> Place(phase[c])]
wireBar == [c \in Conn |-> Received(c)]
ownerBar == [c \in Conn |-> IF phase[c] = "serving" THEN Via(c) ELSE "none"]

D == INSTANCE Dispatch WITH Limit <- maxConnections, NoListener <- "none", NoReply <- "none",
                            Chunk <- Said, ready <- synced, state <- stateBar,
                            wire <- wireBar, owner <- ownerBar

\* However the accept loop, the sniffers, the two servers and the drain of the
\* channels interleave, every connection is treated as if there were one counter
\* and one clerk: let in below the limit, given to one server, once, to the one
\* whose protocol its client speaks, and never touched again after it was closed.
Dispatches == D!Spec

=============================================================================
