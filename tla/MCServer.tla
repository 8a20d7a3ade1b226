------------------------------ MODULE MCServer ------------------------------
(***************************************************************************)
(* Instances of Server for TLC.  The clients: HTTP/1 with a long and with  *)
(* a very short request, gRPC whose content-type is the last header field  *)
(* and gRPC that sends it earlier, HTTP/2 that is not gRPC, headers that   *)
(* are continued in a second frame before the call, headers that are left  *)
(* unfinished, a client that waits for the server's SETTINGS, one that     *)
(* breaks the protocol, and one that never says a word.                    *)
(***************************************************************************)
EXTENDS ServerDispatch, TLC

Symmetric == Permutations(Conn)

Plain(kind) == [kind |-> kind, fields |-> <<>>, end |-> FALSE]
Headers(fields, end) == [kind |-> "headers", fields |-> fields, end |-> end]

Continuation(end) == [kind |-> "continuation", fields |-> <<>>, end |-> end]

Talk(chunks) == [chunks |-> chunks, polite |-> FALSE]
Silent == Talk(<<>>)
LongRequest == Talk(<<Plain("request")>>)
ShortRequest == Talk(<<Plain("short")>>)
Noise == Talk(<<Plain("noise")>>)
Call == Talk(<<Plain("preface"), Headers(<<"other", "grpc">>, TRUE)>>)
EarlyType == Talk(<<Plain("preface"), Plain("other"), Headers(<<"grpc", "other">>, TRUE)>>)
Continued == Talk(<<Plain("preface"), Headers(<<"other">>, FALSE), Continuation(TRUE),
                    Headers(<<"grpc">>, TRUE)>>)
Misplaced == Talk(<<Plain("preface"), Headers(<<"other">>, FALSE), Headers(<<"grpc">>, TRUE)>>)
Browser == Talk(<<Plain("preface"), Headers(<<"other", "othertype">>, TRUE)>>)
Broken == Talk(<<Plain("preface"), Plain("bad")>>)
Polite == [Call EXCEPT !.polite = TRUE]

\* For each server clients that it can tell at once, and that it has to wait for,
\* and one that neither server wants.
TalkingScripts == {LongRequest, ShortRequest, Call, Continued, Browser}
AllScripts == TalkingScripts \cup {Silent, Noise, EarlyType, Misplaced, Broken, Polite}
LiveScripts == {Silent, Call}

=============================================================================
