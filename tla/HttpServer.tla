----------------------------- MODULE HttpServer -----------------------------
(***************************************************************************)
(* One connection of an HttpServer, whose loop reads whatever has arrived, *)
(* takes it for one request, calls a handler and sends its answer.  What   *)
(* the handlers do is up to the module that extends this one.              *)
(*                                                                         *)
(* The client asks without waiting, if it likes, and takes the answers for *)
(* those to its requests, in their order.  A request is two pieces on the  *)
(* wire: the stream may be cut between any of them.                        *)
(***************************************************************************)
EXTENDS Integers, Sequences

CONSTANTS Requests,    \* records with the fields method, path and parameters
          Defaults,    \* what getParam returns for a parameter that is not there
          GetPaths,    \* the paths given to HttpServer::Get,
          PostPaths,   \* and to HttpServer::Post
          MaxWaiting   \* bound: requests without an answer

ASSUME HttpAssumption ==
    /\ \A r \in Requests : {"method", "path"} \subseteq DOMAIN r
    /\ MaxWaiting \in Nat

VARIABLES wire,        \* pieces of requests on their way to the loop
          inputBuffer, \* pieces the loop has read and not retrieved
          len,         \* of them, how many readCallBack was called with
          request,     \* RequestHeader: what readCallBack took them for
          response,    \* ResponseHeader: its data
          waiting,     \* the requests the client waits for an answer to
          paced        \* history: every read so far was one whole request

httpVars == <<wire, inputBuffer, len, request, response, waiting, paced>>

Garbage == [method |-> "none", path |-> "none"]  \* the header of no request
Absent  == -1                                     \* no number was given, or set

HttpInit == /\ wire = <<>> /\ inputBuffer = <<>> /\ len = 0
            /\ request = Garbage /\ response = Absent
            /\ waiting = <<>> /\ paced = TRUE

Pieces(r) == <<[of |-> r, part |-> 1], [of |-> r, part |-> 2]>>

----------------------------------------------------------------------------
\* getParam: for a parameter that is not there, or empty, the default.
Lacking(r, P) == [f \in DOMAIN r |-> IF f \in P THEN Defaults[f] ELSE r[f]]

\* RequestHeader::parse, of text that begins with these pieces.  A request that is
\* cut lacks parameters, or the end of its path; what does not begin with a request
\* is none.
Parsed(text) ==
    LET r == text[1].of
    IN CASE text[1].part = 2 -> {Garbage}
         [] Len(text) > 1    -> {r}
         [] OTHER            -> {Garbage} \union
                                {Lacking(r, P) : P \in SUBSET (DOMAIN r \ {"method", "path"})}

\* There is a handler for the path.
Handled(r) == \/ r.method = "GET" /\ r.path \in GetPaths
              \/ r.method = "POST" /\ r.path \in PostPaths

\* The client asks.
Ask(r) ==
    /\ Len(waiting) < MaxWaiting /\ paced
    /\ wire' = wire \o Pieces(r)
    /\ waiting' = Append(waiting, r)
    /\ UNCHANGED <<inputBuffer, len, request, response, paced>>

\* TcpConnection::ReadHandel reads n pieces, and HttpServer::readCallBack parses
\* as many, from readIndex on.
Read(n) ==
    LET text == inputBuffer \o SubSeq(wire, 1, n)
    IN /\ inputBuffer' = text
       /\ wire' = SubSeq(wire, n + 1, Len(wire))
       /\ len' = n
       /\ request' \in Parsed(SubSeq(text, 1, n))
       /\ response' = Absent
       /\ paced' = (paced /\ SubSeq(wire, 1, n) = Pieces(wire[1].of))
       /\ UNCHANGED waiting

\* The end of readCallBack: Send, and retrieve(len).
SendAndLeave ==                        \* without retrieve
    /\ len' = 0 /\ request' = Garbage /\ response' = Absent
    /\ waiting' = IF waiting = <<>> THEN <<>> ELSE Tail(waiting)
    /\ UNCHANGED <<inputBuffer, wire, paced>>

Send ==
    /\ inputBuffer' = SubSeq(inputBuffer, len + 1, Len(inputBuffer))
    /\ len' = 0 /\ request' = Garbage /\ response' = Absent
    /\ waiting' = IF waiting = <<>> THEN <<>> ELSE Tail(waiting)
    /\ UNCHANGED <<wire, paced>>
=============================================================================
