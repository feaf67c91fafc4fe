----------------------------- MODULE Http1Client -----------------------------
(***************************************************************************)
(* The HTTP/1.1 client of crates/foxreq-core/src/http1/client.rs: a pool   *)
(* with one idle stream per origin, and the exchange that writes a request *)
(* to a stream and reads one response from it under a deadline.            *)
(*                                                                         *)
(* The client is used by one thread.  What interleaves with it is the      *)
(* other side of every stream, which may answer at once or in pieces,      *)
(* close when it likes, also while the stream is idle, or send bytes       *)
(* nobody asked for, and the clock.  A response is a head token and, when  *)
(* its length is known, an end token.  No operation begins on a stream      *)
(* after the deadline, but connecting may outlast it.                      *)
(***************************************************************************)
EXTENDS Naturals, Sequences, FiniteSets

CONSTANTS
  Origins,     \* (scheme, host, port, profile, verification) tuples
  Streams,     \* identities of the streams the connector may open
  NoStream,    \* the empty pool slot
  MaxRequests, \* bound on the number of execute() calls,
  SurplusRequests, \* also where servers send bytes nobody asked for
  MaxWire      \* bound on the tokens in flight to the client on a stream

ASSUME ClientAssumption ==
  /\ NoStream \notin Streams
  /\ MaxRequests \in Nat /\ SurplusRequests \in 0 .. MaxRequests
  /\ MaxWire \in Nat

VARIABLES
  closed,    \* Http1Client.closed
  idle,      \* Http1Client.idle: at most one stream per origin
  pc,        \* where execute() is
  stream,    \* the stream execute() owns
  origin,    \* the origin of the request in hand
  request,   \* the number of the request in hand, 0 before the first
  unwritten, \* writes the serialized request still takes
  parser,    \* what the response parser is in the middle of
  expired,   \* the deadline of the request has passed
  outcome,   \* what the last execute() returned
  opened,    \* the streams connected so far, with their origins
  closes,    \* how often each stream has been closed
  lost,      \* the streams of which received bytes were thrown away
  stale,     \* the idle stream taken had been closed by its server
  carried,   \* the requests whose bytes were written to each stream
  pending,   \* the requests each server has received and not answered
  answering, \* the request each server has begun to answer
  answered,  \* the requests whose counted answer was sent to its end
  wire,      \* tokens on their way to the client
  eof,       \* the server has closed its side
  surplus    \* the servers may send bytes nobody asked for

clientVars == << closed, idle, pc, stream, origin, request, unwritten,
                 parser, expired, outcome, opened, closes, lost, stale >>
serverVars == << carried, pending, answering, answered, wire, eof,
                 surplus >>
vars == << clientVars, serverVars >>

Requests == 1 .. MaxRequests
Nobody == 0

\* A response whose length is known, one that ends with the connection, and
\* one that the parser refuses.
Framings == {"counted", "untilClose", "malformed"}
Token == [request : Requests \cup {Nobody}, part : {"head", "end"},
          framing : Framings, close : BOOLEAN]
Part(r, part, framing, close) ==
  [request |-> r, part |-> part, framing |-> framing, close |-> close]

NoResponse == [state |-> "start", request |-> Nobody, close |-> FALSE]
ConnectErrors == {"connection", "timeout", "tls", "certificate", "transport"}
Errors == ConnectErrors \cup {"closed", "invalid", "request", "response"}
\* answer is the request the returned response was sent for.
Failure(kind) == [kind |-> kind, answer |-> Nobody, framing |-> "none"]
Success(p) == [kind |-> "ok", answer |-> p.request, framing |-> p.state]

Open == {s \in DOMAIN opened : closes[s] = 0}

-----------------------------------------------------------------------------
Init ==
  /\ closed = FALSE
  /\ idle = [o \in Origins |-> NoStream]
  /\ pc = "ready" /\ stream = NoStream
  /\ origin \in Origins /\ request = 0 /\ unwritten = 0
  /\ parser = NoResponse /\ expired = FALSE
  /\ outcome = Failure("none")
  /\ opened = << >>
  /\ closes = [s \in Streams |-> 0]
  /\ lost = {} /\ stale = FALSE
  /\ carried = [s \in Streams |-> {}]
  /\ pending = [s \in Streams |-> << >>]
  /\ answering = [s \in Streams |-> Nobody] /\ answered = {}
  /\ wire = [s \in Streams |-> << >>]
  /\ eof = [s \in Streams |-> FALSE]
  /\ surplus \in BOOLEAN

CloseStreams(S) ==
  closes' = [s \in Streams |-> IF s \in S THEN closes[s] + 1 ELSE closes[s]]

\* The end of execute(): a reusable stream goes into the pool, and the stream
\* it replaces there is closed; any other stream is closed.
Finish(result, reusable) ==
  /\ outcome' = result
  /\ pc' = "ready" /\ stream' = NoStream
  /\ IF reusable
       THEN /\ idle' = [idle EXCEPT ![origin] = stream]
            /\ CloseStreams({idle[origin]} \ {NoStream})
       ELSE /\ CloseStreams({stream})
            /\ UNCHANGED idle

-----------------------------------------------------------------------------
(* execute() *)

\* The checks before the pool is touched: a closed client, an unusable
\* timeout, profile or URL.
Executes(o) ==
  /\ pc = "ready"
  /\ request < IF surplus THEN SurplusRequests ELSE MaxRequests
  /\ request' = request + 1
  /\ origin' = o
  /\ parser' = NoResponse
  /\ expired' = FALSE /\ stale' = FALSE
  /\ \/ /\ closed
        /\ outcome' = Failure("closed")
        /\ UNCHANGED << pc, unwritten >>
     \/ /\ ~closed
        /\ outcome' = Failure("invalid")
        /\ UNCHANGED << pc, unwritten >>
     \/ /\ ~closed
        /\ pc' = "acquire"
        /\ unwritten' \in 1 .. 2
        /\ outcome' = Failure("none")
  /\ UNCHANGED << closed, idle, stream, opened, closes, lost, serverVars >>

\* Mutant: the pool lends the stream but keeps its entry.
TakesIdleSharing ==
  /\ pc = "acquire"
  /\ idle[origin] # NoStream
  /\ stream' = idle[origin]
  /\ stale' = eof[stream']
  /\ pc' = "serialize"
  /\ UNCHANGED << closed, idle, origin, request, unwritten, parser, expired,
                  outcome, opened, closes, lost, serverVars >>

\* The idle stream of this origin, whatever has happened to it meanwhile.
TakesIdle ==
  /\ pc = "acquire"
  /\ idle[origin] # NoStream
  /\ stream' = idle[origin]
  /\ idle' = [idle EXCEPT ![origin] = NoStream]
  /\ stale' = eof[stream']
  /\ pc' = "serialize"
  /\ UNCHANGED << closed, origin, request, unwritten, parser, expired,
                  outcome, opened, closes, lost, serverVars >>

Connects(s) ==
  /\ pc = "acquire"
  /\ idle[origin] = NoStream
  /\ s \notin DOMAIN opened
  /\ opened' = [t \in DOMAIN opened \cup {s} |->
                  IF t = s THEN origin ELSE opened[t]]
  /\ stream' = s
  /\ pc' = "serialize"
  /\ UNCHANGED << closed, idle, origin, request, unwritten, parser, expired,
                  outcome, closes, lost, stale, serverVars >>

\* The connector fails, or the deadline has passed before or during it.  A
\* connector may also report a deadline that passed as another error.
ConnectFails(kind) ==
  /\ pc = "acquire"
  /\ idle[origin] = NoStream
  /\ kind = "timeout" => expired
  /\ pc' = "ready"
  /\ outcome' = Failure(kind)
  /\ UNCHANGED << closed, idle, stream, origin, request, unwritten, parser,
                  expired, opened, closes, lost, stale, serverVars >>

\* Request errors are found here, with a stream in hand: it is closed.
Serializes ==
  /\ pc = "serialize"
  /\ \/ /\ pc' = "write"
        /\ UNCHANGED << idle, stream, outcome, closes >>
     \/ Finish(Failure("request"), FALSE)
  /\ UNCHANGED << closed, origin, request, unwritten, parser, expired,
                  opened, lost, stale, serverVars >>

\* Bytes of the request reach the other side of the stream.
Writes ==
  /\ pc = "write"
  /\ ~expired
  /\ unwritten' = unwritten - 1
  /\ pc' = IF unwritten' = 0 THEN "read" ELSE "write"
  /\ carried' = [carried EXCEPT ![stream] = @ \cup {request}]
  /\ pending' = IF request \in carried[stream] \/ eof[stream] THEN pending
                ELSE [pending EXCEPT ![stream] = Append(@, request)]
  /\ UNCHANGED << closed, idle, stream, origin, request, parser, expired,
                  outcome, opened, closes, lost, stale, answering, answered,
                  wire, eof, surplus >>

\* Mutant: a request whose connection broke is sent again on another one.
TransportFailsRetrying(kind) ==
  /\ pc \in {"write", "read"}
  /\ kind = "timeout" => expired
  /\ pc' = "acquire" /\ stream' = NoStream /\ unwritten' = 1
  /\ parser' = NoResponse
  /\ CloseStreams({stream})
  /\ UNCHANGED << closed, idle, origin, request, expired, outcome, opened,
                  lost, stale, serverVars >>

\* A write or a read fails: the deadline has passed, or the connection broke.
TransportFails(kind) ==
  /\ pc \in {"write", "read"}
  /\ kind = "timeout" => expired
  /\ Finish(Failure(kind), FALSE)
  /\ UNCHANGED << closed, origin, request, unwritten, parser, expired,
                  opened, lost, stale, serverVars >>

\* Mutant: bytes after the response do not matter.
ReusableAnyhow(consumed, n, response) == ~response.close

\* client.rs: fed.consumed == amount && !response.connection_close.
Reusable(consumed, n, response) == consumed = n /\ ~response.close

\* One read returns n tokens; the parser consumes them up to the end of the
\* response, and surplus tokens of this read make the stream unusable.
Reads(n) ==
  LET got  == SubSeq(wire[stream], 1, n)
      head == got[1]
      next == IF parser.state = "start"
                THEN [state |-> head.framing, request |-> head.request,
                      close |-> head.close]
                ELSE parser
      ends == {i \in 1 .. n : got[i].part = "end"}
      refused == \/ parser.state = "start" /\ head.part # "head"
                 \/ next.state = "malformed"
      complete == next.state = "counted" /\ ends # {}
      consumed == CHOOSE i \in ends : \A j \in ends : i <= j
  IN
  /\ pc = "read"
  /\ ~expired
  /\ n \in 1 .. Len(wire[stream])
  /\ wire' = [wire EXCEPT ![stream] = SubSeq(@, n + 1, Len(@))]
  /\ \/ /\ refused
        /\ Finish(Failure("response"), FALSE)
        /\ UNCHANGED << parser, lost >>
     \/ /\ ~refused /\ complete
        /\ Finish(Success(next), Reusable(consumed, n, next))
        /\ lost' = IF consumed = n THEN lost ELSE lost \cup {stream}
        /\ UNCHANGED parser
     \/ /\ ~refused /\ ~complete
        /\ parser' = next
        /\ UNCHANGED << idle, pc, stream, outcome, closes, lost >>
  /\ UNCHANGED << closed, origin, request, unwritten, expired, opened, stale,
                  carried, pending, answering, answered, eof, surplus >>

\* Mutant: the end of the connection ends any response that has a head.
ReadsEofLeniently ==
  /\ pc = "read"
  /\ ~expired
  /\ wire[stream] = << >> /\ eof[stream]
  /\ Finish(IF parser.state # "start"
              THEN Success(parser) ELSE Failure("response"), FALSE)
  /\ UNCHANGED << closed, origin, request, unwritten, parser, expired,
                  opened, lost, stale, serverVars >>

\* A read of zero bytes: finish_eof() accepts it only for a response that the
\* connection delimits.
ReadsEof ==
  /\ pc = "read"
  /\ ~expired
  /\ wire[stream] = << >> /\ eof[stream]
  /\ Finish(IF parser.state = "untilClose"
              THEN Success(parser) ELSE Failure("response"),
            FALSE)
  /\ UNCHANGED << closed, origin, request, unwritten, parser, expired,
                  opened, lost, stale, serverVars >>

\* close() and drop(): the pool is drained.
Closes ==
  /\ pc = "ready"
  /\ ~closed
  /\ closed' = TRUE
  /\ idle' = [o \in Origins |-> NoStream]
  /\ CloseStreams({idle[o] : o \in Origins} \ {NoStream})
  /\ UNCHANGED << pc, stream, origin, request, unwritten, parser, expired,
                  outcome, opened, lost, stale, serverVars >>

DeadlinePasses ==
  /\ pc # "ready"
  /\ ~expired
  /\ expired' = TRUE
  /\ UNCHANGED << closed, idle, pc, stream, origin, request, unwritten,
                  parser, outcome, opened, closes, lost, stale,
                  serverVars >>

-----------------------------------------------------------------------------
(* The servers, as far as the client can tell *)

Sends(s, tokens) ==
  /\ s \in Open
  /\ ~eof[s]
  /\ Len(wire[s]) + Len(tokens) <= MaxWire
  /\ wire' = [wire EXCEPT ![s] = @ \o tokens]

ServerBegins(s, framing, close) ==
  /\ pending[s] # << >>
  /\ answering[s] = Nobody
  /\ Sends(s, << Part(Head(pending[s]), "head", framing, close) >>)
  /\ answering' = [answering EXCEPT
                     ![s] = IF framing = "counted" THEN Head(pending[s])
                            ELSE @]
  /\ pending' = [pending EXCEPT ![s] = Tail(@)]
  /\ UNCHANGED << clientVars, carried, answered, eof, surplus >>

ServerEnds(s) ==
  /\ answering[s] # Nobody
  /\ Sends(s, << Part(answering[s], "end", "counted", FALSE) >>)
  /\ answering' = [answering EXCEPT ![s] = Nobody]
  /\ answered' = answered \cup {answering[s]}
  /\ UNCHANGED << clientVars, carried, pending, eof, surplus >>

\* The end of a response that the connection delimits, a crash in the middle
\* of one, or the end of an idle connection's time.
ServerCloses(s) ==
  /\ s \in Open
  /\ ~eof[s]
  /\ eof' = [eof EXCEPT ![s] = TRUE]
  /\ pending' = [pending EXCEPT ![s] = << >>]
  /\ answering' = [answering EXCEPT ![s] = Nobody]
  /\ UNCHANGED << clientVars, carried, answered, wire, surplus >>

\* A whole response that answers no request.
ServerVolunteers(s) ==
  /\ surplus
  /\ answering[s] = Nobody
  /\ Sends(s, << Part(Nobody, "head", "counted", FALSE),
                 Part(Nobody, "end", "counted", FALSE) >>)
  /\ UNCHANGED << clientVars, carried, pending, answering, answered, eof, surplus >>

-----------------------------------------------------------------------------
\* What execute() does on its own, or when its deadline has passed.
Computes == TakesIdle \/ Serializes
TimesOut == ConnectFails("timeout") \/ TransportFails("timeout")

\* What the network lets execute() do.
Communicates ==
  \/ \E s \in Streams : Connects(s)
  \/ Writes
  \/ \E n \in 1 .. MaxWire : Reads(n)
  \/ ReadsEof
  \/ \E kind \in ConnectErrors \ {"timeout"} : ConnectFails(kind)
  \/ \E kind \in {"connection", "tls", "transport"} : TransportFails(kind)

ServerSteps ==
  \E s \in Streams :
    \/ \E framing \in Framings, close \in BOOLEAN :
         ServerBegins(s, framing, close)
    \/ ServerEnds(s)
    \/ ServerCloses(s)
    \/ ServerVolunteers(s)

Next ==
  \/ \E o \in Origins : Executes(o)
  \/ Computes \/ TimesOut \/ Communicates
  \/ Closes
  \/ DeadlinePasses
  \/ ServerSteps

Spec == Init /\ [][Next]_vars

-----------------------------------------------------------------------------
(* Properties *)

TypeOK ==
  /\ closed \in BOOLEAN /\ expired \in BOOLEAN /\ stale \in BOOLEAN
  /\ idle \in [Origins -> Streams \cup {NoStream}]
  /\ pc \in {"ready", "acquire", "serialize", "write", "read"}
  /\ stream \in Streams \cup {NoStream}
  /\ origin \in Origins
  /\ request \in 0 .. MaxRequests
  /\ unwritten \in 0 .. 2
  /\ parser \in [state : {"start", "counted", "untilClose"},
                 request : 0 .. MaxRequests, close : BOOLEAN]
  /\ outcome \in [kind : Errors \cup {"none", "ok"},
                  answer : 0 .. MaxRequests,
                  framing : {"none", "counted", "untilClose"}]
  /\ DOMAIN opened \subseteq Streams
  /\ \A s \in DOMAIN opened : opened[s] \in Origins
  /\ closes \in [Streams -> 0 .. 1]
  /\ lost \subseteq Streams
  /\ carried \in [Streams -> SUBSET Requests]
  /\ pending \in [Streams -> Seq(Requests)]
  /\ answering \in [Streams -> 0 .. MaxRequests]
  /\ answered \subseteq Requests
  /\ wire \in [Streams -> Seq(Token)]
  /\ eof \in [Streams -> BOOLEAN] /\ surplus \in BOOLEAN

\* Every stream that is open belongs to the request in hand or sits in the
\* pool under the origin it was connected for, never both; after close() none
\* is left.  No path through execute() leaks a connection or lends one to
\* another host, profile or verification mode.
StreamsAccountedFor ==
  /\ Open = ({idle[o] : o \in Origins} \cup {stream}) \ {NoStream}
  /\ \A o \in Origins : idle[o] # NoStream =>
       opened[idle[o]] = o /\ idle[o] # stream
  /\ stream # NoStream => opened[stream] = origin
  /\ (stream # NoStream) <=> pc \in {"serialize", "write", "read"}
  /\ closed /\ pc = "ready" => Open = {}

\* As long as servers send only what they were asked for: the response that
\* execute() returns was sent for the request it was given,
\* whatever failed, timed out or was cut short before on that connection, and
\* a response with a known length has been received to its end.
OwnWholeAnswer ==
  outcome.kind = "ok" /\ ~surplus =>
    /\ outcome.answer = request
    /\ outcome.framing = "counted" => request \in answered

\* The bytes of one request are written to one connection at most: execute()
\* never repeats a request, so a POST is not sent twice.
SentOnce ==
  \A r \in Requests : Cardinality({s \in Streams : r \in carried[s]}) <= 1

\* A stream of which execute() has thrown received bytes away is not reused.
NothingLostInPool == \A o \in Origins : idle[o] \notin lost

\* README.md:30 says that the idle connection of an origin is safely
\* reconnected when it has become invalid: a request that finds its idle
\* connection closed does not fail for that reason.
StaleIsReconnected ==
  pc = "ready" /\ stale => outcome.kind \notin {"connection", "response"}

=============================================================================
