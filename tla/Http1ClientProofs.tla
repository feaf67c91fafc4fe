--------------------------- MODULE Http1ClientProofs ---------------------------
(***************************************************************************)
(* Proofs about Http1Client, for any origins, streams, numbers of requests *)
(* and tokens in flight; and about the plain transport below it in time,   *)
(* TcpTransport, for any timeout, number of addresses and resolver.        *)
(***************************************************************************)
EXTENDS Http1Client, TcpTransport, FiniteSetTheorems, TLAPS

-----------------------------------------------------------------------------
(* What the steps do, as far as several proofs need it *)

\* The steps of the client with their parameters.
LEMMA StepCases ==
  ASSUME [Next]_vars
  PROVE  \/ \E o \in Origins : Executes(o)
         \/ TakesIdle \/ Serializes
         \/ \E kind \in ConnectErrors : ConnectFails(kind)
         \/ \E kind \in {"connection", "tls", "transport", "timeout"} :
              TransportFails(kind)
         \/ \E s \in Streams : Connects(s)
         \/ Writes
         \/ \E n \in 1 .. MaxWire : Reads(n)
         \/ ReadsEof \/ Closes \/ DeadlinePasses \/ ServerSteps
         \/ UNCHANGED vars
<1>1. ASSUME TimesOut
      PROVE  \/ \E kind \in ConnectErrors : ConnectFails(kind)
             \/ \E kind \in {"connection", "tls", "transport", "timeout"} :
                  TransportFails(kind)
  BY <1>1, SMT DEF TimesOut, ConnectErrors
<1>2. ASSUME NEW kind \in ConnectErrors \ {"timeout"}, ConnectFails(kind)
      PROVE  \E k \in ConnectErrors : ConnectFails(k)
  BY <1>2, Zenon
<1>3. ASSUME NEW kind \in {"connection", "tls", "transport"}, TransportFails(kind)
      PROVE  \E k \in {"connection", "tls", "transport", "timeout"} : TransportFails(k)
  BY <1>3, SMT
<1> QED
  BY <1>1, <1>2, <1>3, Zenon DEF Next, Computes, Communicates

LEMMA ServersLeave ==
  ServerSteps => UNCHANGED << clientVars, carried, surplus >>
  BY Zenon DEF ServerSteps, ServerBegins, ServerEnds, ServerCloses, ServerVolunteers

\* A read either goes on, or finishes the exchange; bytes that are thrown away
\* keep the stream from being reused.
LEMMA ReadsIs ==
  ASSUME NEW n, Reads(n)
  PROVE  /\ pc = "read"
         /\ UNCHANGED << closed, origin, request, unwritten, expired, opened, stale,
                         carried, pending, answering, answered, eof, surplus >>
         /\ \/ UNCHANGED << idle, pc, stream, outcome, closes, lost >>
            \/ \E result : \E reusable \in BOOLEAN :
                 /\ Finish(result, reusable)
                 /\ lost' \in {lost, lost \cup {stream}}
                 /\ reusable => lost' = lost
<1> DEFINE got  == SubSeq(wire[stream], 1, n)
           head == got[1]
           next == IF parser.state = "start"
                     THEN [state |-> head.framing, request |-> head.request,
                           close |-> head.close]
                     ELSE parser
           ends == {i \in 1 .. n : got[i].part = "end"}
           consumed == CHOOSE i \in ends : \A j \in ends : i <= j
<1>1. /\ pc = "read"
      /\ UNCHANGED << closed, origin, request, unwritten, expired, opened, stale,
                      carried, pending, answering, answered, eof, surplus >>
      /\ \/ Finish(Failure("response"), FALSE) /\ UNCHANGED << parser, lost >>
         \/ /\ Finish(Success(next), Reusable(consumed, n, next))
            /\ lost' = IF consumed = n THEN lost ELSE lost \cup {stream}
         \/ UNCHANGED << idle, pc, stream, outcome, closes, lost >>
  BY Zenon DEF Reads
<1> HIDE DEF got, head, next, ends, consumed
<1>2. CASE Finish(Failure("response"), FALSE) /\ UNCHANGED << parser, lost >>
  BY <1>1, <1>2, Zenon
<1>3. CASE /\ Finish(Success(next), Reusable(consumed, n, next))
           /\ lost' = IF consumed = n THEN lost ELSE lost \cup {stream}
  <2>1. Reusable(consumed, n, next) \in BOOLEAN
    BY Zenon DEF Reusable
  <2>2. Reusable(consumed, n, next) => consumed = n
    BY Zenon DEF Reusable
  <2>3. lost' \in {lost, lost \cup {stream}}
        /\ (Reusable(consumed, n, next) => lost' = lost)
    BY <1>3, <2>2, SMT
  <2> QED
    BY <1>1, <1>3, <2>1, <2>3, Zenon
<1> QED
  BY <1>1, <1>2, <1>3, Zenon

-----------------------------------------------------------------------------
(* StreamsAccountedFor.  The invariant says the same stream by stream: a     *)
(* stream that is open is the one in hand or sits in the slot of its origin. *)

PoolInv ==
  /\ closed \in BOOLEAN /\ origin \in Origins
  /\ idle \in [Origins -> Streams \cup {NoStream}]
  /\ stream \in Streams \cup {NoStream}
  /\ DOMAIN opened \subseteq Streams
  /\ \A s \in DOMAIN opened : opened[s] \in Origins
  /\ closes \in [Streams -> 0 .. 1]
  /\ pc \in {"ready", "acquire", "serialize", "write", "read"}
  /\ stream # NoStream <=> pc \in {"serialize", "write", "read"}
  /\ \A o \in Origins : idle[o] # NoStream =>
       /\ idle[o] \in DOMAIN opened /\ closes[idle[o]] = 0
       /\ opened[idle[o]] = o /\ idle[o] # stream
  /\ stream # NoStream =>
       /\ stream \in DOMAIN opened /\ closes[stream] = 0
       /\ opened[stream] = origin
  /\ \A s \in DOMAIN opened : closes[s] = 0 => s = stream \/ idle[opened[s]] = s
  /\ \A s \in Streams \ DOMAIN opened : closes[s] = 0
  /\ closed => pc = "ready" /\ \A o \in Origins : idle[o] = NoStream

LEMMA FinishKeepsPool ==
  ASSUME PoolInv, pc \in {"serialize", "write", "read"},
         NEW result, NEW reusable \in BOOLEAN, Finish(result, reusable),
         UNCHANGED << opened, origin, closed >>
  PROVE  PoolInv'
<1> USE ClientAssumption DEF PoolInv
<1>1. CASE reusable
  BY <1>1, SMT DEF Finish, CloseStreams
<1>2. CASE ~reusable
  BY <1>2, SMT DEF Finish, CloseStreams
<1> QED
  BY <1>1, <1>2

LEMMA PoolKept == PoolInv /\ [Next]_vars => PoolInv'
<1> SUFFICES ASSUME PoolInv, [Next]_vars PROVE PoolInv'
  OBVIOUS
<1> USE ClientAssumption DEF PoolInv
<1>1. ASSUME NEW o \in Origins, Executes(o) PROVE PoolInv'
  BY <1>1, SMT DEF Executes, Failure, NoResponse, serverVars
<1>2. CASE TakesIdle
  BY <1>2, SMT DEF TakesIdle, serverVars
<1>3. CASE Serializes
  <2>1. CASE pc' = "write" /\ UNCHANGED << idle, stream, closes >>
    BY <1>3, <2>1, SMT DEF Serializes
  <2>2. CASE Finish(Failure("request"), FALSE)
    BY <1>3, <2>2, FinishKeepsPool DEF Serializes
  <2> QED
    BY <1>3, <2>1, <2>2, Zenon DEF Serializes
<1>4. ASSUME NEW kind \in ConnectErrors, ConnectFails(kind) PROVE PoolInv'
  BY <1>4, SMT DEF ConnectFails, Failure, serverVars
<1>5. ASSUME NEW kind \in {"connection", "tls", "transport", "timeout"},
             TransportFails(kind)
      PROVE  PoolInv'
  <2>1. /\ \E result : Finish(result, FALSE)
        /\ pc \in {"serialize", "write", "read"}
        /\ UNCHANGED << opened, origin, closed >>
    BY <1>5, Zenon DEF TransportFails
  <2> HIDE DEF PoolInv
  <2> QED
    BY <2>1, FinishKeepsPool, Zenon
<1>6. ASSUME NEW s \in Streams, Connects(s) PROVE PoolInv'
  BY <1>6, SMT DEF Connects, serverVars
<1>7. CASE Writes
  BY <1>7, SMT DEF Writes
<1>8. ASSUME NEW n \in 1 .. MaxWire, Reads(n) PROVE PoolInv'
  <2>1. CASE UNCHANGED << idle, pc, stream, outcome, closes, lost >>
    BY <1>8, <2>1, ReadsIs, SMT
  <2>2. ASSUME NEW result, NEW reusable \in BOOLEAN, Finish(result, reusable)
        PROVE  PoolInv'
    <3>1. UNCHANGED << opened, origin, closed >> /\ pc \in {"serialize", "write", "read"}
      BY <1>8, ReadsIs
    <3> HIDE DEF PoolInv
    <3> QED
      BY <2>2, <3>1, FinishKeepsPool, Zenon
  <2> HIDE DEF PoolInv
  <2> QED
    BY <1>8, <2>1, <2>2, ReadsIs, Zenon
<1>9. CASE ReadsEof
  <2>1. /\ \E result : Finish(result, FALSE)
        /\ pc \in {"serialize", "write", "read"}
        /\ UNCHANGED << opened, origin, closed >>
    BY <1>9, Zenon DEF ReadsEof
  <2> HIDE DEF PoolInv
  <2> QED
    BY <2>1, FinishKeepsPool, Zenon
<1>10. CASE Closes
  BY <1>10, SMT DEF Closes, CloseStreams, serverVars
<1>11. CASE DeadlinePasses
  BY <1>11, SMT DEF DeadlinePasses, serverVars
<1>12. CASE ServerSteps
  BY <1>12, ServersLeave, SMT DEF clientVars
<1>13. CASE UNCHANGED vars
  BY <1>13, SMT DEF vars, clientVars, serverVars
<1> HIDE DEF PoolInv
<1> QED
  BY <1>1, <1>2, <1>3, <1>4, <1>5, <1>6, <1>7, <1>8, <1>9, <1>10, <1>11, <1>12,
     <1>13, StepCases, Zenon

LEMMA PoolIs == PoolInv => StreamsAccountedFor
<1> SUFFICES ASSUME PoolInv PROVE StreamsAccountedFor
  OBVIOUS
<1> USE ClientAssumption DEF PoolInv
<1>1. Open \subseteq ({idle[o] : o \in Origins} \cup {stream}) \ {NoStream}
  BY SMT DEF Open
<1>2. ({idle[o] : o \in Origins} \cup {stream}) \ {NoStream} \subseteq Open
  BY SMT DEF Open
<1>3. closed => Open = {}
  BY SMT DEF Open
<1> QED
  BY <1>1, <1>2, <1>3, SMT DEF StreamsAccountedFor

-----------------------------------------------------------------------------
(* NothingLostInPool *)

LostInv ==
  /\ lost \subseteq DOMAIN opened
  /\ stream \notin lost
  /\ NothingLostInPool

LEMMA LostKept == PoolInv /\ LostInv /\ [Next]_vars => LostInv'
<1> SUFFICES ASSUME PoolInv, LostInv, [Next]_vars PROVE LostInv'
  OBVIOUS
<1> USE ClientAssumption DEF PoolInv, LostInv, NothingLostInPool
<1>1. ASSUME NEW o \in Origins, Executes(o) PROVE LostInv'
  BY <1>1, SMT DEF Executes, Failure, NoResponse, serverVars
<1>2. CASE TakesIdle
  BY <1>2, SMT DEF TakesIdle, serverVars
<1>3. CASE Serializes
  BY <1>3, SMT DEF Serializes, Finish, Failure, serverVars, CloseStreams
<1>4. ASSUME NEW kind \in ConnectErrors, ConnectFails(kind) PROVE LostInv'
  BY <1>4, SMT DEF ConnectFails, Failure, serverVars
<1>5. ASSUME NEW kind \in {"connection", "tls", "transport", "timeout"},
             TransportFails(kind)
      PROVE  LostInv'
  BY <1>5, SMT DEF TransportFails, Finish, Failure, serverVars, CloseStreams
<1>6. ASSUME NEW s \in Streams, Connects(s) PROVE LostInv'
  BY <1>6, SMT DEF Connects, serverVars
<1>7. CASE Writes
  BY <1>7, SMT DEF Writes
<1>8. ASSUME NEW n \in 1 .. MaxWire, Reads(n) PROVE LostInv'
  <2>1. CASE UNCHANGED << idle, pc, stream, outcome, closes, lost >>
    BY <1>8, <2>1, ReadsIs, SMT
  <2>2. ASSUME NEW result, NEW reusable \in BOOLEAN, Finish(result, reusable),
               lost' \in {lost, lost \cup {stream}}, reusable => lost' = lost
        PROVE  LostInv'
    <3>1. opened' = opened /\ pc = "read"
      BY <1>8, ReadsIs
    <3> QED
      BY <2>2, <3>1, SMT DEF Finish
  <2> HIDE DEF PoolInv, LostInv, NothingLostInPool
  <2> QED
    BY <1>8, <2>1, <2>2, ReadsIs, Zenon
<1>9. CASE ReadsEof
  BY <1>9, SMT DEF ReadsEof, Finish, Failure, Success, serverVars, CloseStreams
<1>10. CASE Closes
  BY <1>10, SMT DEF Closes, CloseStreams, serverVars
<1>11. CASE DeadlinePasses
  BY <1>11, SMT DEF DeadlinePasses, serverVars
<1>12. CASE ServerSteps
  BY <1>12, ServersLeave, SMT DEF clientVars
<1>13. CASE UNCHANGED vars
  BY <1>13, SMT DEF vars, clientVars, serverVars
<1> HIDE DEF PoolInv, LostInv, NothingLostInPool
<1> QED
  BY <1>1, <1>2, <1>3, <1>4, <1>5, <1>6, <1>7, <1>8, <1>9, <1>10, <1>11, <1>12,
     <1>13, StepCases, Zenon

-----------------------------------------------------------------------------
(* SentOnce *)

CarriedInv ==
  /\ request \in 0 .. MaxRequests
  /\ pc # "ready" => request \in Requests
  /\ carried \in [Streams -> SUBSET Requests]
  /\ \A s \in Streams : \A r \in carried[s] : r <= request
  /\ \A s, t \in Streams : \A r \in carried[s] \cap carried[t] : s = t
  /\ pc # "ready" => \A s \in Streams : request \in carried[s] => s = stream
  /\ pc = "serialize" => request \notin carried[stream]

LEMMA CarriedKept == PoolInv /\ CarriedInv /\ [Next]_vars => CarriedInv'
<1> SUFFICES ASSUME PoolInv, CarriedInv, [Next]_vars PROVE CarriedInv'
  OBVIOUS
<1> USE DEF CarriedInv, Requests
<1>c. /\ NoStream \notin Streams /\ MaxRequests \in Nat
      /\ SurplusRequests \in 0 .. MaxRequests
  BY ClientAssumption
<1>p. /\ pc \in {"ready", "acquire", "serialize", "write", "read"}
      /\ stream # NoStream <=> pc \in {"serialize", "write", "read"}
      /\ stream \in Streams \cup {NoStream}
      /\ \A o \in Origins : idle[o] \in Streams \cup {NoStream}
      /\ origin \in Origins
  BY DEF PoolInv
<1>1. ASSUME NEW o \in Origins, Executes(o) PROVE CarriedInv'
  <2>1. request < MaxRequests
    BY <1>1, <1>c, SMT DEF Executes
  <2>2. /\ request' = request + 1 /\ pc' \in {pc, "acquire"} /\ pc = "ready"
        /\ UNCHANGED << carried, stream >>
    BY <1>1, SMT DEF Executes, serverVars
  <2> QED
    BY <1>c, <1>p, <2>1, <2>2, SMT
<1>2. CASE TakesIdle
  BY <1>2, <1>c, <1>p, SMT DEF TakesIdle, serverVars
<1>3. CASE Serializes
  BY <1>3, <1>c, <1>p, SMT DEF Serializes, Finish, Failure, serverVars, CloseStreams
<1>4. ASSUME NEW kind \in ConnectErrors, ConnectFails(kind) PROVE CarriedInv'
  BY <1>4, <1>c, <1>p, SMT DEF ConnectFails, Failure, serverVars
<1>5. ASSUME NEW kind \in {"connection", "tls", "transport", "timeout"},
             TransportFails(kind)
      PROVE  CarriedInv'
  BY <1>5, <1>c, <1>p, SMT DEF TransportFails, Finish, Failure, serverVars,
     CloseStreams
<1>6. ASSUME NEW s \in Streams, Connects(s) PROVE CarriedInv'
  BY <1>6, <1>c, <1>p, SMT DEF Connects, serverVars
<1>7. CASE Writes
  BY <1>7, <1>c, <1>p, SMT DEF Writes
<1>8. ASSUME NEW n \in 1 .. MaxWire, Reads(n) PROVE CarriedInv'
  <2>1. /\ UNCHANGED << carried, request >> /\ pc = "read"
        /\ UNCHANGED << pc, stream >> \/ pc' = "ready"
    BY <1>8, ReadsIs, SMT DEF Finish
  <2> QED
    BY <1>c, <1>p, <2>1, SMT
<1>9. CASE ReadsEof
  BY <1>9, <1>c, <1>p, SMT DEF ReadsEof, Finish, Failure, Success, serverVars,
     CloseStreams
<1>10. CASE Closes
  BY <1>10, <1>c, <1>p, SMT DEF Closes, CloseStreams, serverVars
<1>11. CASE DeadlinePasses
  BY <1>11, <1>c, <1>p, SMT DEF DeadlinePasses, serverVars
<1>12. CASE ServerSteps
  BY <1>12, ServersLeave, SMT DEF clientVars
<1>13. CASE UNCHANGED vars
  BY <1>13, <1>c, <1>p, SMT DEF vars, clientVars, serverVars
<1> HIDE DEF CarriedInv, Requests
<1> QED
  BY <1>1, <1>2, <1>3, <1>4, <1>5, <1>6, <1>7, <1>8, <1>9, <1>10, <1>11, <1>12,
     <1>13, StepCases, Zenon

LEMMA CarriedIs == CarriedInv => SentOnce
<1> SUFFICES ASSUME CarriedInv, NEW r \in Requests
             PROVE  Cardinality({s \in Streams : r \in carried[s]}) <= 1
  BY DEF SentOnce
<1> DEFINE bearers == {s \in Streams : r \in carried[s]}
<1>1. CASE bearers = {}
  BY <1>1, FS_EmptySet
<1>2. CASE bearers # {}
  <2>1. PICK s \in bearers : TRUE
    BY <1>2
  <2>2. bearers = {s}
    BY <2>1 DEF CarriedInv
  <2>3. Cardinality({s}) = 1
    BY FS_Singleton
  <2>4. Cardinality(bearers) = 1
    BY <2>2, <2>3
  <2> QED
    BY <2>4
<1> QED
  BY <1>1, <1>2

-----------------------------------------------------------------------------
(* OwnWholeAnswer.  Without bytes that nobody asked for, an idle stream has  *)
(* nothing on it, and the stream in hand has what the exchange has come to.  *)

Quiet(s) == wire[s] = << >> /\ pending[s] = << >> /\ answering[s] = Nobody

EndOf(r) == Part(r, "end", "counted", FALSE)

\* The server has the request and has sent nothing.
Asked(s, r) ==
  /\ pending[s] = << r >> /\ answering[s] = Nobody
  /\ wire[s] = << >> /\ parser.state = "start"

\* The head of the response is on its way.
HeadSent(s, r) ==
  /\ pending[s] = << >> /\ parser.state = "start"
  /\ \E framing \in Framings, close \in BOOLEAN :
       /\ wire[s] = << Part(r, "head", framing, close) >>
       /\ answering[s] = Nobody \/ (answering[s] = r /\ framing = "counted")

\* And with it its end.
AllSent(s, r) ==
  /\ pending[s] = << >> /\ parser.state = "start" /\ answering[s] = Nobody
  /\ r \in answered
  /\ \E close \in BOOLEAN :
       wire[s] = << Part(r, "head", "counted", close), EndOf(r) >>

\* The head has been read.
HeadRead(s, r) ==
  /\ pending[s] = << >> /\ parser.request = r
  /\ parser.state \in {"counted", "untilClose"}
  /\ wire[s] = << >>
  /\ answering[s] = Nobody \/ (answering[s] = r /\ parser.state = "counted")

\* The head has been read and the end is on its way.
EndSent(s, r) ==
  /\ pending[s] = << >> /\ parser.request = r /\ parser.state = "counted"
  /\ answering[s] = Nobody /\ r \in answered
  /\ wire[s] = << EndOf(r) >>

Exchange(s, r) ==
  \/ Quiet(s) /\ parser.state = "start"
  \/ /\ r \in carried[s]
     /\ \/ Asked(s, r) \/ HeadSent(s, r) \/ AllSent(s, r)
        \/ HeadRead(s, r) \/ EndSent(s, r)

Functions ==
  /\ DOMAIN wire = Streams /\ DOMAIN pending = Streams
  /\ DOMAIN answering = Streams /\ DOMAIN eof = Streams /\ DOMAIN carried = Streams

AnswerInv ==
  ~surplus =>
    /\ \A s \in Streams \ DOMAIN opened : Quiet(s)
    /\ \A o \in Origins, s \in Streams : idle[o] = s => Quiet(s)
    /\ pc = "acquire" => parser.state = "start"
    /\ \A s \in Streams, r \in Requests :
         s = stream /\ r = request => Exchange(s, r)
    /\ OwnWholeAnswer

LEMMA FunctionsKept == Functions /\ [Next]_vars => Functions'
<1> SUFFICES ASSUME Functions, [Next]_vars PROVE Functions'
  OBVIOUS
<1> USE DEF Functions
<1>1. ASSUME NEW o \in Origins, Executes(o) PROVE Functions'
  BY <1>1, SMT DEF Executes, serverVars
<1>2. CASE TakesIdle
  BY <1>2, SMT DEF TakesIdle, serverVars
<1>3. CASE Serializes
  BY <1>3, SMT DEF Serializes, serverVars
<1>4. ASSUME NEW kind \in ConnectErrors, ConnectFails(kind) PROVE Functions'
  BY <1>4, SMT DEF ConnectFails, serverVars
<1>5. ASSUME NEW kind \in {"connection", "tls", "transport", "timeout"},
             TransportFails(kind)
      PROVE  Functions'
  BY <1>5, SMT DEF TransportFails, serverVars
<1>6. ASSUME NEW s \in Streams, Connects(s) PROVE Functions'
  BY <1>6, SMT DEF Connects, serverVars
<1>7. CASE Writes
  BY <1>7, SMT DEF Writes
<1>8. ASSUME NEW n \in 1 .. MaxWire, Reads(n) PROVE Functions'
  BY <1>8, SMT DEF Reads
<1>9. CASE ReadsEof
  BY <1>9, SMT DEF ReadsEof, serverVars
<1>10. CASE Closes
  BY <1>10, SMT DEF Closes, serverVars
<1>11. CASE DeadlinePasses
  BY <1>11, SMT DEF DeadlinePasses, serverVars
<1>12. ASSUME NEW s \in Streams, NEW framing \in Framings, NEW close \in BOOLEAN,
              ServerBegins(s, framing, close)
      PROVE  Functions'
  BY <1>12, SMT DEF ServerBegins, Part, Sends, clientVars
<1>13. ASSUME NEW s \in Streams, ServerEnds(s) PROVE Functions'
  BY <1>13, SMT DEF ServerEnds, Part, Sends, clientVars
<1>14. ASSUME NEW s \in Streams, ServerCloses(s) PROVE Functions'
  BY <1>14, SMT DEF ServerCloses, clientVars
<1>15. ASSUME NEW s \in Streams, ServerVolunteers(s) PROVE Functions'
  BY <1>15, SMT DEF ServerVolunteers, Part, Sends, clientVars
<1>16. CASE UNCHANGED vars
  BY <1>16, SMT DEF vars, clientVars, serverVars
<1> HIDE DEF Functions
<1> QED
  BY <1>1, <1>2, <1>3, <1>4, <1>5, <1>6, <1>7, <1>8, <1>9, <1>10, <1>11, <1>12,
     <1>13, <1>14, <1>15, <1>16, StepCases, Zenon DEF ServerSteps

\* What a read returns and leaves, when all that is on the wire is known.
LEMMA Cuts ==
  ASSUME NEW a, NEW b
  PROVE  /\ Len(<< >>) = 0 /\ Len(<< a >>) = 1 /\ Len(<< a, b >>) = 2
         /\ SubSeq(<< a >>, 1, 1)[1] = a /\ SubSeq(<< a, b >>, 1, 1)[1] = a
         /\ SubSeq(<< a, b >>, 1, 2)[1] = a /\ SubSeq(<< a, b >>, 1, 2)[2] = b
         /\ SubSeq(<< a >>, 2, 1) = << >> /\ SubSeq(<< a, b >>, 2, 2) = << b >>
         /\ SubSeq(<< a, b >>, 3, 2) = << >>
<1> DEFINE q == SubSeq(<< a, b >>, 2, 2)
<1>1. q \in Seq({a, b}) /\ Len(q) = 1 /\ q[1] = b
  BY SMT
<1> HIDE DEF q
<1>2. q = << b >>
  BY <1>1, SMT
<1> USE DEF q
<1> QED
  BY <1>2, SMT

LEMMA QuietKept ==
  ASSUME NEW s, Quiet(s), wire'[s] = wire[s], pending'[s] = pending[s],
         answering'[s] = answering[s]
  PROVE  Quiet(s)'
  BY DEF Quiet

LEMMA ExchangeKept ==
  ASSUME NEW s, NEW r, Exchange(s, r),
         wire'[s] = wire[s], pending'[s] = pending[s],
         answering'[s] = answering[s], parser' = parser,
         carried[s] \subseteq carried'[s], answered \subseteq answered'
  PROVE  Exchange(s, r)'
<1>1. Quiet(s) => Quiet(s)'
  BY DEF Quiet
<1>2. Asked(s, r) => Asked(s, r)'
  BY DEF Asked
<1>3. HeadSent(s, r) => HeadSent(s, r)'
  BY DEF HeadSent
<1>4. AllSent(s, r) => AllSent(s, r)'
  BY DEF AllSent
<1>5. HeadRead(s, r) => HeadRead(s, r)'
  BY DEF HeadRead
<1>6. EndSent(s, r) => EndSent(s, r)'
  BY DEF EndSent
<1> QED
  BY <1>1, <1>2, <1>3, <1>4, <1>5, <1>6 DEF Exchange

\* The end of execute(): what it returns is right, and the stream it puts into
\* the pool has nothing on it.
LEMMA FinishAnswers ==
  ASSUME PoolInv, AnswerInv, ~surplus, pc \in {"serialize", "write", "read"},
         NEW result, NEW reusable \in BOOLEAN, Finish(result, reusable),
         UNCHANGED << opened, origin, request, surplus >>,
         answered \subseteq answered',
         \A s \in Streams : s # stream => /\ wire'[s] = wire[s]
                                          /\ pending'[s] = pending[s]
                                          /\ answering'[s] = answering[s],
         reusable => \A s \in Streams : s = stream => Quiet(s)',
         result.kind = "ok" => /\ result.answer = request
                               /\ result.framing = "counted" => request \in answered
  PROVE  AnswerInv'
<1>1. stream \in Streams /\ stream \in DOMAIN opened /\ stream' = NoStream
      /\ pc' = "ready" /\ outcome' = result
  BY ClientAssumption DEF PoolInv, Finish
<1>2. \A s \in Streams \ DOMAIN opened' : Quiet(s)'
  <2> SUFFICES ASSUME NEW s \in Streams \ DOMAIN opened PROVE Quiet(s)'
    OBVIOUS
  <2>1. Quiet(s) /\ s # stream
    BY <1>1 DEF AnswerInv
  <2> QED
    BY <2>1, QuietKept
<1>3. \A o \in Origins, s \in Streams : idle'[o] = s => Quiet(s)'
  <2> SUFFICES ASSUME NEW o \in Origins, NEW s \in Streams, idle'[o] = s PROVE Quiet(s)'
    OBVIOUS
  <2>1. CASE s = stream
    <3>1. idle[o] # stream
      BY <1>1, ClientAssumption DEF PoolInv
    <3>2. reusable
      BY <2>1, <3>1 DEF Finish
    <3> QED
      BY <2>1, <3>2
  <2>2. CASE s # stream
    <3>1. idle[o] = s
      BY <2>2, SMT DEF Finish, PoolInv
    <3>2. Quiet(s)
      BY <3>1 DEF AnswerInv
    <3> QED
      BY <2>2, <3>2, QuietKept
  <2> QED
    BY <2>1, <2>2
<1>4. OwnWholeAnswer'
  BY <1>1 DEF OwnWholeAnswer
<1>5. \A s \in Streams : s # stream'
  BY <1>1, ClientAssumption
<1> QED
  BY <1>1, <1>2, <1>3, <1>4, <1>5, SMT DEF AnswerInv

\* A failure is no answer.
LEMMA FailureIs ==
  /\ \A kind : Failure(kind).kind = kind
  /\ \A p : /\ Success(p).kind = "ok" /\ Success(p).answer = p.request
            /\ Success(p).framing = p.state
  BY Zenon DEF Failure, Success

LEMMA ReadAnswers ==
  ASSUME PoolInv, CarriedInv, Functions, AnswerInv, ~surplus, NEW n \in Nat, Reads(n)
  PROVE  AnswerInv'
<1> DEFINE got  == SubSeq(wire[stream], 1, n)
           head == got[1]
           next == IF parser.state = "start"
                     THEN [state |-> head.framing, request |-> head.request,
                           close |-> head.close]
                     ELSE parser
           ends == {i \in 1 .. n : got[i].part = "end"}
           refused == \/ parser.state = "start" /\ head.part # "head"
                      \/ next.state = "malformed"
           complete == next.state = "counted" /\ ends # {}
           consumed == CHOOSE i \in ends : \A j \in ends : i <= j
           reusable == Reusable(consumed, n, next)
<1>1. /\ pc = "read" /\ n \in 1 .. Len(wire[stream])
      /\ wire' = [wire EXCEPT ![stream] = SubSeq(@, n + 1, Len(@))]
      /\ UNCHANGED << closed, origin, request, opened, surplus, carried, pending,
                      answering, answered, eof >>
      /\ \/ refused /\ Finish(Failure("response"), FALSE)
         \/ ~refused /\ complete /\ Finish(Success(next), reusable)
         \/ ~refused /\ ~complete /\ parser' = next /\ UNCHANGED << idle, pc, stream, outcome >>
  BY Zenon DEF Reads
<1>2. PICK s \in Streams, r \in Requests : s = stream /\ r = request
  BY <1>1, ClientAssumption DEF PoolInv, CarriedInv
<1>3. Exchange(s, r)
  BY <1>2 DEF AnswerInv
<1>4. /\ wire'[s] = SubSeq(wire[s], n + 1, Len(wire[s]))
      /\ pending'[s] = pending[s] /\ answering'[s] = answering[s]
      /\ \A t \in Streams : t # stream => /\ wire'[t] = wire[t]
                                          /\ pending'[t] = pending[t]
                                          /\ answering'[t] = answering[t]
  BY <1>1, <1>2 DEF Functions
<1>5. ASSUME Finish(Failure("response"), FALSE) PROVE AnswerInv'
  <2>1. Failure("response").kind # "ok"
    BY FailureIs
  <2> QED
    BY <1>1, <1>4, <1>5, <2>1, FinishAnswers
\* A whole answer: what is left on the wire is nothing.
<1>6. ASSUME Finish(Success(next), reusable), Quiet(s)', next.request = r,
             r \in answered
      PROVE  AnswerInv'
  <2>1. reusable \in BOOLEAN
    BY Zenon DEF Reusable
  <2>2. Success(next).answer = r /\ answered \subseteq answered'
    BY <1>1, <1>6, FailureIs
  <2>3. \A t \in Streams : t = stream => Quiet(t)'
    BY <1>2, <1>6
  <2> HIDE DEF next, reusable
  <2> QED
    BY <1>1, <1>2, <1>4, <1>6, <2>1, <2>2, <2>3, FinishAnswers
\* More of the answer has been read.
<1>7. ASSUME UNCHANGED << idle, pc, stream, outcome >>, Exchange(s, r)'
      PROVE  AnswerInv'
  <2>1. \A t \in Streams : Quiet(t) /\ t # stream => Quiet(t)'
    BY <1>4, QuietKept
  <2>2. stream \in DOMAIN opened /\ \A o \in Origins : idle[o] # stream
    BY <1>2, ClientAssumption DEF PoolInv
  <2>3. \A t \in Streams \ DOMAIN opened' : Quiet(t)'
    BY <1>1, <2>1, <2>2 DEF AnswerInv
  <2>4. \A o \in Origins, t \in Streams : idle'[o] = t => Quiet(t)'
    BY <1>1, <1>7, <2>1, <2>2 DEF AnswerInv
  <2>5. OwnWholeAnswer'
    BY <1>1, <1>7 DEF AnswerInv, OwnWholeAnswer
  <2>6. \A t \in Streams, q \in Requests : t = stream' /\ q = request' => Exchange(t, q)'
    BY <1>1, <1>2, <1>7
  <2> QED
    BY <1>1, <1>7, <2>3, <2>4, <2>5, <2>6 DEF AnswerInv
<1>8. wire[s] # << >>
  BY <1>1, <1>2, Cuts, SMT
<1>9. r \in carried[s] /\ (HeadSent(s, r) \/ AllSent(s, r) \/ EndSent(s, r))
  BY <1>3, <1>8 DEF Exchange, Quiet, Asked, HeadRead
<1>10. CASE HeadSent(s, r)
  <2>1. PICK framing \in Framings, close \in BOOLEAN :
          /\ wire[s] = << Part(r, "head", framing, close) >>
          /\ answering[s] = Nobody \/ (answering[s] = r /\ framing = "counted")
    BY <1>10 DEF HeadSent
  <2>2. n = 1 /\ wire'[s] = << >>
    BY <1>1, <1>2, <1>4, <2>1, Cuts, SMT
  <2>3. head = Part(r, "head", framing, close)
    BY <1>2, <2>1, <2>2, Cuts
  <2>4. ends = {}
    <3>1. head.part = "head"
      <4>1. Part(r, "head", framing, close).part = "head"
        BY Zenon DEF Part
      <4> HIDE DEF head
      <4> QED
        BY <2>3, <4>1
    <3> HIDE DEF got
    <3> QED
      BY <2>2, <3>1, SMT
  <2>5. parser.state = "start"
    BY <1>10 DEF HeadSent
  <2>6. head.part = "head" /\ head.framing = framing /\ head.request = r
    <3>1. LET part == Part(r, "head", framing, close)
          IN  part.part = "head" /\ part.framing = framing /\ part.request = r
      BY Zenon DEF Part
    <3> HIDE DEF head
    <3> QED
      BY <2>3, <3>1
  <2>7. next.state = framing /\ next.request = r
    <3> HIDE DEF head
    <3> QED
      BY <2>5, <2>6, SMT
  <2>8. CASE framing = "malformed"
    BY <1>1, <1>5, <2>7, <2>8
  <2>9. CASE framing # "malformed"
    <3>1. ~refused /\ ~complete
      <4> HIDE DEF head, ends, next
      <4> QED
        BY <2>4, <2>6, <2>7, <2>9, Zenon
    <3>2. parser' = next /\ UNCHANGED << idle, pc, stream, outcome >>
      BY <1>1, <3>1, Zenon
    <3>3. framing \in {"counted", "untilClose"}
      BY <2>9 DEF Framings
    <3>4. pending'[s] = << >> /\ (answering'[s] = Nobody \/ (answering'[s] = r /\ framing = "counted"))
      BY <1>4, <1>10, <2>1 DEF HeadSent
    <3>5. HeadRead(s, r)'
      BY <2>2, <2>7, <3>2, <3>3, <3>4 DEF HeadRead
    <3>6. r \in carried'[s]
      BY <1>1, <1>9
    <3> QED
      BY <1>7, <3>2, <3>5, <3>6 DEF Exchange
  <2> QED
    BY <2>8, <2>9
<1>11. CASE AllSent(s, r)
  <2>1. PICK close \in BOOLEAN :
          wire[s] = << Part(r, "head", "counted", close), EndOf(r) >>
    BY <1>11 DEF AllSent
  <2>2. n \in {1, 2}
    BY <1>1, <1>2, <2>1, Cuts, SMT
  <2>3. head = Part(r, "head", "counted", close)
    BY <1>2, <2>1, <2>2, Cuts
  <2>4. /\ parser.state = "start" /\ pending[s] = << >> /\ answering[s] = Nobody
        /\ r \in answered
    BY <1>11 DEF AllSent
  <2>5. head.part = "head" /\ head.framing = "counted" /\ head.request = r
    <3>1. LET part == Part(r, "head", "counted", close)
          IN  part.part = "head" /\ part.framing = "counted" /\ part.request = r
      BY Zenon DEF Part
    <3> HIDE DEF head
    <3> QED
      BY <2>3, <3>1
  <2>6. next.state = "counted" /\ next.request = r
    <3> HIDE DEF head
    <3> QED
      BY <2>4, <2>5, SMT
  <2>7. ~refused
    <3> HIDE DEF head, next
    <3> QED
      BY <2>5, <2>6
  <2>8. CASE n = 1
    <3>1. ends = {}
      <4> HIDE DEF got
      <4> QED
        BY <2>5, <2>8, SMT
    <3>2. parser' = next /\ UNCHANGED << idle, pc, stream, outcome >>
      BY <1>1, <2>7, <3>1, Zenon
    <3>3. wire'[s] = << EndOf(r) >>
      BY <1>4, <2>1, <2>8, Cuts
    <3>4. EndSent(s, r)' /\ r \in carried'[s]
      BY <1>1, <1>4, <1>9, <2>4, <2>6, <3>2, <3>3 DEF EndSent
    <3> QED
      BY <1>7, <3>2, <3>4 DEF Exchange
  <2>9. CASE n = 2
    <3>1. got[2] = EndOf(r) /\ EndOf(r).part = "end"
      <4>1. EndOf(r).part = "end"
        BY Zenon DEF EndOf, Part
      <4>2. got[2] = EndOf(r)
        BY <1>2, <2>1, <2>9, Cuts
      <4> QED
        BY <4>1, <4>2
    <3>2. 2 \in ends
      BY <2>9, <3>1, SMT
    <3>3. Finish(Success(next), reusable)
      BY <1>1, <2>6, <2>7, <3>2, Zenon
    <3>4. wire'[s] = << >>
      BY <1>4, <2>1, <2>9, Cuts
    <3>5. Quiet(s)'
      BY <1>4, <2>4, <3>4 DEF Quiet
    <3> QED
      BY <1>6, <2>4, <2>6, <3>3, <3>5
  <2> QED
    BY <2>2, <2>8, <2>9
<1>12. CASE EndSent(s, r)
  <2>1. /\ wire[s] = << EndOf(r) >> /\ parser.state = "counted" /\ parser.request = r
        /\ pending[s] = << >> /\ answering[s] = Nobody /\ r \in answered
    BY <1>12 DEF EndSent
  <2>2. n = 1 /\ wire'[s] = << >>
    BY <1>1, <1>2, <1>4, <2>1, Cuts, SMT
  <2>3. got[1] = EndOf(r) /\ EndOf(r).part = "end"
    <3>1. EndOf(r).part = "end"
      BY Zenon DEF EndOf, Part
    <3>2. got[1] = EndOf(r)
      BY <1>2, <2>1, <2>2, Cuts
    <3> QED
      BY <3>1, <3>2
  <2>4. 1 \in ends
    BY <2>2, <2>3, SMT
  <2>5. next = parser
    BY <2>1
  <2>6. ~refused /\ complete
    BY <2>1, <2>4, <2>5
  <2>7. Finish(Success(next), reusable)
    BY <1>1, <2>6, Zenon
  <2>8. Quiet(s)'
    BY <1>4, <2>1, <2>2 DEF Quiet
  <2> QED
    BY <1>6, <2>1, <2>5, <2>7, <2>8
<1> QED
  BY <1>9, <1>10, <1>11, <1>12

\* A step that touches nothing of the servers.
LEMMA ClientStep ==
  ASSUME AnswerInv, ~surplus, UNCHANGED serverVars,
         DOMAIN opened \subseteq DOMAIN opened',
         \A o \in Origins, s \in Streams : idle'[o] = s => idle[o] = s,
         pc' = "acquire" => parser'.state = "start",
         \A s \in Streams : s = stream' =>
           \/ parser'.state = "start" /\ Quiet(s)
           \/ UNCHANGED << stream, request, parser >>,
         OwnWholeAnswer'
  PROVE  AnswerInv'
<1>1. \A s : Quiet(s) => Quiet(s)'
  BY QuietKept DEF serverVars
<1>2. ASSUME NEW s \in Streams, NEW r \in Requests, s = stream', r = request'
      PROVE  Exchange(s, r)'
  <2>1. CASE parser'.state = "start" /\ Quiet(s)
    BY <1>1, <2>1 DEF Exchange
  <2>2. CASE UNCHANGED << stream, request, parser >>
    <3>1. Exchange(s, r)
      BY <1>2, <2>2 DEF AnswerInv
    <3> QED
      BY <2>2, <3>1, ExchangeKept DEF serverVars
  <2> QED
    BY <1>2, <2>1, <2>2
<1>3. \A s \in Streams \ DOMAIN opened' : Quiet(s)'
  BY <1>1 DEF AnswerInv
<1>4. \A o \in Origins, s \in Streams : idle'[o] = s => Quiet(s)'
  BY <1>1 DEF AnswerInv
<1> QED
  BY <1>2, <1>3, <1>4 DEF AnswerInv, serverVars

\* A step of one server.
LEMMA ServerStep ==
  ASSUME PoolInv, AnswerInv, ~surplus, UNCHANGED << clientVars, carried, surplus >>,
         answered \subseteq answered', NEW s \in Streams,
         \A t \in Streams : t # s => /\ wire'[t] = wire[t]
                                     /\ pending'[t] = pending[t]
                                     /\ answering'[t] = answering[t],
         Quiet(s) => Quiet(s)',
         \A r \in Requests : s = stream /\ r = request => Exchange(s, r)'
  PROVE  AnswerInv'
<1>1. \A t \in Streams : Quiet(t) => Quiet(t)'
  BY QuietKept
<1>2. ASSUME NEW t \in Streams, NEW r \in Requests, t = stream', r = request'
      PROVE  Exchange(t, r)'
  <2>1. t = stream /\ r = request /\ parser' = parser
    BY <1>2 DEF clientVars
  <2>2. CASE t = s
    BY <2>1, <2>2
  <2>3. CASE t # s
    <3>1. Exchange(t, r)
      BY <2>1 DEF AnswerInv
    <3> QED
      BY <2>1, <2>3, <3>1, ExchangeKept
  <2> QED
    BY <2>2, <2>3
<1>3. \A t \in Streams \ DOMAIN opened' : Quiet(t)'
  BY <1>1 DEF AnswerInv, clientVars
<1>4. \A o \in Origins, t \in Streams : idle'[o] = t => Quiet(t)'
  BY <1>1 DEF AnswerInv, clientVars
<1>5. OwnWholeAnswer'
  BY DEF AnswerInv, OwnWholeAnswer, clientVars
<1> QED
  BY <1>2, <1>3, <1>4, <1>5 DEF AnswerInv, clientVars

\* Only the stream in hand is not quiet, of those that are open.
LEMMA BusyIsInHand ==
  ASSUME PoolInv, CarriedInv, AnswerInv, ~surplus, NEW s \in Open, ~Quiet(s)
  PROVE  \E r \in Requests : s = stream /\ r = request /\ Exchange(s, r)
<1>1. s \in Streams /\ s \in DOMAIN opened /\ closes[s] = 0 /\ opened[s] \in Origins
  BY DEF Open, PoolInv
<1>2. idle[opened[s]] # s
  BY <1>1 DEF AnswerInv
<1>3. s = stream
  BY <1>1, <1>2 DEF PoolInv
<1>4. request \in Requests
  BY <1>1, <1>3, ClientAssumption DEF PoolInv, CarriedInv
<1> QED
  BY <1>1, <1>3, <1>4 DEF AnswerInv

LEMMA ServerBeginsAnswers ==
  ASSUME PoolInv, CarriedInv, Functions, AnswerInv, ~surplus, NEW s \in Streams,
         NEW framing \in Framings, NEW close \in BOOLEAN,
         ServerBegins(s, framing, close)
  PROVE  AnswerInv'
<1>1. /\ pending[s] # << >> /\ answering[s] = Nobody /\ s \in Open
      /\ wire' = [wire EXCEPT ![s] = @ \o << Part(Head(pending[s]), "head", framing, close) >>]
      /\ answering' = [answering EXCEPT
                         ![s] = IF framing = "counted" THEN Head(pending[s]) ELSE @]
      /\ pending' = [pending EXCEPT ![s] = Tail(@)]
      /\ UNCHANGED << clientVars, carried, answered, eof, surplus >>
  BY Zenon DEF ServerBegins, Sends
<1>2. ~Quiet(s)
  BY <1>1 DEF Quiet
<1>3. PICK r \in Requests : s = stream /\ r = request /\ Exchange(s, r)
  BY <1>1, <1>2, BusyIsInHand
<1>4. r \in carried[s] /\ Asked(s, r)
  BY <1>1, <1>2, <1>3 DEF Exchange, HeadSent, AllSent, HeadRead, EndSent
<1>5. pending[s] = << r >> /\ wire[s] = << >> /\ parser.state = "start"
  BY <1>4 DEF Asked
<1>6. Head(pending[s]) = r /\ pending'[s] = << >>
  BY <1>1, <1>5, SMT DEF Functions
<1> DEFINE part == Part(r, "head", framing, close)
<1>7. wire'[s] = << part >>
  <2> HIDE DEF part
  <2>1. wire' = [wire EXCEPT ![s] = @ \o << part >>]
    BY <1>1, <1>6 DEF part
  <2> QED
    BY <1>5, <2>1, SMT DEF Functions
<1>8. answering'[s] = Nobody \/ (answering'[s] = r /\ framing = "counted")
  BY <1>1, <1>6 DEF Functions
<1>9. parser' = parser /\ carried' = carried
  BY <1>1 DEF clientVars
<1>10. HeadSent(s, r)'
  BY <1>5, <1>6, <1>7, <1>8, <1>9 DEF HeadSent
<1>11. Exchange(s, r)'
  BY <1>4, <1>9, <1>10 DEF Exchange
<1>12. \A t \in Streams : t # s => /\ wire'[t] = wire[t] /\ pending'[t] = pending[t]
                                   /\ answering'[t] = answering[t]
  BY <1>1 DEF Functions
<1> QED
  BY <1>1, <1>2, <1>3, <1>11, <1>12, ServerStep

LEMMA Joins ==
  ASSUME NEW a, NEW b
  PROVE  << >> \o << b >> = << b >> /\ << a >> \o << b >> = << a, b >>
<1> DEFINE q == << a >> \o << b >>
<1>1. q \in Seq({a, b}) /\ Len(q) = 2 /\ q[1] = a /\ q[2] = b
  BY SMT
<1> DEFINE p == << >> \o << b >>
<1>2. p \in Seq({b}) /\ Len(p) = 1 /\ p[1] = b
  BY SMT
<1> HIDE DEF p, q
<1>3. q = << a, b >>
  BY <1>1, SMT
<1>4. p = << b >>
  BY <1>2, SMT
<1> QED
  BY <1>3, <1>4 DEF p, q

LEMMA ServerEndsAnswers ==
  ASSUME PoolInv, CarriedInv, Functions, AnswerInv, ~surplus, NEW s \in Streams,
         ServerEnds(s)
  PROVE  AnswerInv'
<1>1. /\ answering[s] # Nobody /\ s \in Open
      /\ wire' = [wire EXCEPT ![s] = @ \o << EndOf(answering[s]) >>]
      /\ answering' = [answering EXCEPT ![s] = Nobody]
      /\ answered' = answered \cup {answering[s]}
      /\ UNCHANGED << clientVars, carried, pending, eof, surplus >>
  BY Zenon DEF ServerEnds, Sends, EndOf
<1>2. ~Quiet(s)
  BY <1>1 DEF Quiet
<1>3. PICK r \in Requests : s = stream /\ r = request /\ Exchange(s, r)
  BY <1>1, <1>2, BusyIsInHand
<1>4. r \in carried[s] /\ (HeadSent(s, r) \/ HeadRead(s, r))
  BY <1>1, <1>2, <1>3 DEF Exchange, Asked, AllSent, EndSent
<1>5. answering[s] = r
  BY <1>1, <1>4 DEF HeadSent, HeadRead
<1> DEFINE end == EndOf(r)
<1> HIDE DEF end
<1>6. wire'[s] = wire[s] \o << end >> /\ answering'[s] = Nobody
  BY <1>1, <1>5 DEF Functions, end
<1>7. r \in answered' /\ parser' = parser /\ carried' = carried /\ pending' = pending
  BY <1>1, <1>5 DEF clientVars
<1>8. ASSUME HeadSent(s, r) PROVE Exchange(s, r)'
  <2>1. PICK close \in BOOLEAN : wire[s] = << Part(r, "head", "counted", close) >>
    BY <1>1, <1>5, <1>8 DEF HeadSent
  <2> DEFINE head == Part(r, "head", "counted", close)
  <2> HIDE DEF head
  <2>2. wire'[s] = << head, end >>
    <3>1. wire[s] = << head >>
      BY <2>1 DEF head
    <3> QED
      BY <1>6, <3>1, Joins
  <2>3. pending[s] = << >> /\ parser.state = "start"
    BY <1>8 DEF HeadSent
  <2>4. AllSent(s, r)'
    BY <1>6, <1>7, <2>2, <2>3 DEF AllSent, head, end
  <2> QED
    BY <1>4, <1>7, <2>4 DEF Exchange
<1>9. ASSUME HeadRead(s, r) PROVE Exchange(s, r)'
  <2>1. /\ wire[s] = << >> /\ pending[s] = << >>
        /\ parser.request = r /\ parser.state = "counted"
    BY <1>1, <1>9 DEF HeadRead
  <2>2. wire'[s] = << end >>
    BY <1>6, <2>1, Joins
  <2>3. EndSent(s, r)'
    BY <1>6, <1>7, <2>1, <2>2 DEF EndSent, end
  <2> QED
    BY <1>4, <1>7, <2>3 DEF Exchange
<1>10. Exchange(s, r)'
  BY <1>4, <1>8, <1>9
<1>11. \A t \in Streams : t # s => /\ wire'[t] = wire[t] /\ pending'[t] = pending[t]
                                   /\ answering'[t] = answering[t]
  BY <1>1 DEF Functions
<1> QED
  BY <1>1, <1>2, <1>3, <1>10, <1>11, ServerStep

LEMMA ServerClosesAnswers ==
  ASSUME PoolInv, CarriedInv, Functions, AnswerInv, ~surplus, NEW s \in Streams,
         ServerCloses(s)
  PROVE  AnswerInv'
<1>1. /\ pending' = [pending EXCEPT ![s] = << >>]
      /\ answering' = [answering EXCEPT ![s] = Nobody]
      /\ UNCHANGED << clientVars, carried, answered, wire, surplus >>
  BY Zenon DEF ServerCloses
<1>2. /\ pending'[s] = << >> /\ answering'[s] = Nobody /\ wire'[s] = wire[s]
      /\ parser' = parser /\ carried' = carried
  BY <1>1 DEF Functions, clientVars
<1>3. Quiet(s) => Quiet(s)'
  BY <1>2 DEF Quiet
<1>4. ASSUME NEW r \in Requests, s = stream, r = request PROVE Exchange(s, r)'
  <2>1. Exchange(s, r)
    BY <1>4 DEF AnswerInv
  <2>2. CASE Quiet(s) /\ parser.state = "start"
    BY <1>2, <1>3, <2>2 DEF Exchange
  <2>3. CASE Asked(s, r)
    BY <1>2, <2>3 DEF Asked, Quiet, Exchange
  <2>4. HeadSent(s, r) => HeadSent(s, r)'
    BY <1>2 DEF HeadSent
  <2>5. AllSent(s, r) => AllSent(s, r)'
    BY <1>1, <1>2 DEF AllSent
  <2>6. HeadRead(s, r) => HeadRead(s, r)'
    BY <1>2 DEF HeadRead
  <2>7. EndSent(s, r) => EndSent(s, r)'
    BY <1>1, <1>2 DEF EndSent
  <2> QED
    BY <1>2, <2>1, <2>2, <2>3, <2>4, <2>5, <2>6, <2>7 DEF Exchange
<1>5. \A t \in Streams : t # s => /\ wire'[t] = wire[t] /\ pending'[t] = pending[t]
                                  /\ answering'[t] = answering[t]
  BY <1>1 DEF Functions
<1> QED
  BY <1>1, <1>3, <1>4, <1>5, ServerStep

LEMMA WritesAnswers ==
  ASSUME PoolInv, CarriedInv, Functions, AnswerInv, ~surplus, Writes
  PROVE  AnswerInv'
<1>1. /\ pc = "write" /\ pc' # "acquire"
      /\ carried' = [carried EXCEPT ![stream] = @ \cup {request}]
      /\ pending' = IF request \in carried[stream] \/ eof[stream] THEN pending
                    ELSE [pending EXCEPT ![stream] = Append(@, request)]
      /\ UNCHANGED << idle, stream, origin, request, parser, outcome, opened,
                      answering, answered, wire, surplus >>
  BY SMT DEF Writes
<1>2. PICK s \in Streams, r \in Requests : s = stream /\ r = request
  BY <1>1, ClientAssumption DEF PoolInv, CarriedInv
<1>3. Exchange(s, r)
  BY <1>2 DEF AnswerInv
<1>4. carried[s] \subseteq carried'[s] /\ r \in carried'[s]
  BY <1>1, <1>2 DEF Functions
<1>5. \A t \in Streams : t # s => pending'[t] = pending[t]
  BY <1>1, <1>2 DEF Functions
<1>6. Exchange(s, r)'
  <2>1. CASE r \in carried[s] \/ eof[s]
    <3>1. pending' = pending
      BY <1>1, <1>2, <2>1
    <3> QED
      BY <1>1, <1>3, <1>4, <3>1, ExchangeKept
  <2>2. CASE ~(r \in carried[s] \/ eof[s])
    <3>1. Quiet(s) /\ parser.state = "start"
      BY <1>3, <2>2 DEF Exchange
    <3>2. pending'[s] = << r >>
      <4>1. pending' = [pending EXCEPT ![s] = Append(@, r)]
        BY <1>1, <1>2, <2>2
      <4>2. pending[s] = << >>
        BY <3>1 DEF Quiet
      <4> QED
        BY <4>1, <4>2, SMT DEF Functions
    <3>3. Asked(s, r)'
      BY <1>1, <3>1, <3>2 DEF Asked, Quiet
    <3> QED
      BY <1>4, <3>3 DEF Exchange
  <2> QED
    BY <2>1, <2>2
<1>7. stream \in DOMAIN opened /\ \A o \in Origins : idle[o] # stream
  BY <1>2, ClientAssumption DEF PoolInv
<1>8. \A t \in Streams : Quiet(t) /\ t # s => Quiet(t)'
  BY <1>1, <1>5, QuietKept
<1>9. \A t \in Streams \ DOMAIN opened' : Quiet(t)'
  BY <1>1, <1>2, <1>7, <1>8 DEF AnswerInv
<1>10. \A o \in Origins, t \in Streams : idle'[o] = t => Quiet(t)'
  BY <1>1, <1>2, <1>7, <1>8 DEF AnswerInv
<1>11. OwnWholeAnswer'
  BY <1>1 DEF AnswerInv, OwnWholeAnswer
<1>12. \A t \in Streams, q \in Requests : t = stream' /\ q = request' => Exchange(t, q)'
  BY <1>1, <1>2, <1>6
<1> QED
  BY <1>1, <1>9, <1>10, <1>11, <1>12 DEF AnswerInv

LEMMA ReadsEofAnswers ==
  ASSUME PoolInv, CarriedInv, AnswerInv, ~surplus, ReadsEof
  PROVE  AnswerInv'
<1> DEFINE result == IF parser.state = "untilClose"
                       THEN Success(parser) ELSE Failure("response")
<1>1. /\ pc = "read" /\ Finish(result, FALSE) /\ UNCHANGED << opened, origin, request >>
      /\ UNCHANGED serverVars
  BY Zenon DEF ReadsEof
<1>2. PICK s \in Streams, r \in Requests : s = stream /\ r = request
  BY <1>1, ClientAssumption DEF PoolInv, CarriedInv
<1>3. Exchange(s, r)
  BY <1>2 DEF AnswerInv
<1>4. parser.state = "untilClose" => parser.request = r
  BY <1>3 DEF Exchange, Asked, HeadSent, AllSent, HeadRead, EndSent
<1>5. result.kind = "ok" => result.answer = request /\ result.framing # "counted"
  <2>1. CASE parser.state = "untilClose"
    BY <1>2, <1>4, <2>1, FailureIs
  <2>2. CASE parser.state # "untilClose"
    BY <2>2, FailureIs
  <2> QED
    BY <2>1, <2>2
<1> HIDE DEF result
<1> QED
  BY <1>1, <1>5, FinishAnswers DEF serverVars

LEMMA SurplusKept == [Next]_vars => surplus' = surplus
<1> SUFFICES ASSUME [Next]_vars PROVE surplus' = surplus
  OBVIOUS
<1>1. ASSUME NEW o \in Origins, Executes(o) PROVE surplus' = surplus
  BY <1>1 DEF Executes, serverVars
<1>2. CASE TakesIdle
  BY <1>2 DEF TakesIdle, serverVars
<1>3. CASE Serializes
  BY <1>3 DEF Serializes, serverVars
<1>4. ASSUME NEW kind \in ConnectErrors, ConnectFails(kind) PROVE surplus' = surplus
  BY <1>4 DEF ConnectFails, serverVars
<1>5. ASSUME NEW kind \in {"connection", "tls", "transport", "timeout"},
             TransportFails(kind)
      PROVE  surplus' = surplus
  BY <1>5 DEF TransportFails, serverVars
<1>6. ASSUME NEW s \in Streams, Connects(s) PROVE surplus' = surplus
  BY <1>6 DEF Connects, serverVars
<1>7. CASE Writes
  BY <1>7 DEF Writes, serverVars
<1>8. ASSUME NEW n \in 1 .. MaxWire, Reads(n) PROVE surplus' = surplus
  BY <1>8 DEF Reads, serverVars
<1>9. CASE ReadsEof
  BY <1>9 DEF ReadsEof, serverVars
<1>10. CASE Closes
  BY <1>10 DEF Closes, serverVars
<1>11. CASE DeadlinePasses
  BY <1>11 DEF DeadlinePasses, serverVars
<1>12. CASE ServerSteps
  BY <1>12, ServersLeave
<1>13. CASE UNCHANGED vars
  BY <1>13 DEF vars, serverVars
<1> QED
  BY <1>1, <1>2, <1>3, <1>4, <1>5, <1>6, <1>7, <1>8, <1>9, <1>10, <1>11, <1>12,
     <1>13, StepCases, Zenon

LEMMA AnswerKept ==
  PoolInv /\ CarriedInv /\ Functions /\ AnswerInv /\ [Next]_vars => AnswerInv'
<1> SUFFICES ASSUME PoolInv, CarriedInv, Functions, AnswerInv, [Next]_vars, ~surplus
             PROVE  AnswerInv'
  BY SurplusKept DEF AnswerInv
<1>a. /\ OwnWholeAnswer
      /\ pc = "acquire" => parser.state = "start"
      /\ \A o \in Origins, s \in Streams : idle[o] = s => Quiet(s)
      /\ \A s \in Streams \ DOMAIN opened : Quiet(s)
  BY DEF AnswerInv
<1>b. /\ stream # NoStream <=> pc \in {"serialize", "write", "read"}
      /\ NoStream \notin Streams /\ origin \in Origins
      /\ DOMAIN idle = Origins
  BY ClientAssumption DEF PoolInv
<1>1. ASSUME NEW o \in Origins, Executes(o) PROVE AnswerInv'
  <2>1. outcome' \in {Failure("closed"), Failure("invalid"), Failure("none")}
    BY <1>1, SMT DEF Executes
  <2>2. outcome'.kind # "ok"
    BY <2>1, FailureIs
  <2>3. pc = "ready" /\ stream' = stream /\ UNCHANGED << idle, opened, serverVars >>
        /\ parser' = NoResponse
    BY <1>1 DEF Executes
  <2>4. parser'.state = "start"
    BY <2>3, Zenon DEF NoResponse
  <2>5. OwnWholeAnswer'
    BY <2>2 DEF OwnWholeAnswer
  <2> QED
    BY <1>b, <2>3, <2>4, <2>5, ClientStep
<1>2. CASE TakesIdle
  <2>1. /\ pc = "acquire" /\ pc' = "serialize" /\ stream' = idle[origin]
        /\ idle' = [idle EXCEPT ![origin] = NoStream]
        /\ UNCHANGED << request, parser, outcome, opened, serverVars >>
    BY <1>2 DEF TakesIdle
  <2>2. \A o \in Origins, s \in Streams : idle'[o] = s => idle[o] = s
    BY <1>b, <2>1
  <2>3. OwnWholeAnswer'
    BY <1>a, <2>1 DEF OwnWholeAnswer, serverVars
  <2>4. \A s \in Streams : s = stream' => parser'.state = "start" /\ Quiet(s)
    BY <1>a, <1>b, <2>1
  <2> QED
    BY <2>1, <2>2, <2>3, <2>4, ClientStep
<1>3. CASE Serializes
  <2>1. CASE pc' = "write" /\ UNCHANGED << idle, stream, outcome >>
    <3>1. UNCHANGED << request, parser, opened, serverVars >>
      BY <1>3 DEF Serializes
    <3>2. OwnWholeAnswer'
      BY <1>a, <2>1, <3>1 DEF OwnWholeAnswer, serverVars
    <3> QED
      BY <2>1, <3>1, <3>2, ClientStep
  <2>2. CASE Finish(Failure("request"), FALSE)
    <3>1. /\ UNCHANGED << opened, origin, request, serverVars >>
          /\ pc \in {"serialize", "write", "read"}
      BY <1>3 DEF Serializes
    <3>2. Failure("request").kind # "ok"
      BY FailureIs
    <3> QED
      BY <2>2, <3>1, <3>2, FinishAnswers DEF serverVars
  <2> QED
    BY <1>3, <2>1, <2>2, Zenon DEF Serializes
<1>4. ASSUME NEW kind \in ConnectErrors, ConnectFails(kind) PROVE AnswerInv'
  <2>1. /\ pc' = "ready" /\ stream' = stream /\ outcome' = Failure(kind) /\ pc = "acquire"
        /\ UNCHANGED << idle, opened, serverVars >>
    BY <1>4 DEF ConnectFails
  <2>2. kind # "ok"
    BY SMT DEF ConnectErrors
  <2>3. OwnWholeAnswer'
    BY <2>1, <2>2, FailureIs DEF OwnWholeAnswer
  <2> QED
    BY <1>b, <2>1, <2>3, ClientStep
<1>5. ASSUME NEW kind \in {"connection", "tls", "transport", "timeout"},
             TransportFails(kind)
      PROVE  AnswerInv'
  <2>1. /\ UNCHANGED << opened, origin, request, serverVars >>
        /\ pc \in {"serialize", "write", "read"} /\ Finish(Failure(kind), FALSE)
    BY <1>5 DEF TransportFails
  <2>2. Failure(kind).kind # "ok"
    BY FailureIs
  <2> QED
    BY <2>1, <2>2, FinishAnswers DEF serverVars
<1>6. ASSUME NEW s \in Streams, Connects(s) PROVE AnswerInv'
  <2>1. /\ pc = "acquire" /\ pc' = "serialize" /\ stream' = s /\ s \notin DOMAIN opened
        /\ opened' = [t \in DOMAIN opened \cup {s} |->
                        IF t = s THEN origin ELSE opened[t]]
        /\ UNCHANGED << idle, request, parser, outcome, serverVars >>
    BY <1>6 DEF Connects
  <2>2. OwnWholeAnswer'
    BY <1>a, <2>1 DEF OwnWholeAnswer, serverVars
  <2>3. DOMAIN opened' = DOMAIN opened \cup {s}
    BY <2>1
  <2> QED
    BY <1>a, <2>1, <2>2, <2>3, ClientStep
<1>7. CASE Writes
  BY <1>7, WritesAnswers
<1>8. ASSUME NEW n \in 1 .. MaxWire, Reads(n) PROVE AnswerInv'
  <2>1. n \in Nat
    BY ClientAssumption
  <2> QED
    BY <1>8, <2>1, ReadAnswers
<1>9. CASE ReadsEof
  BY <1>9, ReadsEofAnswers
<1>10. CASE Closes
  <2>1. /\ idle' = [o \in Origins |-> NoStream]
        /\ UNCHANGED << pc, stream, request, parser, outcome, opened, serverVars >>
    BY <1>10 DEF Closes
  <2>2. OwnWholeAnswer'
    BY <1>a, <2>1 DEF OwnWholeAnswer, serverVars
  <2> QED
    BY <1>a, <1>b, <2>1, <2>2, ClientStep
<1>11. CASE DeadlinePasses
  <2>1. UNCHANGED << idle, pc, stream, request, parser, outcome, opened, serverVars >>
    BY <1>11 DEF DeadlinePasses
  <2>2. OwnWholeAnswer'
    BY <1>a, <2>1 DEF OwnWholeAnswer, serverVars
  <2> QED
    BY <1>a, <2>1, <2>2, ClientStep
<1>12. ASSUME NEW s \in Streams, NEW framing \in Framings, NEW close \in BOOLEAN,
              ServerBegins(s, framing, close)
      PROVE  AnswerInv'
  BY <1>12, ServerBeginsAnswers
<1>13. ASSUME NEW s \in Streams, ServerEnds(s) PROVE AnswerInv'
  BY <1>13, ServerEndsAnswers
<1>14. ASSUME NEW s \in Streams, ServerCloses(s) PROVE AnswerInv'
  BY <1>14, ServerClosesAnswers
<1>15. ASSUME NEW s \in Streams, ServerVolunteers(s) PROVE AnswerInv'
  BY <1>15 DEF ServerVolunteers
<1>16. CASE UNCHANGED vars
  <2>1. UNCHANGED << idle, pc, stream, request, parser, outcome, opened, serverVars >>
    BY <1>16 DEF vars, clientVars
  <2>2. OwnWholeAnswer'
    BY <1>a, <2>1 DEF OwnWholeAnswer, serverVars
  <2> QED
    BY <1>a, <2>1, <2>2, ClientStep
<1> QED
  BY <1>1, <1>2, <1>3, <1>4, <1>5, <1>6, <1>7, <1>8, <1>9, <1>10, <1>11, <1>12,
     <1>13, <1>14, <1>15, <1>16, StepCases, Zenon DEF ServerSteps

-----------------------------------------------------------------------------
\* The inductive invariant.
IInv == PoolInv /\ LostInv /\ CarriedInv /\ Functions /\ AnswerInv

LEMMA InitInv == Init => IInv
<1> SUFFICES ASSUME Init PROVE IInv
  OBVIOUS
<1> USE ClientAssumption
<1>0. opened = << >> /\ DOMAIN opened = {}
  BY SMT DEF Init
<1>1. PoolInv
  <2>1. /\ closed = FALSE /\ origin \in Origins /\ stream = NoStream /\ pc = "ready"
        /\ idle = [o \in Origins |-> NoStream] /\ closes = [s \in Streams |-> 0]
    BY Zenon DEF Init
  <2>2. closes \in [Streams -> 0 .. 1] /\ \A s \in Streams : closes[s] = 0
    BY <2>1, SMT
  <2>3. idle \in [Origins -> Streams \cup {NoStream}]
        /\ \A o \in Origins : idle[o] = NoStream
    BY <2>1, SMT
  <2>4. /\ \A s \in DOMAIN opened : FALSE
        /\ DOMAIN opened \subseteq Streams
    BY <1>0
  <2>5. closed \in BOOLEAN /\ ~closed
    BY <2>1
  <2> QED
    BY <2>1, <2>2, <2>3, <2>4, <2>5, Zenon DEF PoolInv
<1>2. LostInv
  BY <1>0, SMT DEF Init, LostInv, NothingLostInPool
<1>3. CarriedInv
  BY SMT DEF Init, CarriedInv, Requests
<1>4. Functions
  BY SMT DEF Init, Functions
<1>5. AnswerInv
  <2>1. \A s \in Streams : Quiet(s)
    BY SMT DEF Init, Quiet
  <2>2. OwnWholeAnswer
    BY FailureIs DEF Init, OwnWholeAnswer
  <2> QED
    BY <2>1, <2>2 DEF Init, AnswerInv
<1> QED
  BY <1>1, <1>2, <1>3, <1>4, <1>5 DEF IInv

LEMMA Inductive == IInv /\ [Next]_vars => IInv'
  BY PoolKept, LostKept, CarriedKept, FunctionsKept, AnswerKept, Zenon DEF IInv

LEMMA Invariance == Spec => []IInv
  BY InitInv, Inductive, PTL DEF Spec

\* No path through execute() or close() leaks a stream, closes one twice or
\* lends it to another origin.
THEOREM Accounted == Spec => []StreamsAccountedFor
  BY Invariance, PoolIs, PTL DEF IInv

\* A stream of which received bytes were thrown away is never reused.
THEOREM NothingLost == Spec => []NothingLostInPool
  BY Invariance, PTL DEF IInv, LostInv

\* No request is written to two connections.
THEOREM NeverSentTwice == Spec => []SentOnce
  BY Invariance, CarriedIs, PTL DEF IInv

\* Unless a server sends what nobody asked for, the response that execute()
\* returns answers its own request, and is whole when its length is known,
\* whatever happened on the connection before.
THEOREM AnswersOwn == Spec => []OwnWholeAnswer
<1>1. IInv => OwnWholeAnswer
  BY DEF IInv, AnswerInv, OwnWholeAnswer
<1> QED
  BY <1>1, Invariance, PTL

-----------------------------------------------------------------------------
(* The plain TCP transport, in time *)

\* A wait for the peer ends at the deadline, exactly.
WaitInv == phase \in Waits \ {"resolving"} => until = Timeout /\ now <= Timeout

\* An address that timed out has used up the time, or was given up.
LastErrorInv == last_error = "timeout" => now >= Timeout \/ system = "impatient"

\* There are no addresses before the resolver has returned some.
ResolverInv == phase \in {"start", "resolving"} => addresses = 0

\* There is no verdict before the end.
OutcomeInv == phase # "done" => verdict = "none"

TcpInv ==
  /\ TcpTypeOK /\ OneDeadline /\ TimeoutMeansTime /\ EveryAddressTried
  /\ WaitInv /\ LastErrorInv /\ ResolverInv /\ OutcomeInv

LEMMA TcpInitInv == TcpInit => TcpInv
  BY TimesAssumption, SMT
  DEF TcpInit, TcpInv, TcpTypeOK, OneDeadline, TimeoutMeansTime, EveryAddressTried,
      WaitInv, LastErrorInv, ResolverInv, OutcomeInv, Phases, Waits, Outcomes

\* Every step preserves the invariant.
THEOREM TcpInductive == TcpInv /\ [TcpNext]_tcpVars => TcpInv'
  <1> SUFFICES ASSUME TcpInv, [TcpNext]_tcpVars PROVE TcpInv'
    OBVIOUS
  <1> USE TimesAssumption
  <1> USE DEF TcpInv, TcpTypeOK, OneDeadline, TimeoutMeansTime, EveryAddressTried,
              WaitInv, LastErrorInv, ResolverInv, OutcomeInv, Phases, Waits, Outcomes
  <1>1. CASE Tick
    BY <1>1, SMT DEF Tick
  <1>2. CASE Resolve
    BY <1>2, SMT DEF Resolve
  <1>3. CASE Resolved
    BY <1>3, SMT DEF Resolved, Ends
  <1>4. CASE NextAddress
    BY <1>4, SMT DEF NextAddress, Ends
  <1>5. CASE NoAddressLeft
    BY <1>5, SMT DEF NoAddressLeft, Ends
  <1>6. CASE AddressRefuses
    BY <1>6, SMT DEF AddressRefuses
  <1>7. CASE AddressTimesOut
    BY <1>7, SMT DEF AddressTimesOut
  <1>8. CASE Connected
    BY <1>8, SMT DEF Connected
  <1>9. CASE Operates
    BY <1>9, SMT DEF Operates, Ends
  <1>10. CASE Written
    BY <1>10, SMT DEF Written, Ends
  <1>11. CASE ReadReturns
    BY <1>11, SMT DEF ReadReturns, Ends
  <1>12. CASE OperationFails
    BY <1>12, SMT DEF OperationFails, Ends
  <1>13. CASE OperationTimesOut
    BY <1>13, SMT DEF OperationTimesOut, Ends
  <1>14. CASE UNCHANGED tcpVars
    BY <1>14, SMT DEF tcpVars
  <1> QED
    BY <1>1, <1>2, <1>3, <1>4, <1>5, <1>6, <1>7, <1>8, <1>9, <1>10, <1>11, <1>12,
       <1>13, <1>14 DEF TcpNext

LEMMA TcpInvariance == TcpSpec => []TcpInv
  BY TcpInitInv, TcpInductive, PTL DEF TcpSpec

\* The types hold, and no socket is open when the request is done.
THEOREM TcpTypeCorrect == TcpSpec => []TcpTypeOK
  BY TcpInvariance, PTL DEF TcpInv

\* One timeout covers all the addresses and every read and write.
THEOREM DeadlineHolds == TcpSpec => []OneDeadline
  BY TcpInvariance, PTL DEF TcpInv

\* A timeout is reported after the deadline, or when the system gave up.
THEOREM TimeoutIsLate == TcpSpec => []TimeoutMeansTime
  BY TcpInvariance, PTL DEF TcpInv

\* A connection is refused when no address is left.
THEOREM AddressesTried == TcpSpec => []EveryAddressTried
  BY TcpInvariance, PTL DEF TcpInv

=============================================================================
