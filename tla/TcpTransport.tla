----------------------------- MODULE TcpTransport -----------------------------
(***************************************************************************)
(* One request over a new plain TCP connection, in time: TcpConnector and  *)
(* TcpTransport (tcp.rs) as execute() and exchange() use them under one    *)
(* Deadline.  Http1Client has the pool and the protocol, without clocks.   *)
(*                                                                         *)
(* Time passes where the code waits: in the resolver, in a connection      *)
(* attempt, in a write and in a read.  The request begins at time zero.    *)
(***************************************************************************)
EXTENDS Naturals

CONSTANTS Timeout,       \* the timeout of the request
          MaxAddresses,  \* bound: addresses the resolver returns
          ResolverTime,  \* the resolver's own limit
          Pieces         \* bound: writes that the request takes

ASSUME TimesAssumption ==
  /\ Timeout \in Nat \ {0} /\ MaxAddresses \in Nat
  /\ ResolverTime \in Nat /\ Pieces \in Nat \ {0}

VARIABLES
  now,         \* milliseconds since the request began
  resolved,    \* the time at which the resolver was done
  phase,       \* where the request is
  until,       \* the end of the wait in hand
  addresses,   \* addresses not tried yet
  last_error,  \* of the addresses tried: "none", "timeout" or "other"
  socket,      \* "none", "open" or "left": closed, or given to the pool
  unsent,      \* pieces of the request
  system,      \* "patient", or "impatient": it gave up a wait before its end
  verdict      \* the kind of the ClientError, or "response"

tcpVars == << now, resolved, phase, until, addresses, last_error, socket, unsent,
           system, verdict >>

Waits == {"resolving", "connecting", "writing", "reading"}
Phases == Waits \cup {"start", "trying", "exchanging", "done"}
Outcomes == {"connection", "timeout", "transport", "malformed", "response"}

TcpInit ==
  /\ now = 0 /\ resolved = 0 /\ phase = "start" /\ until = 0
  /\ addresses = 0 /\ last_error = "none"
  /\ socket = "none" /\ unsent = 0
  /\ system = "patient" /\ verdict = "none"

\* One more millisecond of the wait in hand.
Tick ==
  /\ phase \in Waits /\ now < until
  /\ now' = now + 1
  /\ UNCHANGED << resolved, phase, until, addresses, last_error, socket, unsent,
                  system, verdict >>

\* execute() returns.  Its socket is closed, or goes back to the pool, which
\* Http1Client is about.
Ends(kind) ==
  /\ phase' = "done" /\ verdict' = kind
  /\ socket' = IF socket = "open" THEN "left" ELSE socket

-----------------------------------------------------------------------------
(* TcpConnector::connect() *)

Resolve ==
  /\ phase = "start"
  /\ phase' = "resolving" /\ until' = ResolverTime
  /\ UNCHANGED << now, resolved, addresses, last_error, socket, unsent, system,
                  verdict >>

Resolved ==
  /\ phase = "resolving"
  /\ resolved' = now
  /\ \/ /\ addresses' \in 0 .. MaxAddresses
        /\ phase' = "trying"
        /\ UNCHANGED << socket, verdict >>
     \/ Ends("connection") /\ UNCHANGED addresses
  /\ UNCHANGED << now, until, last_error, unsent, system >>

\* Mutant: every address gets the whole timeout.
NextAddressAfresh ==
  /\ phase = "trying" /\ addresses > 0
  /\ IF now >= Timeout
       THEN Ends("timeout") /\ UNCHANGED << addresses, until >>
       ELSE /\ phase' = "connecting"
            /\ addresses' = addresses - 1
            /\ until' = now + Timeout
            /\ UNCHANGED << socket, verdict >>
  /\ UNCHANGED << now, resolved, last_error, unsent, system >>

\* The next address gets what is left of the timeout, if anything is.
NextAddress ==
  /\ phase = "trying" /\ addresses > 0
  /\ IF now >= Timeout
       THEN Ends("timeout") /\ UNCHANGED << addresses, until >>
       ELSE /\ phase' = "connecting"
            /\ addresses' = addresses - 1
            /\ until' = Timeout
            /\ UNCHANGED << socket, verdict >>
  /\ UNCHANGED << now, resolved, last_error, unsent, system >>

\* The last address decides what kind of error it is.
NoAddressLeft ==
  /\ phase = "trying" /\ addresses = 0
  /\ Ends(IF last_error = "timeout" THEN "timeout" ELSE "connection")
  /\ UNCHANGED << now, resolved, until, addresses, last_error, unsent, system >>

AddressRefuses ==
  /\ phase = "connecting"
  /\ phase' = "trying" /\ last_error' = "other"
  /\ UNCHANGED << now, resolved, until, addresses, socket, unsent, system, verdict >>

\* The wait is over, or the operating system ends it earlier.
AddressTimesOut ==
  /\ phase = "connecting"
  /\ phase' = "trying" /\ last_error' = "timeout"
  /\ system' = IF now < until THEN "impatient" ELSE system
  /\ UNCHANGED << now, resolved, until, addresses, socket, unsent, verdict >>

\* set_nodelay() may fail; the other addresses are not tried then.
Connected ==
  /\ phase = "connecting"
  /\ \/ /\ phase' = "exchanging" /\ socket' = "open"
        /\ unsent' \in 1 .. Pieces
        /\ UNCHANGED verdict
     \/ /\ phase' = "done" /\ socket' = "left" /\ verdict' = "connection"
        /\ UNCHANGED unsent
  /\ UNCHANGED << now, resolved, until, addresses, last_error, system >>

-----------------------------------------------------------------------------
(* exchange() *)

\* Mutant: an operation begins without a look at the deadline.
OperatesUnchecked ==
  /\ phase = "exchanging"
  /\ phase' = IF unsent > 0 THEN "writing" ELSE "reading"
  /\ until' = IF now < Timeout THEN Timeout ELSE now
  /\ UNCHANGED << now, resolved, addresses, last_error, socket, unsent, system,
                  verdict >>

\* The next write or read, if the deadline has not passed.
Operates ==
  /\ phase = "exchanging"
  /\ IF now >= Timeout
       THEN Ends("timeout") /\ UNCHANGED until
       ELSE /\ phase' = IF unsent > 0 THEN "writing" ELSE "reading"
            /\ until' = Timeout
            /\ UNCHANGED << socket, verdict >>
  /\ UNCHANGED << now, resolved, addresses, last_error, unsent, system >>

\* A write takes some of what is left; none at all is an error.
Written ==
  /\ phase = "writing"
  /\ \/ /\ unsent' \in 0 .. unsent - 1
        /\ phase' = "exchanging"
        /\ UNCHANGED << socket, verdict >>
     \/ Ends("transport") /\ UNCHANGED unsent
  /\ UNCHANGED << now, resolved, until, addresses, last_error, system >>

\* Bytes, or the end of the stream, which ends the response or cuts it off.
ReadReturns ==
  /\ phase = "reading"
  /\ \/ phase' = "exchanging" /\ UNCHANGED << socket, verdict >>
     \/ Ends("response")
     \/ Ends("malformed")
  /\ UNCHANGED << now, resolved, until, addresses, last_error, unsent, system >>

OperationFails ==
  /\ phase \in {"writing", "reading"}
  /\ Ends("connection")
  /\ UNCHANGED << now, resolved, until, addresses, last_error, unsent, system >>

OperationTimesOut ==
  /\ phase \in {"writing", "reading"}
  /\ Ends("timeout")
  /\ system' = IF now < until THEN "impatient" ELSE system
  /\ UNCHANGED << now, resolved, until, addresses, last_error, unsent >>

-----------------------------------------------------------------------------
TcpNext ==
  \/ Tick
  \/ Resolve \/ Resolved \/ NextAddress \/ NoAddressLeft
  \/ AddressRefuses \/ AddressTimesOut \/ Connected
  \/ Operates \/ Written \/ ReadReturns \/ OperationFails \/ OperationTimesOut

\* What the code does when it does not wait, or when its wait is over.
GoesOn ==
  \/ Resolve \/ NextAddress \/ NoAddressLeft \/ Operates
  \/ now >= until /\ (Resolved \/ AddressTimesOut \/ OperationTimesOut)

\* Time goes by, however often a peer lets the code do something, and the code
\* goes on.  Nothing is asked of the peer.
Fairness == SF_tcpVars(Tick) /\ WF_tcpVars(GoesOn)

TcpSpec == TcpInit /\ [][TcpNext]_tcpVars /\ Fairness

-----------------------------------------------------------------------------
(* Properties *)

\* The types, and which phases hold a socket: none is open at the end.
TcpTypeOK ==
  /\ now \in Nat /\ resolved \in Nat /\ until \in Nat
  /\ phase \in Phases
  /\ addresses \in 0 .. MaxAddresses
  /\ last_error \in {"none", "timeout", "other"}
  /\ socket \in {"none", "open", "left"}
  /\ phase \in {"start", "resolving", "trying", "connecting"} => socket = "none"
  /\ phase \in {"exchanging", "writing", "reading"} => socket = "open"
  /\ phase = "done" => socket # "open"
  /\ unsent \in 0 .. Pieces
  /\ system \in {"patient", "impatient"}
  /\ verdict \in Outcomes \cup {"none"}

\* Unlike the connector for HTTPS, this one fits all its waits into the one
\* timeout of the request, however many addresses there are: only the resolver
\* may outlast it, and then nothing else begins.
OneDeadline ==
  /\ phase \in Waits \ {"resolving"} => now <= Timeout /\ until <= Timeout
  /\ phase \notin {"start", "resolving"}
       => now <= IF resolved > Timeout THEN resolved ELSE Timeout

\* Nothing is reported as a timeout before the deadline, unless the operating
\* system gave up first.
TimeoutMeansTime == verdict = "timeout" => now >= Timeout \/ system = "impatient"

\* A connection is only refused when every address of the peer has been tried.
EveryAddressTried ==
  verdict = "connection" /\ socket = "none" => addresses = 0

\* A request ends, also when its peer says nothing, or one byte at a time.
RequestEnds == <>(phase = "done")

=============================================================================
