---------------------------- MODULE NssConnection ----------------------------
(***************************************************************************)
(* One HTTPS connection, from the connector to its last close:             *)
(* NssConnector::connect (transport.rs), Connection (tls/mod.rs) and the C *)
(* shim under it (connection.c, socket_posix.c), as execute() drives it    *)
(* under the deadline of one request.                                      *)
(*                                                                         *)
(* Time passes where the code waits: in the resolver, in poll() for a TCP  *)
(* connection, and in PR_Poll().  The request begins at time zero.         *)
(***************************************************************************)
EXTENDS Naturals

CONSTANTS Timeout,       \* the timeout of the request
          MaxAddresses,  \* bound: addresses the resolver returns
          ResolverTime   \* the resolver's own limit

ASSUME TimesAssumption ==
  Timeout \in Nat \ {0} /\ MaxAddresses \in Nat /\ ResolverTime \in Nat

VARIABLES
  now,         \* milliseconds since the request began
  phase,       \* where the connection is
  until,       \* the end of the wait in hand
  addresses,   \* addresses not tried yet
  insecure,    \* verification_mode is INSECURE_TEST_ONLY
  descriptor,  \* what owns the operating system's socket
  releases,    \* how often that socket has been closed
  shut,        \* Connection.closed of the Rust wrapper
  trouble,     \* what really went wrong in the handshake
  protocol,    \* the protocol that the peer has chosen
  outcome      \* the error of the connector or of the exchange

connectionVars == << now, phase, until, addresses, insecure, descriptor,
                     releases, shut, trouble, protocol, outcome >>

Waits == {"resolving", "connecting", "handshaking", "waiting"}
Phases == Waits \cup {"start", "importing", "configuring", "inspecting",
                      "exchanging", "closing", "dropping", "gone"}
Descriptors == {"none", "socket", "transport", "fd"}
Errors == {"io", "tls", "certificate", "timeout", "response"}
Troubles == {"none", "chain", "reset", "alert", "stalled", "poll"}

ConnectionInit ==
  /\ now = 0 /\ phase = "start" /\ until = 0
  /\ addresses = 0
  /\ insecure \in BOOLEAN
  /\ descriptor = "none" /\ releases = 0 /\ shut = FALSE
  /\ trouble = "none" /\ protocol = "unknown"
  /\ outcome = "none"

\* One more millisecond of the wait in hand.
Tick ==
  /\ phase \in Waits
  /\ now < until
  /\ now' = now + 1
  /\ UNCHANGED << phase, until, addresses, insecure, descriptor, releases,
                  shut, trouble, protocol, outcome >>

\* close(), PR_Close() and the like: whatever owns the socket gives it back.
Release ==
  /\ releases' = IF descriptor = "none" THEN releases ELSE releases + 1
  /\ descriptor' = "none"

\* The connector returns an error: nothing is left of the attempt.
Fails(kind) ==
  /\ phase' = "gone"
  /\ outcome' = kind
  /\ Release
  /\ UNCHANGED shut

-----------------------------------------------------------------------------
(* foxreq_nss_connect(): TCP *)

Resolve ==
  /\ phase = "start"
  /\ phase' = "resolving"
  /\ until' = ResolverTime
  /\ UNCHANGED << now, addresses, insecure, descriptor, releases, shut,
                  trouble, protocol, outcome >>

\* The wait for an address gets the whole timeout of the call.
TryAddress(left) ==
  /\ phase' = "connecting"
  /\ addresses' = left
  /\ until' = now + Timeout
  /\ UNCHANGED << descriptor, releases, shut, outcome >>

Resolved ==
  /\ phase = "resolving"
  /\ \/ \E n \in 1 .. MaxAddresses : TryAddress(n - 1)
     \/ Fails("io") /\ UNCHANGED << until, addresses >>
  /\ UNCHANGED << now, insecure, trouble, protocol >>

\* Mutant: an address that failed is tried again.
AddressFailsRetrying ==
  /\ phase = "connecting"
  /\ \/ TryAddress(addresses)
     \/ addresses = 0 /\ Fails("io") /\ UNCHANGED << until, addresses >>
  /\ UNCHANGED << now, insecure, trouble, protocol >>

\* A refusal, or the end of the wait; either is an I/O error once no address
\* is left.
AddressFails ==
  /\ phase = "connecting"
  /\ \/ addresses > 0 /\ TryAddress(addresses - 1)
     \/ addresses = 0 /\ Fails("io") /\ UNCHANGED << until, addresses >>
  /\ UNCHANGED << now, insecure, trouble, protocol >>

Connected ==
  /\ phase = "connecting"
  /\ phase' = "importing"
  /\ descriptor' = "socket"
  /\ UNCHANGED << now, until, addresses, insecure, releases, shut, trouble,
                  protocol, outcome >>

-----------------------------------------------------------------------------
(* foxreq_nss_connect(): NSPR, NSS and the handshake *)

\* PR_ImportTCPSocket and SSL_ImportFD pass the socket on; a failure closes
\* it through its present owner.
Imports ==
  /\ phase = "importing"
  /\ \/ /\ descriptor = "socket"
        /\ \/ descriptor' = "transport" /\ UNCHANGED << phase, releases, shut, outcome >>
           \/ Fails("io")
     \/ /\ descriptor = "transport"
        /\ \/ /\ descriptor' = "fd" /\ phase' = "configuring"
              /\ UNCHANGED << releases, shut, outcome >>
           \/ \E kind \in {"io", "tls"} : Fails(kind)
  /\ UNCHANGED << now, until, addresses, insecure, trouble, protocol >>

\* The profile is configured, and the handshake gets a whole timeout again.
Configures ==
  /\ phase = "configuring"
  /\ \/ /\ phase' = "handshaking"
        /\ until' = now + Timeout
        /\ UNCHANGED << descriptor, releases, shut, outcome >>
     \/ Fails("tls") /\ UNCHANGED until
  /\ UNCHANGED << now, addresses, insecure, trouble, protocol >>

Handshakes ==
  /\ phase = "handshaking"
  /\ phase' = "inspecting"
  /\ protocol' \in {"http/1.1", "other"}
  /\ UNCHANGED << now, until, addresses, insecure, descriptor, releases, shut,
                  trouble, outcome >>

\* In the default mode every error of SSL_ForceHandshake() is taken for the
\* chain's.  Without validation a connection the kernel has given up is a
\* timeout.  A failure of the wait itself is a TLS error in both modes.
HandshakeError(why) ==
  CASE why = "poll"                   -> "tls"
    [] why # "poll" /\ ~insecure      -> "certificate"
    [] why = "stalled" /\ insecure    -> "timeout"
    [] OTHER                          -> "tls"

\* The peer's chain is only validated in the default mode.
HandshakeFails(why) ==
  /\ phase = "handshaking"
  /\ insecure => why # "chain"
  /\ trouble' = why
  /\ Fails(HandshakeError(why))
  /\ UNCHANGED << now, until, addresses, insecure, protocol >>

\* Mutant: the wait looks at its deadline only once that has been passed.
HandshakeTimesOutLate ==
  /\ phase = "handshaking"
  /\ now > until
  /\ Fails("timeout")
  /\ UNCHANGED << now, until, addresses, insecure, trouble, protocol >>

HandshakeTimesOut ==
  /\ phase = "handshaking"
  /\ now >= until
  /\ Fails("timeout")
  /\ UNCHANGED << now, until, addresses, insecure, trouble, protocol >>

\* NssConnector::connect(): a peer that did not choose HTTP/1.1 is closed
\* again; one whose choice cannot be told is only dropped.  (The shim has
\* recorded a validated chain of every handshake that succeeds in the default
\* mode, so that the connector's own look at it never fails.)
Inspects ==
  /\ phase = "inspecting"
  /\ \/ /\ protocol = "http/1.1"
        /\ phase' = "exchanging"
        /\ UNCHANGED outcome
     \/ /\ protocol # "http/1.1"
        /\ phase' \in {"closing", "dropping"} /\ outcome' = "tls"
  /\ UNCHANGED << now, until, addresses, insecure, descriptor, releases, shut,
                  trouble, protocol >>

-----------------------------------------------------------------------------
(* The exchange: read() and write() with what remains of the deadline *)

\* Mutant: every operation gets the whole timeout.
OperatesAfresh ==
  /\ phase = "exchanging"
  /\ phase' = "waiting" /\ until' = now + Timeout
  /\ UNCHANGED << now, addresses, insecure, descriptor, releases, shut,
                  trouble, protocol, outcome >>

Operates ==
  /\ phase = "exchanging"
  /\ \/ /\ now < Timeout
        /\ phase' = "waiting" /\ until' = Timeout
        /\ UNCHANGED outcome
     \/ /\ now >= Timeout
        /\ phase' = "closing" /\ outcome' = "timeout"
        /\ UNCHANGED until
  /\ UNCHANGED << now, addresses, insecure, descriptor, releases, shut,
                  trouble, protocol >>

\* Bytes have been moved, the peer or the network failed, or time is up.
OperationEnds ==
  /\ phase = "waiting"
  /\ \/ phase' = "exchanging" /\ UNCHANGED outcome
     \/ phase' = "closing" /\ outcome' = "io"
     \/ now >= until /\ phase' = "closing" /\ outcome' = "timeout"
  /\ UNCHANGED << now, until, addresses, insecure, descriptor, releases, shut,
                  trouble, protocol >>

\* The response is complete, or is none; the stream has been used for the last
\* time.
ExchangeEnds ==
  /\ phase = "exchanging"
  /\ phase' = "closing"
  /\ outcome' \in {"none", "response"}
  /\ UNCHANGED << now, until, addresses, insecure, descriptor, releases, shut,
                  trouble, protocol >>

-----------------------------------------------------------------------------
(* Connection::close() and drop() *)

\* Mutant: a failed PR_Close leaves the descriptor in place.
ClosesRetaining ==
  /\ phase = "closing"
  /\ phase' = "dropping"
  /\ releases' = releases + 1
  /\ \/ descriptor' = "none" /\ shut' = TRUE
     \/ UNCHANGED << descriptor, shut >>
  /\ UNCHANGED << now, until, addresses, insecure, trouble, protocol, outcome >>

\* PR_Close succeeds or fails; either way the shim gives the descriptor up.
Closes ==
  /\ phase = "closing"
  /\ phase' = "dropping"
  /\ \E ok \in BOOLEAN : shut' = ok
  /\ Release
  /\ UNCHANGED << now, until, addresses, insecure, trouble, protocol, outcome >>

\* The wrapper closes once more unless its close succeeded, which the shim
\* refuses, and then frees the connection.
Drops ==
  /\ phase = "dropping"
  /\ phase' = "gone"
  /\ Release
  /\ UNCHANGED << now, until, addresses, insecure, shut, trouble, protocol, outcome >>

-----------------------------------------------------------------------------
Steps ==
  \/ Resolve \/ Resolved
  \/ AddressFails \/ Connected
  \/ Imports \/ Configures
  \/ Handshakes \/ HandshakeTimesOut
  \/ \E why \in Troubles \ {"none"} : HandshakeFails(why)
  \/ Inspects
  \/ Operates \/ OperationEnds \/ ExchangeEnds
  \/ Closes \/ Drops

ConnectionNext == Tick \/ Steps

\* What the code does when it does not wait, or when its wait is over.
Ends ==
  \/ Resolve \/ (now >= until /\ (Resolved \/ AddressFails \/ OperationEnds))
  \/ Imports \/ Configures \/ HandshakeTimesOut \/ Inspects
  \/ Operates \/ Closes \/ Drops

\* Time goes by, however often the peer lets the code do something, and the
\* code goes on.  Nothing is asked of the peer.
ConnectionFairness == SF_connectionVars(Tick) /\ WF_connectionVars(Ends)

ConnectionSpec ==
  ConnectionInit /\ [][ConnectionNext]_connectionVars /\ ConnectionFairness

-----------------------------------------------------------------------------
(* Properties *)

ConnectionTypeOK ==
  /\ now \in Nat /\ until \in Nat
  /\ phase \in Phases
  /\ addresses \in 0 .. MaxAddresses
  /\ insecure \in BOOLEAN /\ shut \in BOOLEAN
  /\ descriptor \in Descriptors
  /\ phase \in {"start", "resolving", "connecting", "gone"} => descriptor = "none"
  /\ phase \in {"configuring", "handshaking", "inspecting", "exchanging",
                "waiting", "closing"} => descriptor = "fd"
  /\ releases \in 0 .. 1
  /\ trouble \in Troubles
  /\ protocol \in {"unknown", "http/1.1", "other"}
  /\ outcome \in Errors \cup {"none"}

\* The socket of a connection is closed once, whatever owns it when an attempt
\* fails and whether or not PR_Close succeeds, and it is closed in the end.
ReleasedOnce ==
  /\ releases <= 1
  /\ phase = "gone" => descriptor = "none"
  /\ descriptor # "none" => releases = 0

\* What connecting may take: the resolver, the whole timeout for every address
\* and once more for the handshake.
ConnectIsBounded == now <= ResolverTime + (MaxAddresses + 1) * Timeout

\* A read or write of the exchange does not outlast the request's deadline,
\* and none begins after it.
ExchangeInTime == phase = "waiting" => now <= Timeout /\ until <= Timeout

\* A connection is given up in the end, also when its peer says nothing.
ConnectionEnds == <>(phase = "gone")

\* docs/multi-profile-http-design.md:183 says that the deadline of a request
\* includes the time of DNS, TCP, TLS, writing and reading.
DeadlineCoversConnect == now <= Timeout

=============================================================================
