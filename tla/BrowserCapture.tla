---------------------------- MODULE BrowserCapture ----------------------------
(***************************************************************************)
(* One capture suite: scripts/capture/capture_firefox.py (and the foxreq   *)
(* counterpart, capture_foxreq.py) drives client processes against the     *)
(* loopback TLS fixture of tests/fixtures/tls_capture_server.py, which     *)
(* runs in a thread of its own and writes one record per handshake.        *)
(*                                                                         *)
(* Three kinds of actor run side by side: the main thread, the server      *)
(* thread and the clients.  Every wait of the code is bounded by a timeout *)
(* which may strike whenever what is waited for is not there; how long the *)
(* timeouts are, compared with each other, is abstracted away.             *)
(***************************************************************************)
EXTENDS FingerprintEvidence

CONSTANTS Count,      \* handshakes of the suite
          Attempts,   \* launch_attempts
          MaxBacklog  \* connections that wait to be accepted (bound)

ASSUME CountAssumption == Count \in Nat \ {0} /\ Attempts \in 1 .. 3

VARIABLES mode,      \* "cold" or "resumed"
          client,    \* "firefox" or "foxreq"
          \* the server thread
          srv,       \* where it is
          sequence, completed, stop,
          current,   \* the connection it serves
          backlog,   \* connections not accepted yet
          records,   \* the lines of the raw capture
          \* the client processes, by the number of their launch
          running,
          wants,     \* clients about to open their next connection
          served,    \* foxreq clients that have had their last answer
          survivors, \* clients that outlived kill() and the wait after it
          profiles,  \* launches whose profile directory exists
          left,      \* those of them that could not be removed
          \* the main thread
          stage, step, attempt, launch,
          outcome,   \* of the launch: "captured" or "timed_out"
          failure    \* "none", "error" or "interrupt"

server == << srv, sequence, completed, current, records >>
clients == << running, wants, served, backlog >>
directories == << profiles, left >>
progress == << step, attempt, launch, stop, failure >>
captureVars == << mode, client, server, clients, directories, progress, stage,
                  outcome, survivors >>

Launches == 1 .. Count * Attempts
Connections == [by : Launches, kind : {"request", "silent"}]
Nobody == [by |-> 1, kind |-> "silent"]

Ended == stage \in {"returned", "raised"}
ServerEnded == srv \in {"done", "failed"}

CaptureTypeOK ==
  /\ mode \in {"cold", "resumed"} /\ client \in {"firefox", "foxreq"}
  /\ srv \in {"starting", "top", "accept", "hello", "request", "answer", "done", "failed"}
  /\ sequence \in 1 .. Count + 1 /\ completed \in 0 .. Count /\ stop \in BOOLEAN
  /\ current \in Connections /\ backlog \in Seq(Connections)
  /\ records \in Seq([by : Launches, label : {"cold", "resumed"}])
  /\ running \subseteq Launches /\ wants \subseteq Launches /\ served \subseteq Launches
  /\ survivors \subseteq Launches /\ profiles \subseteq Launches /\ left \subseteq Launches
  /\ stage \in {"start", "prepare", "launch", "wait", "end", "cleanup", "join",
                "returned", "raised"}
  /\ step \in 1 .. Count /\ attempt \in 1 .. Attempts /\ launch \in Launches
  /\ outcome \in {"none", "captured", "timed_out"}
  /\ failure \in {"none", "error", "interrupt"}

CaptureInit ==
  /\ mode \in {"cold", "resumed"} /\ client \in {"firefox", "foxreq"}
  /\ srv = "starting" /\ sequence = 1 /\ completed = 0 /\ stop = FALSE
  /\ current = Nobody /\ backlog = << >> /\ records = << >>
  /\ running = {} /\ wants = {} /\ served = {} /\ survivors = {}
  /\ profiles = {} /\ left = {}
  /\ stage = "start" /\ step = 1 /\ attempt = 1 /\ launch = 1
  /\ outcome = "none" /\ failure = "none"

-----------------------------------------------------------------------------
(* The server thread: serve() and capture_tls_connection() *)

ServerGoes(to) == /\ srv' = to /\ UNCHANGED << sequence, completed, records >>
                  /\ current' = IF to = "request" THEN current ELSE Nobody
Elsewhere == UNCHANGED << mode, client, clients, directories, progress, stage, outcome,
                          survivors >>

\* capture_label()
Label == IF mode = "resumed" /\ sequence > 1 THEN "resumed" ELSE "cold"

\* Mutant: the answer refers to the next script in either mode.
AgainAlways == sequence < Count

\* browser_sequence_response(): the answer makes the client connect again.  The
\* foxreq example opens as many connections as the suite has in resumed mode.
Again == mode = "resumed" /\ sequence < Count

\* The listener is bound, or it is not.
ServerStarts == srv = "starting" /\ \E to \in {"top", "failed"} : ServerGoes(to) /\ Elsewhere

Top ==
  /\ srv = "top"
  /\ ServerGoes(IF sequence > Count \/ stop THEN "done" ELSE "accept")
  /\ Elsewhere

Accept ==
  /\ srv = "accept" /\ backlog # << >>
  /\ srv' = "hello" /\ current' = Head(backlog) /\ backlog' = Tail(backlog)
  /\ UNCHANGED << sequence, completed, records, running, wants, served >>
  /\ UNCHANGED << mode, client, directories, progress, stage, outcome, survivors >>

\* Mutant: the accept deadline is dropped.
AcceptTimesOutOnStop ==
  /\ srv = "accept" /\ backlog = << >> /\ stop
  /\ ServerGoes("done") /\ Elsewhere

\* No connection for a while: asked to stop, or past the accept deadline.
AcceptTimesOut ==
  /\ srv = "accept" /\ backlog = << >>
  /\ ServerGoes(IF stop THEN "done" ELSE "failed")
  /\ Elsewhere

\* Mutant: the connection that closed early is taken for a capture.
ClosesEarlyCounted ==
  /\ srv' = "top" /\ sequence' = sequence + 1 /\ completed' = sequence
  /\ current' = Nobody /\ UNCHANGED records

\* CaptureError("early_close"): the next connection takes the same number.
ClosesEarly == ServerGoes("top")

PeerLives == current.by \in running

\* peek_client_hello() and the TLS handshake.  Silence, or a peer that is gone
\* after its ClientHello, is an error that ends the server.
Handshake ==
  /\ srv = "hello" /\ Elsewhere
  /\ \/ PeerLives /\ current.kind = "request" /\ ServerGoes("request")
     \/ (~PeerLives \/ current.kind = "silent") /\ ClosesEarly
     \/ ServerGoes("failed")

\* The request is read (it may have been sent before the peer died) and the
\* record is written, unless the main thread has closed the file.
Record ==
  /\ srv = "request" /\ Elsewhere
  /\ \/ /\ ~Ended
        /\ srv' = "answer"
        /\ records' = Append(records, [by |-> current.by, label |-> Label])
        /\ UNCHANGED << sequence, completed, current >>
     \/ ~PeerLives /\ ClosesEarly
     \/ ServerGoes("failed")

\* sendall() and _mark_completed().  What is sent to a dead peer may be lost
\* unnoticed.
Answer ==
  /\ srv = "answer"
  /\ \/ /\ srv' = "top" /\ completed' = sequence /\ sequence' = sequence + 1
        /\ current' = Nobody /\ UNCHANGED << records, running, backlog >>
        /\ wants' = IF PeerLives /\ Again THEN wants \cup {current.by} ELSE wants
        /\ served' = IF PeerLives /\ ~Again /\ client = "foxreq"
                     THEN served \cup {current.by} ELSE served
        /\ UNCHANGED << mode, client, directories, progress, stage, outcome, survivors >>
     \/ ServerGoes("failed") /\ Elsewhere

ServerStep ==
  ServerStarts \/ Top \/ Accept \/ AcceptTimesOut \/ Handshake \/ Record \/ Answer

-----------------------------------------------------------------------------
(* The clients *)

ClientOnly == UNCHANGED << mode, client, server, directories, progress, stage, outcome,
                           survivors >>

\* The next connection; after the end of the server it is refused.
Connect(l) ==
  /\ l \in running \cap wants
  /\ wants' = wants \ {l}
  /\ IF ServerEnded THEN UNCHANGED backlog
     ELSE /\ Len(backlog) < MaxBacklog
          /\ backlog' = Append(backlog, [by |-> l, kind |-> "request"])
  /\ UNCHANGED << running, served >> /\ ClientOnly

\* A speculative connection of the browser, on which nothing is requested.
Speculate(l) ==
  /\ client = "firefox" /\ l \in running /\ ~ServerEnded /\ Len(backlog) < MaxBacklog
  /\ backlog' = Append(backlog, [by |-> l, kind |-> "silent"])
  /\ UNCHANGED << running, wants, served >> /\ ClientOnly

\* The client ends by itself: it crashed, or it is done.
Leave(l) ==
  /\ l \in running /\ running' = running \ {l} /\ wants' = wants \ {l}
  /\ UNCHANGED << served, backlog >> /\ ClientOnly

-----------------------------------------------------------------------------
(* The main thread: capture_with_local_server() and orchestrate_capture(), *)
(* or capture_foxreq()                                                     *)

MainOnly == UNCHANGED << mode, client, server >>

Steps == IF mode = "cold" THEN Count ELSE 1
Target == IF mode = "cold" THEN step ELSE Count
\* Only cold launches of the browser are tried again.
Tries == IF mode = "cold" /\ client = "firefox" THEN Attempts ELSE 1

WaitReady ==
  /\ stage = "start"
  /\ stage' = CASE srv \in {"starting", "failed"} -> "raised"
                [] client = "firefox" -> "prepare"
                [] OTHER -> "launch"
  /\ MainOnly /\ UNCHANGED << clients, directories, progress, outcome, survivors >>

\* An exception of the suite: request_stop(), then join().
GivesUp == /\ stage' = "join" /\ failure' = "error" /\ stop' = TRUE
           /\ UNCHANGED << step, attempt, launch >>

\* What follows a launch: the next one, a retry, an error, or the end.
GoesOn(result) ==
  LET again == /\ stage' = IF client = "firefox" THEN "prepare" ELSE "launch"
               /\ launch' = launch + 1 /\ UNCHANGED << failure, stop >>
  IN  \/ result = "captured" /\ step < Steps
           /\ step' = step + 1 /\ attempt' = 1 /\ again
      \/ result = "captured" /\ step = Steps
           /\ stage' = "join" /\ UNCHANGED progress
      \/ result = "timed_out" /\ attempt < Tries
           /\ attempt' = attempt + 1 /\ UNCHANGED step /\ again
      \/ result = "timed_out" /\ attempt = Tries /\ GivesUp

\* The profile directory is made and filled and there is enough memory, or not.
Prepare ==
  /\ stage = "prepare" /\ MainOnly /\ UNCHANGED << clients, left, outcome, survivors >>
  /\ \/ UNCHANGED profiles /\ GivesUp
     \/ profiles' = profiles \cup {launch} /\ stage' = "launch" /\ UNCHANGED progress
     \/ /\ profiles' = profiles \cup {launch} /\ stage' = "cleanup" /\ failure' = "error"
        /\ UNCHANGED << step, attempt, launch, stop >>

Launch ==
  /\ stage = "launch" /\ MainOnly
  /\ UNCHANGED << directories, survivors, backlog, served >>
  /\ \/ /\ running' = running \cup {launch} /\ wants' = wants \cup {launch}
        /\ stage' = "wait" /\ outcome' = "none" /\ UNCHANGED progress
     \/ /\ UNCHANGED << running, wants, outcome >>
        /\ IF client = "foxreq" THEN GivesUp
           ELSE /\ stage' = "cleanup" /\ failure' = "error"
                /\ UNCHANGED << step, attempt, launch, stop >>

\* wait_for_completed()
WaitCaptured ==
  /\ stage = "wait" /\ client = "firefox"
  /\ outcome' = IF completed >= Target THEN "captured" ELSE "timed_out"
  /\ stage' = "end"
  /\ MainOnly /\ UNCHANGED << clients, directories, progress, survivors >>

\* Mutant: the browser is ended only when it did not capture in time.
EndLaunchLate ==
  /\ stage = "end" /\ stage' = "cleanup"
  /\ running' = IF outcome = "timed_out" THEN running \ {launch} ELSE running
  /\ UNCHANGED << progress, survivors, wants, served, backlog, outcome, directories >>
  /\ MainOnly

\* terminate() and kill(), with a wait after each; the second one may raise.
EndLaunch ==
  /\ stage = "end" /\ stage' = "cleanup"
  /\ \/ running' = running \ {launch} /\ UNCHANGED << progress, survivors >>
     \/ /\ launch \in running /\ survivors' = survivors \cup {launch}
        /\ failure' = "error" /\ UNCHANGED << running, step, attempt, launch, stop >>
  /\ MainOnly /\ UNCHANGED << wants, served, backlog, outcome, directories >>

\* temporary_firefox_profile(): a file that cannot be removed, or that vanishes
\* in between, leaves the directory; another error is raised from there.
Cleanup ==
  /\ stage = "cleanup" /\ MainOnly
  /\ UNCHANGED << clients, outcome, survivors >>
  /\ \E removed, raises \in BOOLEAN :
       /\ removed => ~raises
       /\ IF removed THEN profiles' = profiles \ {launch} /\ UNCHANGED left
          ELSE left' = left \cup {launch} /\ UNCHANGED profiles
       /\ CASE failure = "interrupt" -> stage' = "raised" /\ UNCHANGED progress
            [] failure = "error" \/ (failure = "none" /\ raises) -> GivesUp
            [] OTHER -> GoesOn(outcome)

\* subprocess.run(): the process ended, or is killed when the time is over.
RunClient ==
  LET result == IF launch \notin running /\ launch \in served
                THEN "captured" ELSE "timed_out"
  IN  /\ stage = "wait" /\ client = "foxreq"
      /\ running' = running \ {launch} /\ outcome' = result
      /\ GoesOn(result)
      /\ MainOnly /\ UNCHANGED << wants, served, backlog, directories, survivors >>

\* thread.join(), and what is raised after it.
Join ==
  /\ stage = "join"
  /\ stage' = IF srv = "done" /\ failure = "none" THEN "returned" ELSE "raised"
  /\ MainOnly /\ UNCHANGED << clients, directories, progress, outcome, survivors >>

\* KeyboardInterrupt: no handler, except for subprocess.run(), which kills its
\* process, and the profile, which is removed (or not: in Cleanup itself).
Interrupt ==
  /\ ~Ended /\ failure # "interrupt"
  /\ failure' = "interrupt"
  /\ stage' = IF client = "firefox" /\ stage \in {"launch", "wait", "end"}
              THEN "cleanup" ELSE "raised"
  /\ left' = IF client = "firefox" /\ stage = "cleanup" THEN left \cup {launch} ELSE left
  /\ running' = IF client = "foxreq" THEN {} ELSE running
  /\ MainOnly
  /\ UNCHANGED << wants, served, backlog, profiles, step, attempt, launch, stop,
                  outcome, survivors >>

MainStep ==
  \/ WaitReady \/ Prepare \/ Launch \/ WaitCaptured \/ EndLaunch \/ Cleanup
  \/ RunClient \/ Join

CaptureNext ==
  \/ MainStep \/ ServerStep \/ Interrupt
  \/ \E l \in Launches : Connect(l) \/ Speculate(l) \/ Leave(l)

\* Both threads run and every wait of theirs has a timeout.  Clients owe nothing.
CaptureSpec ==
  /\ CaptureInit /\ [][CaptureNext]_captureVars
  /\ WF_captureVars(MainStep) /\ WF_captureVars(ServerStep)

-----------------------------------------------------------------------------
(* Properties *)

\* A manifest (a suite that returns) stands for a raw capture that is complete:
\* one record for each handshake asked for, under a name of its own, and the
\* server thread has ended.
ManifestIsComplete ==
  stage = "returned" => srv = "done" /\ Len(records) = Count

\* A handshake is labelled "cold" exactly when it is the first one of its
\* client, so that no session could be resumed; and when no launch of the
\* browser had to be repeated, record n of a cold suite is that of launch n.
RecordsAreTrue ==
  /\ \A i \in DOMAIN records :
       records[i].label = "cold" <=> \A j \in 1 .. i - 1 : records[j].by # records[i].by
  /\ mode = "cold" /\ launch = step => \A i \in DOMAIN records : records[i].by = i

\* However a suite ends, except by KeyboardInterrupt, no client is left running
\* that kill() ended and no profile that could be removed; and never do two
\* clients run that were not left by a failed kill().
NothingLeftRunning ==
  failure # "interrupt" =>
    /\ running \ survivors \subseteq {launch}
    /\ Ended => running \subseteq survivors /\ profiles \subseteq left

\* The suite ends; and the server thread ends, whether or not it was asked to
\* stop, unless some client outlives the suite.
CaptureEnds ==
  /\ <>Ended
  /\ <>[](running = {}) => <>ServerEnded

-----------------------------------------------------------------------------
\* What is concluded from captures that ended well is sound both ways.  When no
\* difference is reported, everything that all handshakes of the baseline have
\* in common (the length of every field and, at that length, its entries, and
\* the place of every extension) is found in every handshake of the candidate.
\* And a candidate that shows only handshakes of the baseline is reported as
\* different for one reason only: a list of which some entries vary in the
\* baseline does not vary in the candidate, and is compared as a list with a
\* mapping.
VerdictIsSound ==
  stage = "returned" => Overlooked = {} /\ FalseAlarms = {}

=============================================================================
