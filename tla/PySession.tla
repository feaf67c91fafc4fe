------------------------------- MODULE PySession -------------------------------
(***************************************************************************)
(* The public Session of python/foxreq/_api.py.  It has no lock: threads   *)
(* that share a session interleave between any two of its statements, the  *)
(* main thread may be interrupted between any two, and the PEM bundle of   *)
(* the session may be replaced on disk.                                    *)
(*                                                                         *)
(* The native sessions behind it are used one call at a time (WorkerHandle *)
(* and ProfileWorker show what such a call does); here a call of theirs is *)
(* one step.                                                               *)
(***************************************************************************)
EXTENDS RequestNormalization

CONSTANTS
  Threads,       \* the threads that use the session
  MainThread,    \* the one that KeyboardInterrupt reaches
  Natives,       \* identities of native sessions
  None,          \* Python's None
  MaxCalls,      \* bound on the calls of a thread
  MaxInterrupts, \* bound on the interrupts
  MaxChanges,    \* bound on the changes of the bundle file
  Arguments(_, _), \* the arguments of the n-th request of a thread
  Bundles,       \* contents that the bundle file may have at first
  Replacements   \* and later

ASSUME SessionAssumption == None \notin Natives /\ MaxCalls \in Nat

\* What a caller gives for verify, nothing, False or a path, and for headers.
ASSUME ArgumentsAssumption ==
  \A t \in Threads, n \in 1 .. MaxCalls : \A a \in Arguments(t, n) :
    /\ a.verify \in {"none", "off", "bundle"}
    /\ a.headers \in Seq([name : Names, value : Values])

ASSUME BundlesAssumption == \A lines \in Bundles \cup Replacements : IsText(lines)

VARIABLES
  verifyInput, \* self._verify_input: "off" or the path of the bundle
  closed,      \* self._closed
  http,        \* self._http
  https,       \* self._https
  policy,      \* self._https_policy
  native,      \* per native session: its state and the anchors it was given
  pc,          \* where each thread is
  call,        \* the locals of each thread's call
  calls,       \* the calls of each thread so far
  closing,     \* the native sessions close() has still to close, per thread
  bundle,      \* the lines of the session's bundle file
  interrupts, changes,
  raced        \* a native session was created over another, or after close()

attributes == << verifyInput, closed, http, https, policy >>
vars == << attributes, native, pc, call, calls, closing, bundle, interrupts,
           changes, raced >>

\* VerifyPolicy.  No anchors and not insecure is no policy at all.
Policy(anchors, insecure) == [anchors |-> anchors, insecure |-> insecure]
NoPolicy == Policy(<< >>, FALSE)
Insecure == Policy(<< >>, TRUE)

\* normalize_verify() of the bundle file as it is now.
Read == Policy(ReadPemBundle(bundle), FALSE)

NoCall == [verify |-> "none", native |-> None, policy |-> NoPolicy,
           normalized |-> Rejected("none")]

Init ==
  /\ verifyInput \in {"off", "bundle"}
  /\ closed = FALSE /\ http = None /\ https = None /\ policy = NoPolicy
  /\ native = [n \in Natives |-> [at |-> "unborn", anchors |-> << >>]]
  /\ pc = [t \in Threads |-> "idle"]
  /\ call = [t \in Threads |-> NoCall]
  /\ calls = [t \in Threads |-> 0]
  /\ closing = [t \in Threads |-> << >>]
  /\ bundle \in Bundles
  /\ interrupts = 0 /\ changes = 0 /\ raced = FALSE

Goes(t, next) == pc' = [pc EXCEPT ![t] = next]

\* The call returns or raises; its locals are gone.
Ends(t) == Goes(t, "idle") /\ call' = [call EXCEPT ![t] = NoCall]

-----------------------------------------------------------------------------
(* request() *)

\* _ensure_open(), the profile and the normalisation of the arguments.
RequestBegins(t) ==
  /\ pc[t] = "idle" /\ calls[t] < MaxCalls
  /\ calls' = [calls EXCEPT ![t] = @ + 1]
  /\ \E a \in Arguments(t, calls[t] + 1) :
       LET q == NormalizeRequest(a)
       IN  IF closed \/ a.otherProfile \/ q.error # "none" THEN Ends(t)
           ELSE /\ Goes(t, q.scheme)
                /\ call' = [call EXCEPT ![t] = [NoCall EXCEPT
                              !.verify = a.verify, !.normalized = q]]
  /\ UNCHANGED << attributes, native, closing, bundle, interrupts,
                  changes, raced >>

Creates(n, anchors, slot) ==
  /\ native[n].at = "unborn"
  /\ native' = [native EXCEPT ![n] = [at |-> "open", anchors |-> anchors]]
  /\ raced' = (raced \/ slot # None \/ closed)

\* The headers have been looked at (OneMessage) and are not needed any more.
Forget(t) == [call EXCEPT ![t].normalized = Rejected("none")]

\* _http_session(): the test, the creation, and the reading of the attribute.
TestsHttp(t) ==
  /\ pc[t] = "http"
  /\ Goes(t, IF http = None THEN "createHttp" ELSE "takeHttp")
  /\ call' = Forget(t)
  /\ UNCHANGED << attributes, native, calls, closing, bundle,
                  interrupts, changes, raced >>

CreatesHttp(t) ==
  /\ pc[t] = "createHttp"
  /\ \/ \E n \in Natives :
          /\ Creates(n, << >>, http)
          /\ http' = n
          /\ Goes(t, "takeHttp")
          /\ UNCHANGED call
     \/ /\ Ends(t)    \* NativeError
        /\ UNCHANGED << http, native, raced >>
  /\ UNCHANGED << verifyInput, closed, https, policy, calls, closing,
                  bundle, interrupts, changes >>

TakesHttp(t) ==
  /\ pc[t] = "takeHttp"
  /\ Goes(t, "send")
  /\ call' = [call EXCEPT ![t].native = http]
  /\ UNCHANGED << attributes, native, calls, closing, bundle,
                  interrupts, changes, raced >>

\* _https_session(): the test, then the runtime directory and the bundle are
\* read, then the native session is created, and its policy set after it.
TestsHttps(t) ==
  /\ pc[t] = "https"
  /\ Goes(t, IF https = None THEN "readPolicy" ELSE "takeHttps")
  /\ call' = Forget(t)
  /\ UNCHANGED << attributes, native, calls, closing, bundle,
                  interrupts, changes, raced >>

ReadsPolicy(t) ==
  /\ pc[t] = "readPolicy"
  /\ LET read == IF verifyInput = "off" THEN Insecure ELSE Read
     IN  \/ /\ read # NoPolicy
            /\ Goes(t, "createHttps")
            /\ call' = [call EXCEPT ![t].policy = read]
         \/ Ends(t)    \* ConfigurationError, also when there is no runtime directory
  /\ UNCHANGED << attributes, native, calls, closing, bundle,
                  interrupts, changes, raced >>

CreatesHttps(t) ==
  /\ pc[t] = "createHttps"
  /\ \E n \in Natives :
       /\ Creates(n, call[t].policy.anchors, https)
       /\ https' = n
  /\ Goes(t, "setPolicy")
  /\ UNCHANGED << verifyInput, closed, http, policy, call, calls,
                  closing, bundle, interrupts, changes >>

SetsPolicy(t) ==
  /\ pc[t] = "setPolicy"
  /\ policy' = call[t].policy
  /\ Goes(t, "takeHttps")
  /\ UNCHANGED << verifyInput, closed, http, https, native, call, calls,
                  closing, bundle, interrupts, changes, raced >>

\* return self._https, self._https_policy: two reads.
TakesHttps(t) ==
  /\ pc[t] = "takeHttps"
  /\ Goes(t, "takePolicy")
  /\ call' = [call EXCEPT ![t].native = https]
  /\ UNCHANGED << attributes, native, calls, closing, bundle,
                  interrupts, changes, raced >>

TakesPolicy(t) ==
  /\ pc[t] = "takePolicy"
  /\ Goes(t, "verify")
  /\ call' = [call EXCEPT ![t].policy = policy]
  /\ UNCHANGED << attributes, native, calls, closing, bundle,
                  interrupts, changes, raced >>

\* Mutant: any readable bundle of the request is good enough.
ResolvesLeniently(verify, session) ==
  CASE verify = "none"   -> session
    [] verify = "off"    -> Insecure
    [] verify = "bundle" -> Read

\* Mutant: a request of a session without a policy is not verified.
ResolvesInsecurely(verify, session) ==
  CASE verify = "none"   -> IF session = NoPolicy THEN Insecure ELSE session
    [] verify = "off"    -> Insecure
    [] verify = "bundle" -> IF Read = session THEN Read ELSE NoPolicy

\* _resolve_request_verify(): nothing is verified when the request says so;
\* another bundle than the session's is refused.
Resolves(verify, session) ==
  CASE verify = "none"   -> session
    [] verify = "off"    -> Insecure
    [] verify = "bundle" -> IF Read = session THEN Read ELSE NoPolicy

\* A bundle that differs is a ConfigurationError; without the session's policy
\* there is an attribute to miss: AttributeError.
Verifies(t) ==
  /\ pc[t] = "verify"
  /\ LET resolved == Resolves(call[t].verify, call[t].policy)
     IN  IF resolved = NoPolicy
           THEN Ends(t)
           ELSE /\ Goes(t, "send")
                /\ call' = [call EXCEPT ![t].policy = resolved]
  /\ UNCHANGED << attributes, native, calls, closing, bundle,
                  interrupts, changes, raced >>

\* native.request() of an open session; a closed one raises at once.
Sends(t) ==
  /\ pc[t] = "send"
  /\ IF native[call[t].native].at = "open"
       THEN Goes(t, "await") /\ UNCHANGED call
       ELSE Ends(t)
  /\ UNCHANGED << attributes, native, calls, closing, bundle, interrupts,
                  changes, raced >>

\* The response, or the error of the native session translated.
Receives(t) ==
  /\ pc[t] = "await"
  /\ Ends(t)
  /\ UNCHANGED << attributes, native, calls, closing, bundle, interrupts,
                  changes, raced >>

-----------------------------------------------------------------------------
(* close() *)

CloseBegins(t) ==
  /\ pc[t] = "idle" /\ calls[t] < MaxCalls
  /\ calls' = [calls EXCEPT ![t] = @ + 1]
  /\ IF closed THEN Ends(t) /\ UNCHANGED closed
     ELSE /\ closed' = TRUE
          /\ Goes(t, "closeList")
          /\ UNCHANGED call
  /\ UNCHANGED << verifyInput, http, https, policy, native, closing,
                  bundle, interrupts, changes, raced >>

\* The tuple of native sessions is made once; None is passed over.
Opened == (IF http = None THEN << >> ELSE << http >>)
            \o (IF https = None THEN << >> ELSE << https >>)
CloseLists(t) ==
  /\ pc[t] = "closeList"
  /\ closing' = [closing EXCEPT ![t] = Opened]
  /\ Goes(t, "close")
  /\ UNCHANGED << attributes, native, call, calls, bundle, interrupts,
                  changes, raced >>

\* Mutant: the first error ends close().
CloseStepsOnce(t) ==
  /\ pc[t] = "close"
  /\ IF closing[t] = << >>
       THEN /\ Ends(t)
            /\ UNCHANGED << native, closing >>
       ELSE /\ native' = [native EXCEPT ![Head(closing[t])].at = "closed"]
            /\ \/ /\ closing' = [closing EXCEPT ![t] = Tail(@)]
                  /\ UNCHANGED << pc, call >>
               \/ /\ closing' = [closing EXCEPT ![t] = << >>]
                  /\ Ends(t)
  /\ UNCHANGED << attributes, calls, bundle, interrupts, changes,
                  raced >>

\* A native session is closed, with or without an error; the first error is
\* raised when all are closed.
CloseSteps(t) ==
  /\ pc[t] = "close"
  /\ IF closing[t] = << >>
       THEN /\ Ends(t)
            /\ UNCHANGED << native, closing >>
       ELSE /\ native' = [native EXCEPT ![Head(closing[t])].at = "closed"]
            /\ closing' = [closing EXCEPT ![t] = Tail(@)]
            /\ UNCHANGED << pc, call >>
  /\ UNCHANGED << attributes, calls, bundle, interrupts, changes,
                  raced >>

-----------------------------------------------------------------------------
\* KeyboardInterrupt between two statements of the main thread.
Interrupted(t) ==
  /\ t = MainThread /\ pc[t] # "idle"
  /\ interrupts < MaxInterrupts
  /\ interrupts' = interrupts + 1
  /\ Ends(t)
  /\ closing' = [closing EXCEPT ![t] = << >>]
  /\ UNCHANGED << attributes, native, calls, bundle, changes, raced >>

BundleChanges ==
  /\ changes < MaxChanges
  /\ changes' = changes + 1
  /\ bundle' \in Replacements \ {bundle}
  /\ UNCHANGED << attributes, native, pc, call, calls, closing,
                  interrupts, raced >>

Next ==
  \/ \E t \in Threads :
       \/ RequestBegins(t)
       \/ TestsHttp(t) \/ CreatesHttp(t) \/ TakesHttp(t)
       \/ TestsHttps(t) \/ ReadsPolicy(t) \/ CreatesHttps(t) \/ SetsPolicy(t)
       \/ TakesHttps(t) \/ TakesPolicy(t) \/ Verifies(t)
       \/ Sends(t) \/ Receives(t)
       \/ CloseBegins(t) \/ CloseLists(t) \/ CloseSteps(t)
       \/ Interrupted(t)
  \/ BundleChanges

Spec == Init /\ [][Next]_vars

-----------------------------------------------------------------------------
(* Properties *)

\* A request is sent without verification only when the caller said so, for
\* the request or for the session: no race, interrupt or changed file turns
\* verification off.
InsecureByChoice ==
  \A t \in Threads : pc[t] = "await" /\ call[t].policy.insecure =>
    \/ call[t].verify = "off"
    \/ call[t].verify = "none" /\ verifyInput = "off"

\* A verified request goes to a worker that was given the very anchors of the
\* policy the request was checked against, also when the bundle file changes,
\* unless two threads created native sessions at the same time.
VerifiedAsAgreed ==
  ~raced => \A t \in Threads :
    pc[t] = "await" /\ ~call[t].policy.insecure =>
      native[call[t].native].anchors = call[t].policy.anchors

\* When close() has returned and no call is in progress, no native session is
\* left open, whichever of them failed to close; except for one that was
\* created over another or after close() began, or when close() was
\* interrupted.
OnlyRacesLeak ==
  closed /\ (\A t \in Threads : pc[t] = "idle") /\ ~raced /\ interrupts = 0 =>
    \A n \in Natives : native[n].at # "open"

\* Whatever headers the caller gives, a request that is put on the wire has
\* one Host, and no framing but the length of its own body: its bytes are one
\* message to every server.
OneMessage ==
  \A t \in Threads :
    LET q    == call[t].normalized
        wire == Completed(q.headers, q.length)
    IN  pc[t] \in {"http", "https"} /\ Serializes(q) =>
          /\ Occurrences(wire, "host") = 1
          /\ ~Carries(wire, "transfer-encoding")
          /\ Occurrences(wire, "content-length") <= 1
          /\ IF Carries(wire, "content-length")
               THEN Digits[ValueOf(wire, "content-length")] = q.length
               ELSE q.length = 0

\* Whatever lines a file has, the anchors read from it are the certificates it
\* consists of; anything else in it, or a block cut short, and there are none.
\* And every worker that verifies was given all certificates of one bundle that
\* was on disk, also when the file was replaced in the meantime.
PolicyIsBundle ==
  /\ Misread = {}
  /\ \A n \in Natives : native[n].anchors # << >> =>
       \E lines \in Bundles \cup Replacements : native[n].anchors = Anchors(lines)

=============================================================================
