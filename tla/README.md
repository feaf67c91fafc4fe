# foxreq: models, checks and proofs

foxreq is an HTTP client for Python whose HTTPS connections use the TLS
libraries of a real Firefox. This directory holds TLA+ models of its
concurrent, stateful core and of the tools that pin, prepare and observe the
Firefox it uses, the TLC configurations that check them on small instances, and
proofs that TLAPS checks for every value of the constants.

    tlc -config Worker.cfg MCWorkerHandle     # a run
    tlapm WorkerHandleProofs.tla              # the proofs of a module

## 1. Inventory

    Python program
      Session (_api.py)                         one per user, created lazily:
       |- http:  NativeHttpSession (foxreq-py)  in this process
       |           WorkerHandle --> thread: Http1Client over TCP
       `- https: ProfileWorkerSession           one child process
                   |  frames over two pipes (_ipc.py)
                   `- _profile_worker.py
                        NativeSession (foxreq-py)
                          WorkerHandle --> thread: Http1Client over NSS
                            NssConnector -> Connection -> shim (C) -> NSS

    Release engineer
      fetch_sources -> cache -> lock_firefox_release -> locks, _runtime_locks.py
                    `-> prepare_firefox_runtime / _browser -> directories
      capture_firefox / capture_foxreq <-> tls_capture_server (thread)
                    `-> raw capture -> summarize_capture -> compare_profile

| Component | State | Operations | Interacts through |
|---|---|---|---|
| native session worker (`worker.rs`) | sender and join slots under mutexes, command channel, backend, thread | `spawn_with`, `request`, `close`, `drop`, `run_worker` | locks, channels, join, panics |
| HTTP/1.1 client (`http1/client.rs`) | pool of idle streams by origin, `closed` | `execute`, `exchange`, `close` | blocking calls on streams, under one deadline |
| HTTPS profile session (`_worker_session.py`, `_profile_worker.py`, `_ipc.py`) | child process, `closed`, request identifiers, reader threads; the child's native session | `request`, `close`; the child's `run` | two pipes, exit status, signals |
| NSS runtime (`runtime.c`) | process-wide counter, libraries, trust anchors; a counter per handle | create, free, retain, release | one mutex, atomic counters |
| TLS connection (`connection.c`, `socket_posix.c`, `tls/mod.rs`, `transport.rs`) | socket and its owner, deadline, last error | connect, read, write, close, free | blocking calls with timeouts |
| plain TCP transport (`tcp.rs`) | socket | connect, read, write, close | as above |
| response parser (`http1/response.rs`, `chunked.rs`) | parser state, limits | `feed`, `finish_eof` | called by `exchange` |
| Python `Session` (`_api.py`) | native sessions created lazily, policy, `closed` | `request`, `close` | threads share it, no lock |
| normalisation, profiles (`_normalize.py`, `_profiles.py`) and request serialisation (`http1/request.rs`) | none | pure functions | called by `Session` and `exchange` |
| release and provenance tools (`scripts/runtime`, `scripts/provenance`) and the manifest check (`_runtime_manifest.py`) | cache, part files, temporary and output directories, locks, embedded module | `fetch_source`, `prepare_runtime`, `prepare_browser`, `lock_release`, `regenerate_embedded_locks` | processes over the same files |
| capture tools (`scripts/capture`, `tls_capture_server.py`) | main thread, server thread, clients, profiles, records | `capture`, `serve`, launches | processes, a thread, sockets, timeouts |
| summaries and verdicts (`summarize_capture.py`, `compare_profile.py`, `tools/fingerprint`) | none | pure functions | files |
| URL grammar, stub backend, platform adapters, binary parsers | - | - | not modelled |

What is hard, and what makes each component correct:

* **Worker.** Concurrent callers, closers and panics. A returned `close()`
  means that thread and backend are gone; a request is executed at most once,
  between its call and its return; nobody waits for ever.
* **HTTP client.** Errors, timeouts and truncation at any point of an exchange
  on a connection that may be pooled. Each stream has one owner; a response
  belongs to its request and is whole; a request is sent once; the deadline
  ends every request.
* **Profile session.** Crashes of either process, timeouts that race answers,
  interpreter exceptions in the middle of a call. One child at a time; answers
  are matched; `close()` reaps; orphans end.
* **NSS runtime.** Process-wide trust shared by independent sessions. A session
  only ever runs with its own trust anchors; they go when the last user goes;
  memory outlives its users.
* **Response parser.** Input in arbitrary pieces, from a peer that may send
  anything. Where a response ends, and what it is, depends on the bytes alone;
  nothing kept passes its limit.
* **Python session.** Threads between any two statements, an interrupt between
  any two, a bundle file that is replaced. Nothing is sent unverified that was
  not asked to be; what is created is closed; headers given by the caller
  cannot make two messages of one.
* **Release tools.** Two processes on the same files, errors, interrupts, kills.
  What was reported stays true; what failed leaves nothing; three sets of rules
  for one kind of lock agree.
* **Capture tools.** Clients that crash, hang or connect for nothing. A manifest
  stands for a complete capture; a record says what it is; all of it ends; a
  verdict of equality hides no difference.
* **TLS connection.** A dozen ways to fail while the socket changes owners, and
  several waits under one timeout. The socket is closed exactly once; waits
  are bounded; categories of errors are right.

The hazards, each at its line and with the properties aimed at it, are listed
in `PROJECT.json`.

## 2. Modules

### WorkerHandle, SerialBackend, WorkerHandleProofs

`WorkerHandle` is `crates/foxreq-py/src/worker.rs`. `sender`/`senderLock` and
`join`/`joinLock` are the two `Mutex<Option<_>>`; `channel` is the command
channel; `reply[c]` the one-shot reply channel of caller `c`; `worker`,
`serving`, `backend`, `threadOk` are the thread. One action per lock, send,
receive and join, because other threads run between them. A panic is an action
where `catch_unwind` stands (`ExecutePanics`, `CloseReturns("panic")`), and in
the backend's destructor (`BackendDrops(FALSE)`). The order in which the
thread's locals are dropped (backend first, receiver last) is in the model: in
between a send succeeds whose reply will be disconnected (`ReceiverDrops`). The
locks are never poisoned, since nothing panics while one is held. A caller
whose thread found the slot empty returns; Rust drops the handle only without
other borrowers, so `HandleDrops` requires that nobody is inside a call.

`SerialBackend` says what the callers may rely on: open, execute atomically,
shut, release. `ImplementsSerialBackend` maps locks, channels and thread onto
it (`AbsService`, `AbsCall`): a request takes effect when the worker answers.

### Http1Client, Http1ClientProofs

`http1/client.rs` and `deadline.rs`. `idle` is the pool; `pc` walks through
`execute()` and `exchange()`: acquire a stream, serialise, write, read. The
other sides of the streams are external actors that answer in pieces, delimit
by closing, send malformed heads, close at any time and, in the first
`SurplusRequests` requests, send responses nobody asked for (`surplus`). A
response is a head token, and an end token when its length is known: this keeps
what `Reusable` depends on (were all bytes of the read consumed, did the peer
announce to close) and abstracts the grammar. `closes`, `lost`, `carried`,
`answered` and `stale` are history. `DeadlinePasses` may happen at any time
while a request is in hand; a transport
reports `timeout` only afterwards, and may also report a deadline that passed
as another error (the TCP connect does).

### ProfileWorker, ProfileWorkerProofs

The parent (`_worker_session.py`) and its children (`_profile_worker.py`). Calls
run under the session's lock, so one `pc` suffices. `child[p]` holds a child and
its pipes. `Aborts` is `_abort_process()` up to its wait and `AbortEnds` the
end of that wait; `FindsDead` is the path through `_finish_process()` that
raises before `self._process` is cleared. `PipeRooms` are the numbers of whole
frames a pipe may take: zero stands for bodies larger than the pipe, when a write
needs a reader at the other end.

`Interrupted` is the one failure of a dialog that does not end the child: an
exception of the interpreter passes through handlers that are written for
`Exception`. While the caller waits for a frame, the reader thread stays
(`readers`) and takes the next frame for nobody. While `write_frame()` blocks, or
before the reader is started (`WriteInterrupted`), nothing, a part of the frame or
the whole frame is in the pipe, and no thread will read an answer (`unread`). A
whole frame is served like any other. A part is `held` by the child, which reads
on in the next frame (`ChildReadsOn`): what it then has is refused and the child
ends, or is not enough and it waits, or, when the part was cut in its body, is a
frame whose body ends in bytes of the next one (`Completes`). The frame whose
bytes are used up so is `lost`. Bytes may be over (`held = "rest"`); they are
taken to be no frame, but the beginning of one as the length of it is read, until
the child gives up or its input ends. `unread` and `lost` are history. Not
modelled are interrupts in the waits for an exit (`finishing`, `aborting`) and
between the start of a process and its being stored (line 146).

`oversized` is a response beyond the 16 MiB frame limit: the reader refuses it
after its head and the child is `stuck` in the write. `ParentDies` and
`ChildDies` are crashes at any point.

### NssRuntime, NssProofs

`runtime.c`, and the retaining and releasing in `connection.c`. The global part
is only touched under one mutex, so `global_acquire()` and `global_release()`
are atomic steps, and everything between them may interleave: a handle whose
global reference is taken but whose memory is not allocated (`acquired`), or
whose last reference is gone but not yet given back (`releasing`). `Acquires`
has the three cases of `global_acquire()`: nothing loaded, loaded but unused,
in use. An object is a cache or a connection.

### NssConnection, NssProofs

`NssConnector::connect()`, `Connection`, the shim's `connect`, `read`, `write`,
`close`, `free` and the POSIX TCP connection, over a clock in milliseconds.
Time passes only where the code waits (`Tick`), until the end of the wait.
`descriptor` says who owns the socket (shim, NSPR, NSS); candidates that do not
connect are closed where they were opened and are not tracked. The connector's
own look at the certificate result has no action: the shim records a validated
chain of every handshake that succeeds in the default mode.

### TcpTransport, Http1ClientProofs

`tcp.rs` over the same clock, for one request that finds no idle connection:
`TcpConnector::connect()`, then the writes and reads of `exchange()`, each of
which is given what remains of the one `Deadline`. It is the counterpart of
`NssConnection`: there every address gets the whole timeout
(`ConnectIsBounded`), here `OneDeadline` holds. `system` records that the operating
system ended a wait with a timeout of its own, the one way to a timeout before
the deadline. What is read is abstracted to more, a response, or an error of it.

### ResponseGrammar, ResponseParser, ResponseParserProofs

`ResponseParser` is `http1/response.rs` as `exchange()` drives it. An action is
one turn of the loop in `feed()` or in `read_line()`; `upto` is the end of the
last segment, so that the loop waits (`Idle`) where `feed()` returns `NeedMore`.
Every error kind that a peer can cause is an outcome, decided in the order of
the code's checks. A byte is a line ending, data, or a piece of a line: the
piece that a line begins with stands for what the code finds when it parses the
whole line (a status line with its version and status, a `Content-Length` with
its value, `Transfer-Encoding: chunked` or another coding, a token of
`Connection`, another field, a folded line, a chunk size), and `text` for more
bytes of it. Lines of one byte or two then meet the limits, the cuts between
segments and the line endings as long ones do. Names, values and reasons are
not kept apart; headers and trailers are counted.

`ResponseGrammar` is the reference: `MessageOf(w, semantics)` holds the response
that `w` as a whole begins with, if any: its end, body and word on the
connection. It cuts `w` into lines, heads, chunks and trailers with recursive
functions and knows no state or order; the limits are part of it. `Http1Client`
abstracts the parser to its promise: a response ends where the last token of it
does.

### RequestNormalization, PySession, PySessionProofs

`RequestNormalization` is `_normalize.py`, `_profiles.py` and the rules on
headers and framing of `serialize_request()`, as operators. An argument is
reduced to what the code tells apart: a URL to the first check it fails, a
header to its folded name and the kind of its value, a body to its length, a
PEM bundle to its lines. `NormalizeRequest` refuses in the order of the code,
`ReadPemBundle` folds over the lines as the loop does, and `Completed` adds the
headers that the serializer adds. `Anchors` is the reference for the bundle:
its certificates, if the file consists of whole ones.

`PySession` extends it with `_api.py`, statement by statement: there is no
lock, so the test for a native session (`TestsHttps`), the reading of the bundle
(`ReadsPolicy`), the creation (`CreatesHttps`), the policy (`SetsPolicy`) and the
two readings of the attributes that follow (`TakesHttps`, `TakesPolicy`) are
actions, and so are the steps of `close()`. `Interrupted` is an exception of the
interpreter between any two of them in the main thread, `BundleChanges` a new
file on disk. The native sessions are used a call at a time: what such a call
does is `WorkerHandle` and `ProfileWorker`. `raced` is history: a native session
was created over another one, or after `close()`.

### RuntimeFiles, RuntimeLocks, ToolProofs

`RuntimeFiles` has the files that the release tools share and one action for
each step of a tool that another process can see: the part file, its replacement
of the cached artifact, the temporary directory, each copied file, the new
output directory, the lock, and the module of embedded locks that
`regenerate_embedded_locks()` lists, empties and writes in place. Where a lock is
written is up to the caller (`tool[p].path`, `--output`), and so is whether the
module is written again (`tool[p].embeds`, which is `FALSE` for
`embedded_output=None` and for another file than the one that ships). A
regeneration lists the files called `firefox-*.lock.json` (`Canonical`) in the
directory of the new lock, which need not be one of them, and replaces what the
module had from another directory. Hence the scope of `ReleasedIsEmbedded`: of
the directory that the module was last made from, the canonical locks that were
reported by runs which embed. The same release may be locked at two paths; a
regeneration that reads both refuses. After any of these steps the tool may raise, be interrupted (`finally` runs, `except Exception` does not)
or be killed. `UserRemoves` is an output that is deleted by hand, which
makes room for another one. `prepared`, `released` and `spoilt` are history: what
was reported to the user, and whether two regenerations overlapped or one stopped
half-way. A file is absent, partial, wrong or whole; contents and digests are
not kept apart.

`RuntimeLocks` has the rules as operators: the lock that `lock_release()` writes
(`Release`), the check when building (`LoadLock`), the check when a worker starts
(`ValidateManifest`), members of an archive (`ArchiveAccepted`), source and
profile locks. The sets at its end compare them with each other and with what
they ought to mean. File names are members of `FileNames`, of which the patterns
accept `SafeNames`; `Casefold` and `CodePoint` give what the code compares of
them, and `NamesAssumption` says that a safe name is folded to one safe name.

### BrowserCapture, FingerprintEvidence, ToolProofs

`BrowserCapture` is one capture suite: the main thread (`WaitReady` to `Join`),
the thread of `tls_capture_server.py`, and the clients. A timeout may strike
whenever what is waited for is not there; how timeouts compare with each other
is abstracted away. `Speculate` is a connection that requests nothing; `Leave` a
client that ends or crashes; `survivors` outlived `kill()`. The clients are
external. `client = "foxreq"` is `capture_foxreq.py`, whose launches are tried once.
A cold suite launches a client for each handshake, a resumed one a client for all.

`FingerprintEvidence` is the chain from handshakes to a summary and from two
summaries to the reported differences: which extensions keep their place, what
of the evidence is stable, wholly or in part. `FalseAlarms` and `Overlooked` are the
pairs of captures that would make the verdict unsound.

### MC modules

`MCWorkerHandle`, `MCHttp1Client`, `MCProfileWorker`, `MCNssRuntime`,
`MCNssConnection`, `MCTcpTransport` and `MCPySession` give model values, small
sets and symmetry sets. `MCResponseParser` defines the wires, `MCRuntimeFiles` the
paths and their symmetry, and the locks, archives and names that the rules are
evaluated on, `MCBrowserCapture` the captures. Symmetry is used in runs of safety
properties only; two paths are interchangeable when both are canonical and in the
same directory.
`RuntimeFiles` extends `RuntimeLocks`, `BrowserCapture` extends
`FingerprintEvidence` and `PySession` extends `RequestNormalization`: the state
machine with the rules that its tools or threads consult.

### SequenceFolds

What folds over sequences are, for proofs: the fold of a sequence is the last
value of a run that takes one element after the other (`FoldRuns`), and a set of
numbers with zero and the successor of each member is all of them (`AllNumbers`).
What a recursive function is whose value at a place depends on later places only:
there is one (`FixedPoint`). It says nothing about the program and is used by
`ToolProofs`, `PySessionProofs` and `ResponseParserProofs`.

## 3. Runs

| Run | Instance | Shows |
|---|---|---|
| `worker` | 3 callers | `CloseMeansStopped`, `CallsReturn`, `ImplementsSerialBackend` |
| `http_pool` | 2 origins, 3 streams, 3 requests, 3 tokens in flight, servers that volunteer in 2 requests | `StreamsAccountedFor`, `OwnWholeAnswer`, `SentOnce`, `NothingLostInPool` |
| `http_stale_idle` | violation | `StaleIsReconnected`, see section 5 |
| `session` | 2 children, 3 requests, 2 interrupts of a wait or a write, pipes for one frame or none | `AnswerIsOwn`, `OneWorker`, `CloseReaps`, `EveryAnswerHasAReader`, `CallsReturn`, `OrphansExit` |
| `py_session` | 2 threads, 2 calls each, 4 native sessions, 1 interrupt, 1 change of the bundle | `InsecureByChoice`, `VerifiedAsAgreed`, `OnlyRacesLeak`, `OneMessage`, `PolicyIsBundle` |
| `runtime` | 3 handles, 2 objects, 2 configurations, 2 bundles (one empty), a counter full at 2 | `TrustIsOwn`, `ObjectsKeepRuntime` |
| `response` | some 2300 wires, segments of 1 to 4 bytes, both semantics | `WithinLimits`, `CompletesAtItsEnd`, `MissesNoMessage` |
| `connection` | timeout 3, 2 addresses, resolver 2 | `ReleasedOnce`, `ConnectIsBounded`, `ExchangeInTime`, `ConnectionEnds` |
| `connection_deadline` | violation | `DeadlineCoversConnect`, see section 5 |
| `tcp` | timeout 3, up to 3 addresses, resolver 5, 2 writes | `OneDeadline`, `RequestEnds` |
| `release` | 2 processes, 4 tools, 2 releases, 4 paths in 2 directories, 2 files, 1 interrupt, 1 kill; some thousand locks and archives | `PreparedStaysLocked`, `FailureLeavesNothing`, `ReleasedIsEmbedded`, `CacheOnlyImproves`, `LocksAgree`, `InputsAreSafe` |
| `capture` | 2 handshakes, 2 attempts, 2 connections waiting; sets of up to 3 handshakes against up to 2 | `ManifestIsComplete`, `RecordsAreTrue`, `NothingLeftRunning`, `CaptureEnds`, `VerdictIsSound` |

Every property of a passing run comes with a mutant in `PROJECT.json`, an edit of
one action or operator that a plausible slip in the code would produce and that
TLC finds to violate the property. The type invariants are theorems (section 4)
except in `Http1Client`, where `TypeOK` can
be added to the `INVARIANTS` of the run.

**Bounds.** Three callers are needed for the worker: one inside the lock, one
queued on it, and a closer that races them for the join slot. The client's three
requests over two origins let a connection be pooled, reused, replaced and
reused after an error of the request in between; three streams are more than one
origin can keep. Tokens in flight (`MaxWire`) cover the end of one response and
the head of another in one read. Two children and three requests give a child
that is left behind by an interrupted call, its successor, and a late answer; two
interrupts leave a reader and a frame, or two parts of frames, behind;
`MaxRequests`, `MaxInterrupts` bound counters only. A counter that is full at
two instead of 4294967295 reaches the overflow guard with three handles. The
connection's milliseconds need only tell a wait apart from the sum of several;
the resolver of `tcp` may outlast the deadline. Two addresses show that each
gets a wait of its own.

In `py_session` the second thread and the second call are needed for a creation
that races another or `close()`; four native sessions are the most that two
threads with two calls create; the first request of one thread takes every value
of one argument at a time, and every set of up to two headers with each kind of
body. The PEM files are all of up to five lines, and all of up to seven that begin
with a certificate: long enough for a second certificate and a cut in it. In
`release` two processes with four tools in all let a tool that fails meet one that
succeeded on the same output; two files make a copy that stops half-way. Of the
four paths two are canonical and side by side, so that a regeneration lists one and
misses the other, or finds the same release (one of two) in both; one beside them
is not canonical, and one is in another directory, whose regeneration replaces the
module. The locks,
archives and sources are products of all classes that the patterns of the code
tell apart, with up to two files (three members for the sum of the sizes). In
`capture` two handshakes with two attempts give a launch whose predecessor is
captured late; the handshakes have two orders, a list that varies in an entry or
in its length, and a value that varies.

The wires of `response` are products of status lines, fields and bodies, heads
preceded by informational ones, and samples with any one byte lost or replaced.
The limits are small (`Response.cfg`), and for each of them there are wires that
meet it and wires that pass it by one. A segment of four bytes (`MaxSegment`)
holds the end of a line, the whole of the next and the beginning of a third, or
the end of a response and bytes after it; the peer may close after any segment.

**Deadlock** is not checked where a system may stop: after the last bounded
request, a closed handle, a dead parent, a connection that is gone. That calls
return is checked as liveness instead.

**Fairness.** Weak fairness of each thread's or process's own steps: the
operating system schedules threads, and a blocking wait with a timeout ends.
Nothing is assumed of servers and peers. In `WorkerHandle` a backend command is
assumed to end, which `RequestEnds` and `ConnectionEnds` justify, and callers
may stop calling (`Quiet`): a mutex promises no order among waiters, so a caller
could be overtaken for ever by others that never stop. `ProfileWorker` assumes
that a terminated process exits; a child's native session may hang for
`CallsReturn`, and must return for `OrphansExit`, which says so in its premise.
`BrowserCapture` has weak fairness of its two threads and none of the clients.
`Http1Client`, `NssRuntime`, `ResponseParser`, `PySession` and `RuntimeFiles`
are about safety only: that a request of the client ends is `RequestEnds` and
`ConnectionEnds` of its transports, whose every operation ends.
`NssConnection` and `TcpTransport` have strong fairness of `Tick`: time advances
however often the peer interrupts the wait with a byte.

## 4. Proofs

**WorkerHandleProofs**, for any set of callers. The properties are not
inductive as they stand: that nothing is in flight for a caller outside the
lock depends on where the holder of the lock is and what the worker has in
hand, and `CloseMeansStopped` depends on who took the join handle out of its
slot. The invariant `IInv` adds these as named conjuncts: who holds each lock is
where its code holds it, a command in flight belongs to the holder of the
sender lock, the emptied slots imply the phase of the worker. One step per
action preserves it; the theorems `TypeCorrect`, `CloseStops`, `SerialFlight`,
`EmptySlotShuts` follow. `Refinement` shows that the initial states map to
initial states and every step to a step of `SerialBackend` or a stutter, with
`IInv` at hand (a refusal needs that the worker has really left its loop).

**NssProofs** on `NssRuntime`, for any finite sets of handles and objects and any bound
of the counter. `IInv` relates both counters to cardinalities: `references` is
the number of handles held (`CountInv`), `refs[r]` is the number of objects of
`r` plus one for a handle not yet freed (`RefsInv`). Without them neither "the
last one" in `GlobalRelease` nor the freeing of a runtime can be shown to be
right. The lemmas on adding and removing a member of `Held` and `Owned` carry
the arithmetic. The theorems are `TypeCorrect`, `OwnTrust`, `TrustReleased`,
`RuntimeOutlives` and `LoadedOnce`.

**ResponseParserProofs**, for any limits, any set of wires and any segments: the
limits are not assumed to be consistent with each other, nor the wires to make
sense. `WithinLimits` is inductive only together with the types and with
`LineInv`: a line whose carriage return has been read still fits (its length is
checked when the carriage return is read, its bytes are counted when the line
feed is), and there is no body before the head is complete. The theorems are
`TypeCorrect` and `LimitsHold`. The lemma `RefusalKeeps` carries all the failing
turns, `HeadGoesOn` and `HeadBytes` what the turns of a head share.

`EndIsFound` and `NoneIsMissed` compare that parser with the grammar, which reads
the whole input at once. The proof has three parts. First, the grammar's
recursive functions are given their equations: the value of each at a place of
the wire depends on later places only, so there is one such function (`BlockIs`,
`ChunkIs`, `MessageIs` by `FixedPoint`), and it satisfies what it is defined by
(`BlockEquation`, `ChunkEquation`, `MessageEquation`). Second, lemmas on lines,
blocks of lines, heads, chunks and trailers say how what a place means follows
from the line that begins there, and that the fields a head is judged by are what
`Told` says of the variable `current`. Third, `MeaningInv`: while the parser runs,
every cut of the wire that reaches at least as far as it has consumed means what
`Expected` says, state by state, of what the parser has kept. In a body of fixed
length, for instance, the message is `body` with the next `remaining` bytes, if
they are there, and none otherwise; in a head it is what the grammar finds at the
head's first byte, of which the lines so far are known. It speaks of every cut
because the parser does not know how far the wire goes on: the properties alone,
or `Expected` of the bytes fed so far only, are not inductive (`Feed` would break
them). Each action has a lemma that a cut keeps meaning what it meant (`...Means`)
and one that `MeaningInv` is kept (`...Meaning`); `EndMeans` and `OpenEndMeans`
say what it comes to when the bytes end. The names of the actions are those of the
model, so that a change of the parser shows where the proof has to change.

**Http1ClientProofs** on `TcpTransport`, for any timeout, resolver and number of addresses. The
four safety properties are inductive together with what each phase knows: a wait
for the peer ends at the deadline exactly (`WaitInv`), a remembered timeout of an
address used up the time (`LastErrorInv`), there are no addresses before the
resolver returns, and no outcome before the end.

**PySessionProofs**, for any threads, native sessions, arguments, bundles and
bounds. `InsecureInv` says of every place in `request()` whose choice the policy
in hand is, up to the statement that sends; it needs `Shapes` (which places have
which locals) and the lemma that normalisation keeps `verify`. `VerifiedAsAgreed`
needs `AgreedInv`: unless creations raced, the thread that is creating is alone
in it, the session's policy is the one its worker was given, or is not set yet
and then nobody has read it. `OnlyRacesLeak` needs `SlotsInv` and `LeakInv`: what
is open is in a slot, or in the list of a thread that is closing. `OneMessage` needs
`NormalInv` (the headers in hand are headers, the length is that of a body) and
counts them in the sequence that the serializer puts together (`WireIs`,
`Between`, `OnlyOne`). `PolicyIsBundle` has two halves: `ReadIs`, that for any
text the reader's scan and the grammar of `Anchors` agree, and `KnownInv`, that
whatever the session, a call in progress or a worker holds was read from one
bundle. `ReadIs` keeps scan and reference in step (`InStep`) line by line, as long
as every line that counts is the right one, and shows that a scan that is
`Doomed` stays so.

**ToolProofs** on `RuntimeFiles`, for any processes, files and bounds. `OwnerInv` says which
process owns an incomplete output, `LeftInv` where a process has files of its own
and that they are gone when it ends, `RuntimeInv` that an incomplete runtime
belongs to someone who will remove it. For the embedded module, `RegeneratorInv`
relates what a regeneration has listed to the locks there are in its directory
and says that what it goes on with is whole and of distinct releases, `WriterInv` says
that one process writes at a path, `WholeInv` that what is reported or embedded is
whole, `AloneInv` that without overlap one process at most
is in it. `CacheOnlyImproves` and `LockIsWrittenOnce` are action properties shown
step by step. `LocksAgree` and `InputsAreSafe` compare the rules of
`RuntimeLocks` with each other and with what they ought to mean, for locks and
archives of any length. The rules of locks are partly shared: `lock_release()`
reads locks with the build's `_load_lock()` and writes them by rules of its own, and
the start of a worker has a copy of the build's; what they may differ in is named by
`LocksAgree` (the profile's version, versions that are not numeric or not the ones of
schema 1, names that differ in case only, empty files). The loop over the members of
an archive, with its set of names and its sum of sizes, is a fold, related element by
element to statements on the archive as a whole.

**ToolProofs** on `BrowserCapture`, for any number of handshakes, attempts and
waiting connections. `ManifestIsComplete` needs `CountedInv` (what the server has
recorded and what the main thread believes) and `StopInv` (a server that has been
told to stop has ended when it was joined); `RecordsAreTrue` needs who may still
be connected (`LaunchedInv`, `OnceInv`), what a client has had before
(`LabelInv`) and that records come in the order of the launches unless one was
disturbed (`OrderInv`); `NothingLeftRunning` needs `LeftBehindInv`.
`VerdictsAreSound` is about `FingerprintEvidence` on any captures: that no
difference is reported means that all the baseline has in common is found in
every candidate handshake, and a candidate made of the baseline's own handshakes
is reported for no reason but the one that the property names.

**ProfileWorkerProofs**, for any children, rooms of their pipes and bounds.
`AnswerIsOwn` is not inductive: an interrupted call leaves a reader and a late
answer behind. `CountInv` says that the current child owes as many frames (`Owed`)
as there are readers: those written to it, held in part, being served and on their
way back, and those lost behind a part, but for the ones left `unread`. So the
difference between the two sides of a dialog is accounted for by interpreter
exceptions, and no other failure adds to it. `AnswerInv` says whose answers
they are; `ReadersInv` bounds the readers by the interrupts; `ControlInv` says in
which places of the parent a child is the current one, and `CloseInv` what is
gone when `close()` has returned. The lemmas are one per step of a child, and one
per step of the parent.

**NssProofs** on `NssConnection`, for any timeout, resolver and number of addresses.
`OwnerInv` ties the owner of the socket to the number of releases so far.
`ConnectIsBounded` is a sum with a multiplication in it, which the SMT solver does
not do by itself: `Spent(n)` names the resolver's time and that of `n` waits, the
lemmas `Grows` and `SpentIs` give its only facts, and `TimeInv` bounds each phase
by the waits that are behind it.

**Http1ClientProofs** on `Http1Client`, for any origins, streams, requests and tokens in flight.
`PoolInv` is `StreamsAccountedFor` stream by stream, with the streams never
opened; `LostInv` and `CarriedInv` relate the history to the pool and to the
stream in hand. `OwnWholeAnswer` is the hard one: `AnswerInv` says that every
stream in the pool is quiet (nothing on the wire, nothing asked, nothing being
answered), and that the stream in hand is in one of six stages of exactly one
exchange (`Quiet`, `Asked`, `HeadSent`, `AllSent`, `HeadRead`, `EndSent`). The
reuse of a stream rests on the last read having been used up.

The assumptions are those named in the modules (`CallersAssumption`,
`RuntimesAssumption` and so on): the values for "nobody" are not members of
the sets they complete, and sets that are counted are finite. TLC evaluates
them in every run.

Proved although no run checks them: `TypeOK` of nine modules, `OneCommandInFlight`
and `EmptySlotMeansShut` of `WorkerHandle`, `TrustGone` and `LoadedForGood` of
`NssRuntime`, `TimeoutMeansTime` and `EveryAddressTried` of `TcpTransport`,
`LockIsWrittenOnce` of `RuntimeFiles`.

**Induction over data.** The library's induction theorems take an operator as a
parameter and cannot be used here. `SequenceFolds` has a form without one: a set
of numbers that holds zero and the successor of each of its members (which
follows from the well-ordering of the naturals) is all of them. Stated for the
set of the lengths at which a loop and its reference agree, it does what an
induction over the sequence does.

Only model-checked: liveness (`CallsReturn` of the native worker and of the HTTPS
session, `RequestEnds`, `OrphansExit`, `ConnectionEnds`, `CaptureEnds`; temporal
reasoning under fairness and `ENABLED` are outside the prover's reach). Every
safety property and every action property that a run checks is a theorem.

## 5. Where the code and its documents disagree

* `README.md:30` promises that the idle connection of an origin is safely
  reconnected when it has become invalid. `execute()` writes to the idle stream
  and returns the error (`http_stale_idle`); only the next request reconnects.
* `docs/multi-profile-http-design.md:183` says that the deadline of a request
  covers DNS, TCP, TLS, writing and reading. Each address and the handshake get
  the whole timeout, the resolver none (`connection_deadline`). What does hold is
  `ConnectIsBounded` and `ExchangeInTime`.

Other observations, without a finding of their own:

* `_exceptions.py:25` says that a `CertificateError` means that the validation of
  the chain failed. In the default mode `HandshakeError` of `NssConnection` reports
  any failed handshake as one.
* A session may wait for ever when an interpreter exception left its child in
  the middle of an answer that nobody reads and the next frame is larger than the
  room in the pipe; hence the premise of `CallsReturn`.
* A request whose body was being written when the interpreter exception came may be
  sent to its server by the next call, completed with bytes of that call's frame
  (`Completes`): the session is kept and its stream of frames is not marked as
  broken. The next call fails with a `WorkerError`.
* `lock_release()` reports success for a lock that the regenerated module does not
  hold when its output is not called `firefox-*.lock.json`, and a lock in another
  directory makes the module lose the ones of this.
* `close()` of a profile session may report the late error of an interrupted
  request as its own.
* Two threads that use one `Session` for the first time may each create a native
  session, one of which is never closed: the exceptions of `OnlyRacesLeak` and
  `VerifiedAsAgreed` are needed.
* A lone surrogate in a URL or a body leaves `normalize_request()` as a
  `UnicodeEncodeError`, not as one of the package's exceptions (`UrlEscapes`).
* `prepare_browser()` does not remove what `copytree()` had copied when it fails:
  `FailureLeavesNothing` is about the runtime, part files and temporary directories.
* A capture compared with its own baseline is reported as different when a list of
  which some entries vary in the baseline happens not to vary in the candidate
  (the exception in `VerdictIsSound`).

## 6. Not modelled

The grammar of URLs, the characters of headers and the bytes of a request: pure
functions, which `RequestNormalization` reduces to their cases. The conversion of
values between Python and Rust, response models and exception classes: data.
Parsers of PE files, of command lines and of TLS and HTTP/2 records
(`tools/fingerprint`), the files of a Firefox profile and its certificate
override: pure functions and formats, better served by tests. The decompression of
certificates, the stub backend, Windows sockets and platform adapters: thin
wrappers over external code. Certificate validation is NSS's own; the models only
know its result. The effect of `cert_destroy()` on a certificate that NSS keeps
elsewhere is external to `NssRuntime`. Interrupts during the short waits for an
exit, and before a new child is stored, are not in `ProfileWorker`. Files are modelled as the code's own steps leave
them: a power failure that loses what was written is not.

Interactions are modelled at their interfaces, not in one product: `PySession`
uses native sessions a call at a time, `WorkerHandle` its backend a command at a
time, `Http1Client` a transport an operation at a time and a parser a response at a
time, and each of these promises is what the module below checks. The parent's
timeout (request plus two seconds) is not composed with `ConnectIsBounded`.

## 7. Plan

Done: every component whose state changes over time, with proofs of all their
safety properties. What could come next:

1. An abstract connector (a stream in time, or an error) that both transports
   implement, with their different bounds; composition of the parent's timeout
   with the child's.
2. `Http1Client` as a refinement of an abstract exchange: a whole answer or an
   error, once.
3. The parsers of `tools/fingerprint` as operators against reference definitions.
