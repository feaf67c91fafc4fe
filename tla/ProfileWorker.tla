---------------------------- MODULE ProfileWorker ----------------------------
(***************************************************************************)
(* One HTTPS session: python/foxreq/_worker_session.py in the parent, and  *)
(* the child processes it starts, python/foxreq/_profile_worker.py, joined *)
(* by two pipes of frames (_ipc.py).                                       *)
(*                                                                         *)
(* A call of the parent runs under the session's lock from begin to end,   *)
(* so there is one call at a time.  It answers for every failure of the    *)
(* dialog by ending the child, except one: an exception of the             *)
(* interpreter (KeyboardInterrupt) goes through it and leaves the child as *)
(* it is, with the thread that reads an answer, or with a frame that was   *)
(* written, whole or in part, and has no such thread.                      *)
(***************************************************************************)
EXTENDS Naturals, Sequences, FiniteSets

CONSTANTS Processes,      \* the child processes that may be started
          NoProcess,      \* self._process is None
          MaxRequests,    \* bound: requests that get an identifier
          MaxInterrupts,  \* bound: interpreter exceptions
          PipeRooms       \* whole frames that may fit in a pipe; 0 for large bodies

ASSUME ProcessesAssumption == NoProcess \notin Processes
ASSUME BoundsAssumption ==
  MaxRequests \in Nat /\ MaxInterrupts \in Nat /\ PipeRooms \subseteq Nat

VARIABLES
  process,    \* self._process
  closed,     \* self._closed
  nextId,     \* self._next_request_id
  pc,         \* where the call under the lock is
  ending,     \* the child that _abort_process() or _finish_process() waits for
  outcome,    \* what the last call returned
  child,      \* per process: the child and its two pipes
  interrupts  \* interpreter exceptions so far

vars == << process, closed, nextId, pc, ending, outcome, child, interrupts >>
parentVars == << process, closed, nextId, pc, ending, outcome, interrupts >>

Frame(kind, id) == [kind |-> kind, id |-> id]
NoId == 0
ToChild   == {"init", "request", "close",
              "part"}  \* the first bytes of one of them, and no more
FromChild == {"ready", "response", "oversized", "error", "worker_error", "closed"}
Failed    == 1       \* any exit status but zero

Waits == {"startup", "waiting", "closeWaiting"}   \* _read_frame_with_timeout
ParentStates == Waits \cup {"idle", "init", "write", "closeWrite",
                            "finishing", "aborting", "gone"}
ChildStates == {"unborn", "booting", "loop", "serving", "closing", "stuck",
                "leaving", "exited"}
Outcomes == {"none", "response", "error", "worker", "closed", "invalid",
             "interrupted", "ok"}

Running(p) == child[p].at \notin {"unborn", "exited"}
Exited(p)  == child[p].at = "exited"

\* The frames a child has yet to read, handle or get read.
Outstanding(p) ==
  Len(child[p].stdin) + Len(child[p].stdout)
    + (IF child[p].at \in {"serving", "closing"} THEN 1 ELSE 0)
    + (IF child[p].held = "part" THEN 1 ELSE 0)

Init ==
  /\ process = NoProcess /\ closed = FALSE /\ nextId = 1
  /\ pc = "idle" /\ ending = NoProcess
  /\ outcome = Frame("none", NoId)
  /\ \E room \in PipeRooms :
       child = [p \in Processes |->
                [at |-> "unborn", status |-> 0, id |-> NoId, room |-> room,
                 stdin |-> << >>, stdinOpen |-> FALSE,
                 stdout |-> << >>, stdoutOpen |-> FALSE,
                 held |-> "nothing",  \* bytes the child has read of a frame
                 readers |-> 0,       \* reader threads left behind
                 unread |-> 0,        \* history: frames left without a reader,
                 lost |-> 0,          \* and frames read as the rest of a part
                 terminated |-> FALSE]]
  /\ interrupts = 0

-----------------------------------------------------------------------------
(* What the parent's calls are made of *)

Returns(kind, id) == pc' = "idle" /\ outcome' = Frame(kind, id)

Receive(c) == [c EXCEPT !.stdout = Tail(@)]
ClosePipes(c) == [c EXCEPT !.stdinOpen = FALSE, !.stdoutOpen = FALSE]

\* Mutant: the child is asked to end and not waited for.
AbortsHastily(kind, id, c) ==
  /\ process' = NoProcess
  /\ pc' = "idle"
  /\ ending' = NoProcess
  /\ outcome' = Frame(kind, id)
  /\ child' = [child EXCEPT ![process] =
                 [ClosePipes(c) EXCEPT !.terminated = (c.at # "exited")]]

\* _abort_process(): the child is forgotten, asked to end if it still runs,
\* and waited for.  c is the child with the frame that was read taken off.
Aborts(kind, id, c) ==
  /\ process' = NoProcess
  /\ ending' = process
  /\ pc' = "aborting"
  /\ outcome' = Frame(kind, id)
  /\ child' = [child EXCEPT ![process] =
                 [c EXCEPT !.terminated = (c.at # "exited")]]

\* The wait ends, at the latest after kill(); the pipes are closed.
AbortEnds ==
  /\ pc = "aborting"
  /\ Exited(ending)
  /\ child' = [child EXCEPT ![ending] = ClosePipes(@)]
  /\ ending' = NoProcess
  /\ pc' = "idle"
  /\ UNCHANGED << process, closed, nextId, outcome, interrupts >>

\* A pipe takes a frame when there is room for it, or somebody reading it.
Accepts(pipe, room, reading) == Len(pipe) < room \/ (pipe = << >> /\ reading)

\* write_frame(): it blocks while the pipe is full, without a timeout, and
\* fails once the child that should read has exited.
Writes(at, kind, id, next) ==
  /\ pc = at
  /\ \/ /\ Running(process)
        /\ Accepts(child[process].stdin, child[process].room,
                   child[process].at \in {"booting", "loop"})
        /\ child' = [child EXCEPT ![process].stdin =
                       Append(@, Frame(kind, id))]
        /\ pc' = next
        /\ UNCHANGED << process, ending, outcome >>
     \/ /\ Exited(process)
        /\ Aborts("worker", NoId, child[process])
  /\ UNCHANGED << closed, interrupts >>

\* Trust anchors or a request that cannot be encoded, before any byte of the
\* frame is written.
EncodingFails ==
  /\ pc \in {"init", "write"}
  /\ Aborts("worker", NoId, child[process])
  /\ UNCHANGED << closed, nextId, interrupts >>

\* A whole frame for the reader of this call.
Reads(at, kind, id) ==
  /\ pc = at
  /\ child[process].stdout # << >>
  /\ Head(child[process].stdout) = Frame(kind, id)

\* Mutant: a frame that cannot be decoded leaves the worker as it is.
ReadFailsKeeping ==
  /\ pc \in Waits
  /\ \/ /\ child[process].stdout # << >> /\ child[process].readers > 0
        /\ Returns("worker", NoId)
        /\ child' = [child EXCEPT
                       ![process] = [Receive(@) EXCEPT !.readers = @ - 1]]
        /\ UNCHANGED << process, ending >>
     \/ Aborts("worker", NoId, child[process])
  /\ UNCHANGED << closed, nextId, interrupts >>

\* Mutant: the frame is read without a timeout.
ReadFailsUntimed ==
  /\ pc \in Waits
  /\ \/ /\ Exited(process) /\ child[process].stdout = << >>
        /\ Aborts("worker", NoId, child[process])
     \/ /\ child[process].stdout # << >> /\ child[process].readers > 0
        /\ Aborts("worker", NoId,
                  [Receive(child[process]) EXCEPT !.readers = @ - 1])
  /\ UNCHANGED << closed, nextId, interrupts >>

\* The reader finds the pipe at its end, or shares the bytes of a frame with
\* a reader that an interrupted call left behind, or is too late.
ReadFails ==
  /\ pc \in Waits
  /\ \/ /\ Exited(process) /\ child[process].stdout = << >>
        /\ Aborts("worker", NoId, child[process])
     \/ /\ child[process].stdout # << >> /\ child[process].readers > 0
        /\ Aborts("worker", NoId,
                  [Receive(child[process]) EXCEPT !.readers = @ - 1])
     \/ Aborts("worker", NoId, child[process])
  /\ UNCHANGED << closed, nextId, interrupts >>

\* The exception passes through a call that writes, or has written and not
\* started its reader: nothing, a part of the frame or the whole frame is in
\* the pipe.
WriteInterrupted(at, kind, id) ==
  /\ pc = at
  /\ \/ UNCHANGED child
     \/ /\ Running(process)
        /\ \E written \in {kind, "part"} :
             /\ written # "part" =>
                  Accepts(child[process].stdin, child[process].room,
                          child[process].at \in {"booting", "loop"})
             /\ child' = [child EXCEPT ![process] =
                            [child[process] EXCEPT
                               !.stdin = Append(@, Frame(written, id)),
                               !.unread = @ + 1]]

\* The exception passes through the call, which keeps the child.  The reader
\* thread of a call that waits stays.
Interrupted ==
  /\ interrupts < MaxInterrupts
  /\ interrupts' = interrupts + 1
  /\ Returns("interrupted", NoId)
  /\ \/ /\ pc \in Waits
        /\ child' = [child EXCEPT ![process].readers = @ + 1]
     \/ WriteInterrupted("init", "init", NoId)
     \/ WriteInterrupted("write", "request", nextId - 1)
     \/ WriteInterrupted("closeWrite", "close", NoId)
  /\ UNCHANGED << process, closed, nextId, ending >>

\* A reader left behind takes the next frame for nobody.
LeftReaderReads(p) ==
  /\ child[p].readers > 0
  /\ child[p].stdout # << >>
  /\ child' = [child EXCEPT ![p] = [Receive(child[p]) EXCEPT !.readers = @ - 1]]
  /\ UNCHANGED parentVars
-----------------------------------------------------------------------------
(* request() and _start() *)

\* A child found dead is finished and reported.  _finish_process() raises
\* before self._process is cleared when the status is not zero.
FindsDead ==
  /\ ~closed /\ process # NoProcess /\ Exited(process)
  /\ Returns("worker", NoId)
  /\ process' = IF child[process].status = 0 THEN NoProcess ELSE process
  /\ child' = [child EXCEPT ![process] = ClosePipes(@)]
  /\ UNCHANGED nextId

\* The checks, the runtime validation, and the start of a child.
RequestBegins ==
  /\ pc = "idle" /\ nextId <= MaxRequests
  /\ \/ /\ closed
        /\ Returns("closed", NoId)
        /\ UNCHANGED << process, child, nextId >>
     \/ /\ ~closed /\ process = NoProcess
        /\ \E kind \in {"invalid", "worker"} : Returns(kind, NoId)
        /\ UNCHANGED << process, child, nextId >>
     \/ /\ ~closed /\ process = NoProcess
        /\ \E p \in Processes :
             /\ child[p].at = "unborn"
             /\ process' = p
             /\ child' = [child EXCEPT ![p] =
                            [@ EXCEPT !.at = "booting",
                                      !.stdinOpen = TRUE, !.stdoutOpen = TRUE]]
        /\ pc' = "init"
        /\ outcome' = Frame("none", NoId)
        /\ UNCHANGED nextId
     \/ /\ ~closed /\ process # NoProcess /\ Running(process)
        /\ pc' = "write"
        /\ nextId' = nextId + 1
        /\ outcome' = Frame("none", NoId)
        /\ UNCHANGED << process, child >>
     \/ FindsDead
  /\ UNCHANGED << closed, ending, interrupts >>

InitWrites == Writes("init", "init", NoId, "startup") /\ UNCHANGED nextId

StartupEnds ==
  /\ \/ /\ Reads("startup", "ready", NoId)
        /\ pc' = "write"
        /\ nextId' = nextId + 1
        /\ child' = [child EXCEPT ![process] = Receive(@)]
        /\ UNCHANGED << process, ending, outcome >>
     \/ /\ Reads("startup", "error", NoId)
        /\ Aborts("error", NoId, Receive(child[process]))
        /\ UNCHANGED nextId
  /\ UNCHANGED << closed, interrupts >>

RequestWrites ==
  Writes("write", "request", nextId - 1, "waiting") /\ UNCHANGED nextId

\* Mutant: the identifier of an answer is not compared.
RequestEndsWithAny ==
  /\ pc = "waiting"
  /\ child[process].stdout # << >>
  /\ LET frame == Head(child[process].stdout)
     IN  IF frame.kind \in {"response", "error"}
           THEN /\ Returns(frame.kind, frame.id)
                /\ child' = [child EXCEPT ![process] = Receive(@)]
                /\ UNCHANGED << process, ending >>
           ELSE Aborts("worker", NoId, Receive(child[process]))
  /\ UNCHANGED << closed, nextId, interrupts >>

\* _decode_response(): only the answer to this very request counts, and an
\* error in it leaves the worker as it is.
RequestEnds ==
  /\ pc = "waiting"
  /\ child[process].stdout # << >>
  /\ LET frame == Head(child[process].stdout)
     IN  IF frame.id = nextId - 1 /\ frame.kind \in {"response", "error"}
           THEN /\ Returns(frame.kind, frame.id)
                /\ child' = [child EXCEPT ![process] = Receive(@)]
                /\ UNCHANGED << process, ending >>
           ELSE Aborts("worker", NoId, Receive(child[process]))
  /\ UNCHANGED << closed, nextId, interrupts >>

-----------------------------------------------------------------------------
(* close() *)

CloseBegins ==
  /\ pc = "idle"
  /\ closed' = TRUE
  /\ \/ /\ closed \/ process = NoProcess
        /\ Returns("ok", NoId)
        /\ UNCHANGED << process, ending, child >>
     \/ /\ ~closed /\ process # NoProcess
        /\ IF Exited(process)
             THEN Aborts("worker", NoId, child[process])
             ELSE /\ pc' = "closeWrite"
                  /\ outcome' = Frame("none", NoId)
                  /\ UNCHANGED << process, ending, child >>
  /\ UNCHANGED << nextId, interrupts >>

CloseWrites ==
  Writes("closeWrite", "close", NoId, "closeWaiting") /\ UNCHANGED nextId

\* Identifiers are not looked at here: the answer to an interrupted request
\* is taken for the answer to the close.
CloseAnswered ==
  /\ pc = "closeWaiting"
  /\ child[process].stdout # << >>
  /\ LET kind == Head(child[process].stdout).kind
     IN  IF kind = "closed"
           THEN /\ pc' = "finishing"
                /\ ending' = process
                /\ child' = [child EXCEPT ![process] =
                               [Receive(@) EXCEPT !.stdinOpen = FALSE]]
                /\ UNCHANGED << process, outcome >>
           ELSE Aborts(IF kind = "error" THEN "error" ELSE "worker", NoId,
                       Receive(child[process]))
  /\ UNCHANGED << closed, nextId, interrupts >>

\* Mutant: close() is content with the closed frame.
CloseFinishesEarly ==
  /\ pc = "finishing"
  /\ process' = NoProcess /\ ending' = NoProcess
  /\ Returns("ok", NoId)
  /\ child' = [child EXCEPT ![process] = ClosePipes(@)]
  /\ UNCHANGED << closed, nextId, interrupts >>

\* _finish_process(): status zero, another status, or no exit in time.
CloseFinishes ==
  /\ pc = "finishing"
  /\ IF Exited(process) /\ child[process].status = 0
       THEN /\ process' = NoProcess /\ ending' = NoProcess
            /\ Returns("ok", NoId)
            /\ child' = [child EXCEPT ![process] = ClosePipes(@)]
       ELSE Aborts("worker", NoId, [child[process] EXCEPT !.stdoutOpen = FALSE])
  /\ UNCHANGED << closed, nextId, interrupts >>

\* The parent goes away, in the middle of whatever it was doing, and with it
\* whoever reads or is owed a frame.
ParentDies ==
  /\ pc # "gone"
  /\ pc' = "gone"
  /\ child' = [p \in Processes |->
                [ClosePipes(child[p]) EXCEPT !.readers = 0,
                                             !.unread = 0, !.lost = 0]]
  /\ UNCHANGED << process, closed, nextId, ending, outcome, interrupts >>

-----------------------------------------------------------------------------
(* The child: run() *)

\* What it has read, or has not, is gone with it.
Exits(c, status) ==
  [c EXCEPT !.at = "exited", !.status = status,
            !.id = NoId, !.stdin = << >>, !.held = "nothing"]
Leaves(c, status) == [c EXCEPT !.at = "leaving", !.status = status]

\* write_frame() in the child, which ends at once when nobody can read.
ChildWrites(p, kind, id, next) ==
  IF child[p].stdoutOpen
    THEN /\ Accepts(child[p].stdout, child[p].room,
                    \/ p = process /\ pc \in Waits
                    \/ child[p].readers > 0)
         /\ child' = [child EXCEPT
                        ![p] = [next EXCEPT !.stdout =
                                  Append(@, Frame(kind, id))]]
    ELSE child' = [child EXCEPT ![p] = Exits(@, Failed)]

\* The native session is built, or its error is reported and the child ends.
\* c is the child with the frame that was read taken off.
Boots(p, c) ==
  \/ ChildWrites(p, "ready", NoId, [c EXCEPT !.at = "loop"])
  \/ ChildWrites(p, "error", NoId, Leaves(c, Failed))

\* The first frame has to be an init frame.
ChildBoots(p) ==
  /\ child[p].at = "booting" /\ child[p].held = "nothing"
  /\ child[p].stdin # << >>
  /\ Head(child[p].stdin).kind # "part"
  /\ IF Head(child[p].stdin).kind = "init"
       THEN Boots(p, [child[p] EXCEPT !.stdin = Tail(@)])
       ELSE child' = [child EXCEPT ![p] = Exits(@, Failed)]
  /\ UNCHANGED parentVars

ChildReads(p) ==
  /\ child[p].at = "loop" /\ child[p].held = "nothing"
  /\ child[p].stdin # << >>
  /\ LET frame == Head(child[p].stdin)
     IN  /\ frame.kind # "part"
         /\ child' = [child EXCEPT ![p] =
                        [child[p] EXCEPT !.stdin = Tail(@), !.id = frame.id,
                                         !.at = IF frame.kind = "close"
                                                THEN "closing" ELSE "serving"]]
  /\ UNCHANGED parentVars

\* read_frame() blocks in the middle of a frame.
ChildReadsPart(p) ==
  /\ child[p].at \in {"booting", "loop"} /\ child[p].held = "nothing"
  /\ child[p].stdin # << >>
  /\ LET frame == Head(child[p].stdin)
     IN  /\ frame.kind = "part"
         /\ child' = [child EXCEPT ![p] =
                        [child[p] EXCEPT !.stdin = Tail(@), !.id = frame.id,
                                         !.held = "part"]]
  /\ UNCHANGED parentVars

\* A part that was cut in its body is whole with the bytes of the next frame:
\* an init frame has no identifier, a request has one.  c is the child with
\* these bytes taken off.
Completes(p, c) ==
  /\ child[p].held = "part"
  /\ \/ /\ child[p].at = "booting" /\ child[p].id = NoId
        /\ Boots(p, c)
     \/ /\ child[p].at = "loop" /\ child[p].id # NoId
        /\ child' = [child EXCEPT ![p] = [c EXCEPT !.at = "serving"]]

\* The next frame is read as the rest of the part, and is lost: together they
\* are no valid frame, are not enough for one, or are one, and there may be
\* bytes over, which are no frame either.
ChildReadsOn(p) ==
  /\ child[p].at \in {"booting", "loop"} /\ child[p].held # "nothing"
  /\ child[p].stdin # << >>
  /\ LET c == [child[p] EXCEPT !.stdin = Tail(@), !.lost = @ + 1]
     IN  \/ child' = [child EXCEPT ![p] = Exits(@, Failed)]
         \/ child' = [child EXCEPT ![p] = c]
         \/ \E over \in {"nothing", "rest"} : Completes(p, [c EXCEPT !.held = over])
  /\ UNCHANGED parentVars

\* After the last frame: the native session is closed, the process ends.
ChildExits(p) ==
  /\ child[p].at = "leaving"
  /\ child' = [child EXCEPT ![p].at = "exited"]
  /\ UNCHANGED parentVars

\* Mutant: the end of the input is only noticed during startup.
ChildInputEndsEarly(p) ==
  /\ child[p].at = "booting"
  /\ child[p].stdin = << >> /\ ~child[p].stdinOpen
  /\ child' = [child EXCEPT ![p] = Exits(@, Failed)]
  /\ UNCHANGED parentVars

\* The end of the input while a frame is expected.
ChildInputEnds(p) ==
  /\ child[p].at \in {"booting", "loop"}
  /\ child[p].stdin = << >> /\ ~child[p].stdinOpen
  /\ child' = [child EXCEPT ![p] = Exits(@, Failed)]
  /\ UNCHANGED parentVars

\* native.request(): a response, an error of the session, an exception; or a
\* response with a body that no reader accepts, so that the write never ends.
ChildServes(p) ==
  /\ child[p].at = "serving"
  /\ \/ \E kind \in {"response", "error"} :
          ChildWrites(p, kind, child[p].id, [child[p] EXCEPT !.at = "loop"])
     \/ ChildWrites(p, "oversized", child[p].id, [child[p] EXCEPT !.at = "stuck"])
     \/ ChildWrites(p, "worker_error", child[p].id, Leaves(child[p], Failed))
  /\ UNCHANGED parentVars

ChildCloses(p) ==
  /\ child[p].at = "closing"
  /\ \/ ChildWrites(p, "closed", NoId, Leaves(child[p], 0))
     \/ ChildWrites(p, "error", NoId, Leaves(child[p], Failed))
  /\ UNCHANGED parentVars

\* The write of a child that is stuck in it fails when the reader goes away.
ChildUnstuck(p) ==
  /\ child[p].at = "stuck"
  /\ ~child[p].stdoutOpen
  /\ child' = [child EXCEPT ![p] = Exits(@, Failed)]
  /\ UNCHANGED parentVars

\* A crash, an interrupt, a signal of the operating system.
ChildDies(p) ==
  /\ Running(p)
  /\ child' = [child EXCEPT ![p] = Exits(@, Failed)]
  /\ UNCHANGED parentVars

\* terminate() or kill() takes effect.
ChildTerminated(p) == child[p].terminated /\ ChildDies(p)

-----------------------------------------------------------------------------
CallBegins == RequestBegins \/ CloseBegins

CallSteps ==
  \/ InitWrites \/ StartupEnds
  \/ RequestWrites \/ RequestEnds
  \/ CloseWrites \/ CloseAnswered \/ CloseFinishes
  \/ ReadFails
  \/ AbortEnds

\* What a child does outside of the native session.
ChildSteps(p) ==
  \/ ChildBoots(p) \/ ChildReads(p) \/ ChildReadsPart(p) \/ ChildReadsOn(p)
  \/ ChildInputEnds(p) \/ ChildUnstuck(p)
  \/ ChildExits(p) \/ ChildTerminated(p)

NativeSteps(p) == ChildServes(p) \/ ChildCloses(p)

Next ==
  \/ CallBegins \/ CallSteps
  \/ EncodingFails
  \/ Interrupted
  \/ ParentDies
  \/ \E p \in Processes :
       \/ ChildSteps(p) \/ NativeSteps(p) \/ ChildDies(p)
       \/ LeftReaderReads(p)

\* Both programs run, their timeouts elapse, and a signal that ends a process
\* does so.  Nothing is asked of the native session of the child.
Fairness ==
  /\ WF_vars(CallSteps)
  /\ \A p \in Processes : WF_vars(ChildSteps(p)) /\ WF_vars(LeftReaderReads(p))

Spec == Init /\ [][Next]_vars /\ Fairness

-----------------------------------------------------------------------------
(* Properties *)

\* A child with its two pipes.
Statuses == {0, Failed}
Ids == 0 .. MaxRequests
ToPipes == Seq([kind : ToChild, id : Ids])
FromPipes == Seq([kind : FromChild, id : Ids])
Counts == 0 .. MaxInterrupts
Children ==
  [at : ChildStates, status : Statuses, id : Ids, room : PipeRooms,
   stdin : ToPipes, stdinOpen : BOOLEAN, stdout : FromPipes, stdoutOpen : BOOLEAN,
   held : {"nothing", "part", "rest"},
   readers : Counts, unread : Nat, lost : Nat, terminated : BOOLEAN]

TypeOK ==
  /\ process \in Processes \cup {NoProcess}
  /\ closed \in BOOLEAN
  /\ nextId \in 1 .. MaxRequests + 1
  /\ pc \in ParentStates
  /\ pc \notin {"idle", "aborting", "gone"} => process \in Processes
  /\ ending \in Processes \cup {NoProcess}
  /\ outcome \in [kind : Outcomes, id : Ids]
  /\ interrupts \in Counts
  /\ child \in [Processes -> Children]

\* The response or error that request() returns is the answer to the request
\* it was given, also when answers to interrupted requests are on their way.
\* (An error in place of "ready" has no identifier.)
AnswerIsOwn ==
  pc = "idle" /\ outcome.kind \in {"response", "error"} =>
    outcome.id \in {NoId, nextId - 1}

\* A session has at most one child that runs, and it knows which: a new one is
\* not started before the last one has ended (multi-profile-http-design.md,
\* section 10).
OneWorker ==
  pc # "gone" => \A p \in Processes : Running(p) => p \in {process, ending}

\* When close() has returned, with or without an error, no child is left
\* running; only an exception of the interpreter can prevent that.
CloseReaps ==
  closed /\ pc = "idle" /\ interrupts = 0 =>
    process = NoProcess /\ \A p \in Processes : ~Running(p)

\* Between two calls the frames that a child owes and the readers that wait
\* for one are in balance, but for the frames that an interrupted call wrote
\* without a reader and for those that were lost behind a part of a frame.  So
\* no failure, as opposed to an exception of the interpreter, leaves the two
\* sides of the dialog out of step.  A child that is stuck with a body beyond
\* the limit of the reader, or ends, owes nothing that would be read.
EveryAnswerHasAReader ==
  pc = "idle" /\ process # NoProcess =>
    child[process].at \in {"stuck", "leaving", "exited"}
      \/ Outstanding(process) + child[process].lost
           = child[process].readers + child[process].unread

\* Every call returns, even when the child hangs in its native session and no
\* frame fits in the pipe, unless an interpreter exception has left frames
\* behind that nobody reads.
CallsReturn ==
  (pc \notin {"idle", "gone"}) ~> (pc \in {"idle", "gone"} \/ interrupts > 0)

\* A child whose parent is gone ends by itself, if its native session returns
\* from every call: its deadlines are met, late or not.
NativeReturns == \A p \in Processes : WF_vars(NativeSteps(p))
OrphansExit ==
  NativeReturns => ((pc = "gone") ~> (\A p \in Processes : ~Running(p)))

=============================================================================
