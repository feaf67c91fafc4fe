---------------------------- MODULE WorkerHandle ----------------------------
(***************************************************************************)
(* The native session worker of crates/foxreq-py/src/worker.rs: a thread   *)
(* that owns a client backend, and the handle through which any number of  *)
(* Python threads send it requests and close it.                           *)
(*                                                                         *)
(* A call takes the sender lock, sends one command carrying a fresh reply  *)
(* channel, and keeps the lock until the reply arrives or its channel is   *)
(* disconnected.  The backend may panic inside any command, and again when *)
(* the thread drops it.                                                    *)
(***************************************************************************)
EXTENDS Naturals, Sequences

CONSTANTS Callers,   \* the threads that hold a reference to the handle
          NoCaller   \* "nobody": a free lock, an idle worker

ASSUME CallersAssumption == NoCaller \notin Callers

VARIABLES
  handle,      \* the WorkerHandle: being built, usable, or gone
  sender,      \* TRUE while the Mutex<Option<Sender>> holds Some
  senderLock,  \* the caller inside the sender mutex
  join,        \* TRUE while the Mutex<Option<JoinHandle>> holds Some
  joinLock,    \* the caller inside the join mutex
  channel,     \* the commands sent and not yet received
  worker,      \* where the worker thread is
  serving,     \* the caller whose command the worker has in hand
  backend,     \* the ClientBackend the thread owns
  threadOk,    \* FALSE when the thread ended in a panic
  pc,          \* where each caller is in request() or close()
  reply,       \* the reply channel of each caller's current call
  closeResult, \* close_result of each caller inside close()
  outcome,     \* what each caller's last call returned
  lastOp       \* which call that is: request() or close()

vars == << handle, sender, senderLock, join, joinLock, channel, worker,
           serving, backend, threadOk, pc, reply, closeResult, outcome, lastOp >>

callVars == << pc, reply, closeResult, outcome, lastOp >>
threadVars == << worker, serving, backend, threadOk >>
lockVars == << sender, senderLock, join, joinLock >>

Ops == {"request", "close"}
Command == [op : Ops, caller : Callers]

WorkerStates == {"starting", "waiting", "executing", "closing",
                 "dropping", "releasing", "exited"}
CallerStates == {"idle", "requestLock", "requestSend", "requestReply",
                 "closeLock", "closeSend", "closeReply", "joinLock", "joining"}
Replies  == {"none", "ok", "error", "panic", "disconnected"}
Results  == {"ok", "error", "panic"}
Outcomes == Results \cup {"none", "closed"}

\* The worker is inside run_worker: it will still receive commands.
Looping == worker \in {"waiting", "executing", "closing"}

\* Sending succeeds as long as the thread still owns the receiver.
ReceiverAlive == worker # "exited"

CloseStates == {"closeLock", "closeSend", "closeReply", "joinLock", "joining"}

-----------------------------------------------------------------------------
(* Construction: spawn_with() *)

Init ==
  /\ handle = "spawning"
  /\ sender = FALSE /\ senderLock = NoCaller
  /\ join = FALSE   /\ joinLock = NoCaller
  /\ channel = << >>
  /\ worker = "starting" /\ serving = NoCaller
  /\ backend = "none"    /\ threadOk = TRUE
  /\ pc          = [c \in Callers |-> "idle"]
  /\ reply       = [c \in Callers |-> "none"]
  /\ closeResult = [c \in Callers |-> "ok"]
  /\ outcome     = [c \in Callers |-> "none"]
  /\ lastOp      = [c \in Callers |-> "none"]

\* The factory builds the backend, the thread reports Ok and enters its loop.
FactoryBuilds ==
  /\ worker = "starting"
  /\ worker' = "waiting"
  /\ backend' = "live"
  /\ UNCHANGED << handle, lockVars, channel, serving, threadOk, callVars >>

\* The factory fails or panics: the thread reports it and returns.
FactoryFails ==
  /\ worker = "starting"
  /\ worker' = "exited"
  /\ UNCHANGED << handle, lockVars, channel, serving, backend, threadOk,
                  callVars >>

\* The constructor reads the init channel: it keeps the sender and the join
\* handle, or joins the thread that has reported a failure.
SpawnReturns ==
  /\ handle = "spawning"
  /\ \/ /\ worker = "waiting"
        /\ handle' = "ready" /\ sender' = TRUE /\ join' = TRUE
     \/ /\ worker = "exited"
        /\ handle' = "failed" /\ UNCHANGED << sender, join >>
  /\ UNCHANGED << senderLock, joinLock, channel, threadVars, callVars >>

-----------------------------------------------------------------------------
(* request() *)

RequestBegins(c) ==
  /\ handle = "ready"
  /\ pc[c] = "idle"
  /\ pc' = [pc EXCEPT ![c] = "requestLock"]
  /\ reply' = [reply EXCEPT ![c] = "none"]
  /\ outcome' = [outcome EXCEPT ![c] = "none"]
  /\ lastOp' = [lastOp EXCEPT ![c] = "request"]
  /\ UNCHANGED << handle, lockVars, channel, threadVars, closeResult >>

\* An empty slot under the lock means the session is closed.
RequestLocks(c) ==
  /\ pc[c] = "requestLock"
  /\ senderLock = NoCaller
  /\ \/ /\ sender
        /\ senderLock' = c
        /\ pc' = [pc EXCEPT ![c] = "requestSend"]
        /\ UNCHANGED outcome
     \/ /\ ~sender
        /\ pc' = [pc EXCEPT ![c] = "idle"]
        /\ outcome' = [outcome EXCEPT ![c] = "closed"]
        /\ UNCHANGED senderLock
  /\ UNCHANGED << handle, sender, join, joinLock, channel, threadVars, reply,
                  closeResult, lastOp >>

\* A failed send means the thread is gone: the slot is emptied.
RequestSends(c) ==
  /\ pc[c] = "requestSend"
  /\ \/ /\ ReceiverAlive
        /\ channel' = Append(channel, [op |-> "request", caller |-> c])
        /\ pc' = [pc EXCEPT ![c] = "requestReply"]
        /\ UNCHANGED << sender, senderLock, outcome >>
     \/ /\ ~ReceiverAlive
        /\ sender' = FALSE
        /\ senderLock' = NoCaller
        /\ pc' = [pc EXCEPT ![c] = "idle"]
        /\ outcome' = [outcome EXCEPT ![c] = "panic"]
        /\ UNCHANGED channel
  /\ UNCHANGED << handle, join, joinLock, threadVars, reply, closeResult, lastOp >>

RequestReturns(c) ==
  /\ pc[c] = "requestReply"
  /\ reply[c] # "none"
  /\ \/ /\ reply[c] # "disconnected"
        /\ outcome' = [outcome EXCEPT ![c] = reply[c]]
        /\ UNCHANGED sender
     \/ /\ reply[c] = "disconnected"
        /\ outcome' = [outcome EXCEPT ![c] = "panic"]
        /\ sender' = FALSE
  /\ senderLock' = NoCaller
  /\ pc' = [pc EXCEPT ![c] = "idle"]
  /\ UNCHANGED << handle, join, joinLock, channel, threadVars, reply,
                  closeResult, lastOp >>

-----------------------------------------------------------------------------
(* close() *)

EnterClose(c) ==
  /\ pc[c] = "idle"
  /\ pc' = [pc EXCEPT ![c] = "closeLock"]
  /\ reply' = [reply EXCEPT ![c] = "none"]
  /\ closeResult' = [closeResult EXCEPT ![c] = "ok"]
  /\ outcome' = [outcome EXCEPT ![c] = "none"]
  /\ lastOp' = [lastOp EXCEPT ![c] = "close"]
  /\ UNCHANGED << lockVars, channel, threadVars >>

CloseBegins(c) ==
  /\ handle = "ready"
  /\ EnterClose(c)
  /\ UNCHANGED handle

\* The last reference goes away: drop() runs close() with no other caller left.
HandleDrops(c) ==
  /\ handle = "ready"
  /\ \A d \in Callers : pc[d] = "idle"
  /\ handle' = "dropped"
  /\ EnterClose(c)

\* take(): whoever finds the sender empties the slot before it sends Close.
CloseLocks(c) ==
  /\ pc[c] = "closeLock"
  /\ senderLock = NoCaller
  /\ \/ /\ sender
        /\ sender' = FALSE
        /\ senderLock' = c
        /\ pc' = [pc EXCEPT ![c] = "closeSend"]
     \/ /\ ~sender
        /\ pc' = [pc EXCEPT ![c] = "joinLock"]
        /\ UNCHANGED << sender, senderLock >>
  /\ UNCHANGED << handle, join, joinLock, channel, threadVars, reply,
                  closeResult, outcome, lastOp >>

CloseSends(c) ==
  /\ pc[c] = "closeSend"
  /\ \/ /\ ReceiverAlive
        /\ channel' = Append(channel, [op |-> "close", caller |-> c])
        /\ pc' = [pc EXCEPT ![c] = "closeReply"]
        /\ UNCHANGED senderLock
     \/ /\ ~ReceiverAlive
        /\ senderLock' = NoCaller
        /\ pc' = [pc EXCEPT ![c] = "joinLock"]
        /\ UNCHANGED channel
  /\ UNCHANGED << handle, sender, join, joinLock, threadVars, reply,
                  closeResult, outcome, lastOp >>

\* recv().unwrap_or(Ok(())): a thread that died first counts as closed.
CloseReplied(c) ==
  /\ pc[c] = "closeReply"
  /\ reply[c] # "none"
  /\ closeResult' = [closeResult EXCEPT
                       ![c] = IF reply[c] = "disconnected" THEN "ok"
                              ELSE reply[c]]
  /\ senderLock' = NoCaller
  /\ pc' = [pc EXCEPT ![c] = "joinLock"]
  /\ UNCHANGED << handle, sender, join, joinLock, channel, threadVars, reply,
                  outcome, lastOp >>

\* Mutant: the handle is taken out in one statement and joined in the next,
\* with the mutex already released.
JoinLocksBriefly(c) ==
  /\ pc[c] = "joinLock"
  /\ joinLock = NoCaller
  /\ pc' = [pc EXCEPT ![c] = IF join THEN "joining" ELSE "idle"]
  /\ outcome' = IF join THEN outcome
                ELSE [outcome EXCEPT ![c] = closeResult[c]]
  /\ join' = FALSE
  /\ UNCHANGED << handle, sender, senderLock, joinLock, channel, threadVars,
                  reply, closeResult, lastOp >>

\* The join lock is only free when nobody is joining, so a caller that finds
\* the slot empty knows that the thread has been joined.
JoinLocks(c) ==
  /\ pc[c] = "joinLock"
  /\ joinLock = NoCaller
  /\ \/ /\ join
        /\ join' = FALSE
        /\ joinLock' = c
        /\ pc' = [pc EXCEPT ![c] = "joining"]
        /\ UNCHANGED outcome
     \/ /\ ~join
        /\ pc' = [pc EXCEPT ![c] = "idle"]
        /\ outcome' = [outcome EXCEPT ![c] = closeResult[c]]
        /\ UNCHANGED << join, joinLock >>
  /\ UNCHANGED << handle, sender, senderLock, channel, threadVars, reply,
                  closeResult, lastOp >>

\* JoinHandle::join, then close_result.and(join_result).
Joins(c) ==
  /\ pc[c] = "joining"
  /\ worker = "exited"
  /\ joinLock' = NoCaller
  /\ pc' = [pc EXCEPT ![c] = "idle"]
  /\ outcome' = [outcome EXCEPT
                   ![c] = IF closeResult[c] = "ok" /\ ~threadOk THEN "panic"
                          ELSE closeResult[c]]
  /\ UNCHANGED << handle, sender, senderLock, join, channel, threadVars,
                  reply, closeResult, lastOp >>

-----------------------------------------------------------------------------
(* The worker thread: run_worker() and the end of its closure *)

Receives ==
  /\ worker = "waiting"
  /\ channel # << >>
  /\ serving' = Head(channel).caller
  /\ channel' = Tail(channel)
  /\ worker' = IF Head(channel).op = "request" THEN "executing" ELSE "closing"
  /\ UNCHANGED << handle, lockVars, backend, threadOk, callVars >>

Answers(result) ==
  /\ reply' = [reply EXCEPT ![serving] = result]
  /\ serving' = NoCaller
  /\ UNCHANGED << handle, lockVars, channel, threadOk, pc, closeResult,
                  outcome, lastOp >>

\* backend.execute() returns a response or an error: the loop goes on.
ExecuteReturns(result) ==
  /\ worker = "executing"
  /\ Answers(result)
  /\ worker' = "waiting"
  /\ UNCHANGED backend

\* Mutant: the loop goes on with a backend that has panicked.
ExecutePanicsOn ==
  /\ worker = "executing"
  /\ Answers("panic")
  /\ worker' = "waiting"
  /\ UNCHANGED backend

\* backend.execute() panics: the caller is told and the loop breaks.
ExecutePanics ==
  /\ worker = "executing"
  /\ Answers("panic")
  /\ worker' = "dropping"
  /\ UNCHANGED backend

\* backend.close() returns or panics: either way the loop breaks.
CloseReturns(result) ==
  /\ worker = "closing"
  /\ Answers(result)
  /\ worker' = "dropping"
  /\ backend' = IF result = "ok" THEN "closed" ELSE backend

\* The closure's locals go first: the backend is dropped while the receiver
\* can still accept a command nobody will receive.
BackendDrops(ok) ==
  /\ worker = "dropping"
  /\ worker' = "releasing"
  /\ backend' = "dropped"
  /\ threadOk' = ok
  /\ UNCHANGED << handle, lockVars, channel, serving, callVars >>

\* Mutant: the queued commands, and their reply senders, are leaked.
ReceiverLeaks ==
  /\ worker = "releasing"
  /\ worker' = "exited"
  /\ channel' = << >>
  /\ UNCHANGED << handle, lockVars, serving, backend, threadOk, callVars >>

\* Dropping the receiver drops the queued commands and their reply senders.
ReceiverDrops ==
  /\ worker = "releasing"
  /\ worker' = "exited"
  /\ channel' = << >>
  /\ reply' = [c \in Callers |->
                 IF \E i \in DOMAIN channel : channel[i].caller = c
                   THEN "disconnected" ELSE reply[c]]
  /\ UNCHANGED << handle, lockVars, serving, backend, threadOk, pc,
                  closeResult, outcome, lastOp >>

-----------------------------------------------------------------------------
CallSteps(c) ==
  \/ RequestLocks(c) \/ RequestSends(c) \/ RequestReturns(c)
  \/ CloseLocks(c) \/ CloseSends(c) \/ CloseReplied(c)
  \/ JoinLocks(c) \/ Joins(c)

CallBegins(c) == RequestBegins(c) \/ CloseBegins(c) \/ HandleDrops(c)

WorkerSteps ==
  \/ FactoryBuilds \/ FactoryFails
  \/ Receives
  \/ \E result \in {"ok", "error"} : ExecuteReturns(result)
  \/ ExecutePanics
  \/ \E result \in {"ok", "panic"} : CloseReturns(result)
  \/ \E ok \in BOOLEAN : BackendDrops(ok)
  \/ ReceiverDrops

Next ==
  \/ SpawnReturns
  \/ WorkerSteps
  \/ \E c \in Callers : CallBegins(c) \/ CallSteps(c)

\* The operating system runs every thread that can run, and a backend command
\* ends: HTTP work is bounded by its deadline.  Beginning a call is the
\* program's choice, and a mutex promises no order among its waiters.
Fairness ==
  /\ WF_vars(SpawnReturns)
  /\ WF_vars(WorkerSteps)
  /\ \A c \in Callers : WF_vars(CallSteps(c))

Spec == Init /\ [][Next]_vars /\ Fairness

-----------------------------------------------------------------------------
(* Properties *)

TypeOK ==
  /\ handle \in {"spawning", "ready", "failed", "dropped"}
  /\ sender \in BOOLEAN /\ join \in BOOLEAN
  /\ senderLock \in Callers \cup {NoCaller}
  /\ joinLock \in Callers \cup {NoCaller}
  /\ channel \in Seq(Command)
  /\ worker \in WorkerStates
  /\ serving \in Callers \cup {NoCaller}
  /\ backend \in {"none", "live", "closed", "dropped"}
  /\ threadOk \in BOOLEAN
  /\ pc \in [Callers -> CallerStates]
  /\ reply \in [Callers -> Replies]
  /\ closeResult \in [Callers -> Results]
  /\ outcome \in [Callers -> Outcomes]
  /\ lastOp \in [Callers -> Ops \cup {"none"}]

\* A close() that has returned, whichever of several concurrent ones it was
\* and whatever panicked meanwhile, leaves no worker thread and no backend:
\* the sockets and the NSS runtime are released before the caller goes on.
CloseMeansStopped ==
  \A c \in Callers :
    lastOp[c] = "close" /\ pc[c] = "idle"
      => worker = "exited" /\ backend = "dropped"

\* At most one command is in flight, it belongs to the caller that holds the
\* sender lock, and that caller is waiting for its reply: two Python threads
\* never have the backend work for both, and no reply is left for a caller
\* that has gone.
OneCommandInFlight ==
  /\ Len(channel) + (IF serving = NoCaller THEN 0 ELSE 1) <= 1
  /\ \A c \in Callers :
       (serving = c \/ \E i \in DOMAIN channel : channel[i].caller = c)
         => /\ senderLock = c
            /\ reply[c] = "none"
            /\ pc[c] \in {"requestReply", "closeReply"}

\* Once the slot is empty and nobody is inside the lock, the loop is over: a
\* request refused as "closed" can no longer be executed, and the thread is
\* not left waiting for a command that no sender exists to send.
EmptySlotMeansShut ==
  ~sender /\ senderLock = NoCaller /\ handle # "spawning" => ~Looping

\* When the program stops making calls, every call made returns: nobody waits
\* for ever on a lock, a reply or the join of the thread, whichever panics
\* and races there were.
Quiet == <>[][\A c \in Callers : ~CallBegins(c)]_vars
CallsReturn == Quiet => \A c \in Callers : pc[c] # "idle" ~> pc[c] = "idle"

-----------------------------------------------------------------------------
(* The worker implements a serial backend *)

\* A command the worker has answered has been served; a disconnected reply
\* channel has served nothing.
AbsCall(c) ==
  CASE pc[c] = "idle" -> "idle"
    [] pc[c] \in CloseStates -> "close"
    [] pc[c] = "requestReply" /\ reply[c] \in Results -> reply[c]
    [] OTHER -> "request"

AbsService ==
  CASE handle = "spawning" -> "absent"
    [] handle # "spawning" /\ Looping -> "open"
    [] handle # "spawning" /\ worker \in {"dropping", "releasing"} -> "shut"
    [] OTHER -> "released"

AbsCalls == [c \in Callers |-> AbsCall(c)]

Serial == INSTANCE SerialBackend WITH
            service <- AbsService,
            call <- AbsCalls,
            outcome <- outcome

\* Locks, channels and thread together are an atomic service: every request
\* takes effect once between its call and its return, none after a close has
\* shut the backend, and close returns after the backend's release.
ImplementsSerialBackend == Serial!Spec

=============================================================================
