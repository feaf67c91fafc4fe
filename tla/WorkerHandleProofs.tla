------------------------- MODULE WorkerHandleProofs -------------------------
(***************************************************************************)
(* Proofs about WorkerHandle, for any set of callers: type correctness,    *)
(* the three safety invariants, and that the handle implements the serial  *)
(* backend.  All of them follow from one inductive invariant, IInv.        *)
(***************************************************************************)
EXTENDS WorkerHandle, SequenceTheorems, TLAPS

\* Where a caller that holds the sender lock, or waits for a reply, can be.
Holding == {"requestSend", "requestReply", "closeSend", "closeReply"}
Shut == worker \in {"dropping", "releasing", "exited"}

\* Each mutex is held by exactly the caller whose code is inside it, and a
\* request that holds the sender lock has found the slot full.
LockInv ==
  \A c \in Callers :
    /\ senderLock = c <=> pc[c] \in Holding
    /\ joinLock = c <=> pc[c] = "joining"
    /\ pc[c] \in {"requestSend", "requestReply"} => sender

\* The command op of caller c has been sent and has not been answered.
Pending(op, c) ==
  /\ senderLock = c
  /\ reply[c] = "none"
  /\ pc[c] = IF op = "request" THEN "requestReply" ELSE "closeReply"

\* One command at most is in the channel or in the worker's hands.
FlightInv ==
  /\ channel # << >> =>
       /\ Len(channel) = 1
       /\ Pending(channel[1].op, channel[1].caller)
       /\ serving = NoCaller
       /\ worker \notin {"starting", "executing", "closing", "exited"}
  /\ (serving # NoCaller) <=> worker \in {"executing", "closing"}
  /\ worker = "executing" => Pending("request", serving)
  /\ worker = "closing" => Pending("close", serving)

\* What the reply to a call says about the worker.
ReplyInv ==
  \A c \in Callers :
    /\ pc[c] \in {"requestLock", "requestSend", "closeLock", "closeSend"} =>
         reply[c] = "none"
    /\ pc[c] = "requestReply" /\ reply[c] = "disconnected" => Shut
    /\ pc[c] = "closeReply" /\ reply[c] # "none" =>
         Shut /\ reply[c] # "error"
    /\ closeResult[c] # "error"

\* What an empty slot says about the worker.
SlotInv ==
  /\ ~sender /\ senderLock = NoCaller /\ handle # "spawning" => Shut
  /\ ~join /\ joinLock = NoCaller /\ handle # "spawning" => worker = "exited"

\* How far the handle, the worker and the backend have gone together.
PhaseInv ==
  /\ worker = "starting" => handle = "spawning"
  /\ handle = "spawning" =>
       worker \in {"starting", "waiting", "exited"} /\ channel = << >>
  /\ handle = "failed" => worker = "exited"
  /\ handle \in {"spawning", "failed"} =>
       \A c \in Callers : pc[c] = "idle" /\ lastOp[c] = "none"
  /\ worker = "starting" => backend = "none"
  /\ worker \in {"waiting", "executing", "closing"} => backend = "live"
  /\ worker = "releasing" => backend = "dropped"
  /\ worker = "exited" /\ handle \in {"ready", "dropped"} =>
       backend = "dropped"

\* The last call of each caller, and what a returned close() leaves behind.
CallInv ==
  /\ \A c \in Callers :
       pc[c] # "idle" =>
         lastOp[c] = IF pc[c] \in CloseStates THEN "close" ELSE "request"
  /\ CloseMeansStopped

IInv == /\ TypeOK
        /\ LockInv
        /\ FlightInv
        /\ ReplyInv
        /\ SlotInv
        /\ PhaseInv
        /\ CallInv

-----------------------------------------------------------------------------
LEMMA InitInv == Init => IInv
<1> SUFFICES ASSUME Init PROVE IInv
  OBVIOUS
<1> USE CallersAssumption
    DEF Init, IInv, TypeOK, LockInv, FlightInv, ReplyInv, SlotInv, PhaseInv,
        CallInv, CloseMeansStopped, Holding, Shut, Pending, CallerStates,
        WorkerStates, Replies, Results, Outcomes, Ops, CloseStates
<1>1. TypeOK
  <2>1. channel \in Seq(Command)
    BY EmptySeq
  <2> QED
    BY <2>1
<1>2. LockInv
  OBVIOUS
<1>3. FlightInv
  OBVIOUS
<1>4. ReplyInv
  OBVIOUS
<1>5. SlotInv
  OBVIOUS
<1>6. PhaseInv
  OBVIOUS
<1>7. CallInv
  OBVIOUS
<1> QED
  BY <1>1, <1>2, <1>3, <1>4, <1>5, <1>6, <1>7

\* The command at the head of the channel names a caller of this handle.
LEMMA HeadCommand ==
  ASSUME TypeOK, channel # << >>
  PROVE  /\ channel[1].caller \in Callers
         /\ channel[1].op \in {"request", "close"}
         /\ Head(channel) = channel[1]
         /\ Tail(channel) \in Seq(Command)
         /\ Len(channel) = 1 => Tail(channel) = << >>
<1>1. channel \in Seq(Command)
  BY DEF TypeOK
<1>2. channel[1] \in Command
  BY <1>1
<1>3. Head(channel) = channel[1] /\ Tail(channel) \in Seq(Command)
  BY <1>1
<1>4. Len(channel) = 1 => Tail(channel) = << >>
  <2>1. ASSUME Len(channel) = 1 PROVE Len(Tail(channel)) = 0
    BY <1>1, <2>1, HeadTailProperties
  <2>2. Len(Tail(channel)) = 0 => Tail(channel) = << >>
    BY <1>3, EmptySeq
  <2> QED
    BY <2>1, <2>2
<1> QED
  BY <1>2, <1>3, <1>4 DEF Command, Ops

\* What sending a command on an empty channel leaves in it.
LEMMA SentCommand ==
  ASSUME NEW c \in Callers, NEW op \in Ops
  PROVE  LET q == Append(<< >>, [op |-> op, caller |-> c])
         IN  q \in Seq(Command) /\ Len(q) = 1 /\ q # << >>
             /\ q[1].op = op /\ q[1].caller = c
BY DEF Command

LEMMA StepInv == IInv /\ [Next]_vars => IInv'
<1> SUFFICES ASSUME IInv, [Next]_vars PROVE IInv'
  OBVIOUS
<1> USE CallersAssumption
    DEF IInv, TypeOK, LockInv, FlightInv, ReplyInv, SlotInv, PhaseInv,
        CallInv, CloseMeansStopped, Holding, Shut, Pending, CallerStates,
        WorkerStates, Replies, Results, Outcomes, Ops, CloseStates,
        ReceiverAlive, callVars, threadVars, lockVars
<1>1. ASSUME SpawnReturns PROVE IInv'
  <2>1. TypeOK'
    BY <1>1 DEF SpawnReturns
  <2>2. LockInv'
    BY <1>1 DEF SpawnReturns
  <2>3. FlightInv'
    BY <1>1 DEF SpawnReturns
  <2>4. ReplyInv'
    BY <1>1 DEF SpawnReturns
  <2>5. SlotInv'
    BY <1>1 DEF SpawnReturns
  <2>6. PhaseInv'
    BY <1>1 DEF SpawnReturns
  <2>7. CallInv'
    BY <1>1 DEF SpawnReturns
  <2> QED
    BY <2>1, <2>2, <2>3, <2>4, <2>5, <2>6, <2>7
<1>2. ASSUME FactoryBuilds PROVE IInv'
  BY <1>2, SMTT(60) DEF FactoryBuilds
<1>3. ASSUME FactoryFails PROVE IInv'
  BY <1>3, SMTT(60) DEF FactoryFails
<1>4. ASSUME Receives PROVE IInv'
  <2>1. TypeOK'
    BY <1>4, HeadCommand DEF Receives
  <2>2. LockInv'
    BY <1>4 DEF Receives
  <2>3. FlightInv'
    BY <1>4, HeadCommand DEF Receives
  <2>4. ReplyInv'
    BY <1>4 DEF Receives
  <2>5. SlotInv'
    BY <1>4 DEF Receives
  <2>6. PhaseInv'
    BY <1>4 DEF Receives
  <2>7. CallInv'
    BY <1>4 DEF Receives
  <2> QED
    BY <2>1, <2>2, <2>3, <2>4, <2>5, <2>6, <2>7
<1>5. ASSUME NEW result \in {"ok", "error"}, ExecuteReturns(result) PROVE IInv'
  BY <1>5, SMTT(60) DEF ExecuteReturns, Answers
<1>6. ASSUME ExecutePanics PROVE IInv'
  BY <1>6, SMTT(60) DEF ExecutePanics, Answers
<1>7. ASSUME NEW result \in {"ok", "panic"}, CloseReturns(result) PROVE IInv'
  BY <1>7, SMTT(60) DEF CloseReturns, Answers
<1>8. ASSUME NEW ok \in BOOLEAN, BackendDrops(ok) PROVE IInv'
  BY <1>8, SMTT(60) DEF BackendDrops
<1>9. ASSUME ReceiverDrops PROVE IInv'
  BY <1>9, SMTT(60) DEF ReceiverDrops
<1>10. ASSUME NEW c \in Callers, RequestBegins(c) PROVE IInv'
  BY <1>10, SMTT(60) DEF RequestBegins
<1>11. ASSUME NEW c \in Callers, CloseBegins(c) PROVE IInv'
  BY <1>11, SMTT(60) DEF CloseBegins, EnterClose
<1>12. ASSUME NEW c \in Callers, HandleDrops(c) PROVE IInv'
  BY <1>12, SMTT(60) DEF HandleDrops, EnterClose
<1>13. ASSUME NEW c \in Callers, RequestLocks(c) PROVE IInv'
  <2>1. TypeOK'
    BY <1>13 DEF RequestLocks
  <2>2. LockInv'
    BY <1>13 DEF RequestLocks
  <2>3. FlightInv'
    BY <1>13, HeadCommand DEF RequestLocks
  <2>4. ReplyInv'
    BY <1>13 DEF RequestLocks
  <2>5. SlotInv'
    BY <1>13 DEF RequestLocks
  <2>6. PhaseInv'
    BY <1>13 DEF RequestLocks
  <2>7. CallInv'
    BY <1>13 DEF RequestLocks
  <2> QED
    BY <2>1, <2>2, <2>3, <2>4, <2>5, <2>6, <2>7
<1>14. ASSUME NEW c \in Callers, RequestSends(c) PROVE IInv'
  <2>0. channel = << >> /\ serving = NoCaller
    BY <1>14, HeadCommand DEF RequestSends
  <2>1. TypeOK'
    <3>1. channel' \in Seq(Command)
      <4>1. channel \in Seq(Command)
        OBVIOUS
      <4>2. Append(<< >>, [op |-> "request", caller |-> c]) \in Seq(Command)
        BY SentCommand
      <4> QED
        BY <1>14, <2>0, <4>1, <4>2 DEF RequestSends
    <3> QED
      BY <1>14, <3>1, ZenonT(40) DEF RequestSends
  <2>2. LockInv'
    BY <1>14 DEF RequestSends
  <2>3. FlightInv'
    BY <1>14, <2>0, SentCommand DEF RequestSends, Ops
  <2>4. ReplyInv'
    BY <1>14 DEF RequestSends
  <2>5. SlotInv'
    BY <1>14 DEF RequestSends
  <2>6. PhaseInv'
    BY <1>14 DEF RequestSends
  <2>7. CallInv'
    BY <1>14 DEF RequestSends
  <2> QED
    BY <2>1, <2>2, <2>3, <2>4, <2>5, <2>6, <2>7
<1>15. ASSUME NEW c \in Callers, RequestReturns(c) PROVE IInv'
  <2>1. TypeOK'
    <3>1. outcome' \in [Callers -> Outcomes]
      BY <1>15 DEF RequestReturns
    <3>2. sender' \in BOOLEAN
      BY <1>15 DEF RequestReturns
    <3> QED
      BY <1>15, <3>1, <3>2 DEF RequestReturns
  <2>2. LockInv'
    BY <1>15 DEF RequestReturns
  <2>3. FlightInv'
    BY <1>15 DEF RequestReturns
  <2>4. ReplyInv'
    BY <1>15 DEF RequestReturns
  <2>5. SlotInv'
    BY <1>15 DEF RequestReturns
  <2>6. PhaseInv'
    BY <1>15 DEF RequestReturns
  <2>7. CallInv'
    BY <1>15 DEF RequestReturns
  <2> QED
    BY <2>1, <2>2, <2>3, <2>4, <2>5, <2>6, <2>7
<1>16. ASSUME NEW c \in Callers, CloseLocks(c) PROVE IInv'
  <2>1. TypeOK'
    BY <1>16, ZenonT(40) DEF CloseLocks
  <2>2. LockInv'
    BY <1>16 DEF CloseLocks
  <2>3. FlightInv'
    BY <1>16, HeadCommand DEF CloseLocks
  <2>4. ReplyInv'
    BY <1>16 DEF CloseLocks
  <2>5. SlotInv'
    BY <1>16 DEF CloseLocks
  <2>6. PhaseInv'
    BY <1>16 DEF CloseLocks
  <2>7. CallInv'
    BY <1>16 DEF CloseLocks
  <2> QED
    BY <2>1, <2>2, <2>3, <2>4, <2>5, <2>6, <2>7
<1>17. ASSUME NEW c \in Callers, CloseSends(c) PROVE IInv'
  <2>0. channel = << >> /\ serving = NoCaller
    BY <1>17, HeadCommand DEF CloseSends
  <2>1. TypeOK'
    <3>1. channel' \in Seq(Command)
      <4>1. channel \in Seq(Command)
        OBVIOUS
      <4>2. Append(<< >>, [op |-> "close", caller |-> c]) \in Seq(Command)
        BY SentCommand
      <4> QED
        BY <1>17, <2>0, <4>1, <4>2 DEF CloseSends
    <3> QED
      BY <1>17, <3>1 DEF CloseSends
  <2>2. LockInv'
    BY <1>17 DEF CloseSends
  <2>3. FlightInv'
    BY <1>17, <2>0, SentCommand DEF CloseSends, Ops
  <2>4. ReplyInv'
    BY <1>17 DEF CloseSends
  <2>5. SlotInv'
    BY <1>17 DEF CloseSends
  <2>6. PhaseInv'
    BY <1>17 DEF CloseSends
  <2>7. CallInv'
    BY <1>17 DEF CloseSends
  <2> QED
    BY <2>1, <2>2, <2>3, <2>4, <2>5, <2>6, <2>7
<1>18. ASSUME NEW c \in Callers, CloseReplied(c) PROVE IInv'
  <2>1. TypeOK'
    BY <1>18 DEF CloseReplied
  <2>2. LockInv'
    BY <1>18 DEF CloseReplied
  <2>3. FlightInv'
    BY <1>18 DEF CloseReplied
  <2>4. ReplyInv'
    BY <1>18 DEF CloseReplied
  <2>5. SlotInv'
    BY <1>18 DEF CloseReplied
  <2>6. PhaseInv'
    BY <1>18 DEF CloseReplied
  <2>7. CallInv'
    BY <1>18 DEF CloseReplied
  <2> QED
    BY <2>1, <2>2, <2>3, <2>4, <2>5, <2>6, <2>7
<1>19. ASSUME NEW c \in Callers, JoinLocks(c) PROVE IInv'
  <2>1. TypeOK'
    BY <1>19, ZenonT(40) DEF JoinLocks
  <2>2. LockInv'
    BY <1>19 DEF JoinLocks
  <2>3. FlightInv'
    BY <1>19, HeadCommand DEF JoinLocks
  <2>4. ReplyInv'
    BY <1>19 DEF JoinLocks
  <2>5. SlotInv'
    BY <1>19 DEF JoinLocks
  <2>6. PhaseInv'
    BY <1>19 DEF JoinLocks
  <2>7. CallInv'
    BY <1>19 DEF JoinLocks
  <2> QED
    BY <2>1, <2>2, <2>3, <2>4, <2>5, <2>6, <2>7
<1>20. ASSUME NEW c \in Callers, Joins(c) PROVE IInv'
  <2>1. TypeOK'
    BY <1>20 DEF Joins
  <2>2. LockInv'
    BY <1>20 DEF Joins
  <2>3. FlightInv'
    BY <1>20 DEF Joins
  <2>4. ReplyInv'
    BY <1>20 DEF Joins
  <2>5. SlotInv'
    BY <1>20 DEF Joins
  <2>6. PhaseInv'
    BY <1>20 DEF Joins
  <2>7. CallInv'
    BY <1>20 DEF Joins
  <2> QED
    BY <2>1, <2>2, <2>3, <2>4, <2>5, <2>6, <2>7
<1>21. CASE UNCHANGED vars
  BY <1>21 DEF vars
<1> QED
  BY <1>1, <1>2, <1>3, <1>4, <1>5, <1>6, <1>7, <1>8, <1>9, <1>10, <1>11, <1>12, <1>13, <1>14, <1>15, <1>16, <1>17, <1>18, <1>19, <1>20, <1>21 DEF Next, WorkerSteps, CallBegins, CallSteps

-----------------------------------------------------------------------------
(* The invariants *)

LEMMA Invariance == Spec => []IInv
BY InitInv, StepInv, PTL DEF Spec

\* Every variable of the handle and of its worker keeps its type.
THEOREM TypeCorrect == Spec => []TypeOK
<1>1. IInv => TypeOK
  BY DEF IInv
<1> QED
  BY <1>1, Invariance, PTL

\* For any number of threads: a close() that has returned, on any of them,
\* has left neither worker thread nor backend.
THEOREM CloseStops == Spec => []CloseMeansStopped
<1>1. IInv => CloseMeansStopped
  BY DEF IInv, CallInv
<1> QED
  BY <1>1, Invariance, PTL

\* For any number of threads: the worker has one command to answer at most,
\* and the caller it belongs to is waiting for it inside the sender lock.
THEOREM SerialFlight == Spec => []OneCommandInFlight
<1>1. ASSUME IInv PROVE OneCommandInFlight
  <2>1. channel = << >> \/ (channel # << >> /\ Len(channel) = 1)
    BY <1>1 DEF IInv, FlightInv
  <2>2. Len(channel) + (IF serving = NoCaller THEN 0 ELSE 1) <= 1
    <3>1. CASE channel = << >>
      <4>1. Len(channel) = 0
        BY <3>1
      <4> QED
        BY <4>1
    <3>2. CASE channel # << >>
      <4>1. Len(channel) = 1 /\ serving = NoCaller
        BY <1>1, <3>2 DEF IInv, FlightInv
      <4> QED
        BY <4>1
    <3> QED
      BY <3>1, <3>2
  <2>3. ASSUME NEW c \in Callers, NEW i \in DOMAIN channel,
               channel[i].caller = c
        PROVE  Pending(channel[1].op, c)
    <3>1. channel \in Seq(Command) /\ channel # << >> /\ i = 1
      BY <1>1, <2>1, <2>3, LenProperties, EmptySeq DEF IInv, TypeOK
    <3> QED
      BY <1>1, <2>3, <3>1 DEF IInv, FlightInv
  <2>4. ASSUME NEW c \in Callers, serving = c
        PROVE  \E op \in Ops : Pending(op, c)
    BY <1>1, <2>4, CallersAssumption DEF IInv, FlightInv, Ops
  <2> QED
    BY <2>2, <2>3, <2>4 DEF OneCommandInFlight, Pending
<1> QED
  BY <1>1, Invariance, PTL

\* For any number of threads: when the slot is empty and the lock free, the
\* loop is over, so what is refused as closed cannot be executed.
THEOREM EmptySlotShuts == Spec => []EmptySlotMeansShut
<1>1. IInv => EmptySlotMeansShut
  BY DEF IInv, SlotInv, EmptySlotMeansShut, Shut, Looping
<1> QED
  BY <1>1, Invariance, PTL

-----------------------------------------------------------------------------
(* The handle implements the serial backend *)

LEMMA RefinesInit == Init => Serial!Init
<1>1. Init => AbsService = "absent"
  BY DEF Init, AbsService
<1>2. ASSUME Init, NEW c \in Callers PROVE AbsCall(c) = "idle"
  BY <1>2 DEF Init, AbsCall, CloseStates
<1> QED
  BY <1>1, <1>2 DEF Init, Serial!Init, AbsCalls

LEMMA RefinesStep ==
  ASSUME IInv, [Next]_vars
  PROVE  [Serial!Next]_(Serial!absVars)
<1> USE CallersAssumption
    DEF IInv, TypeOK, LockInv, ReplyInv, SlotInv, PhaseInv,
        Holding, Shut, CallerStates, WorkerStates, Replies, Results,
        CloseStates, Looping, ReceiverAlive, callVars, threadVars, lockVars,
        AbsCall, AbsCalls, AbsService, Serial!absVars
<1>1. CASE UNCHANGED vars
  BY <1>1 DEF vars
<1>2. CASE SpawnReturns
  BY <1>2 DEF SpawnReturns, Serial!Next, Serial!Open
<1>3. CASE FactoryBuilds \/ FactoryFails
  BY <1>3 DEF FactoryBuilds, FactoryFails
<1>4. CASE Receives
  BY <1>4 DEF Receives, FlightInv
<1>5. ASSUME NEW c \in Callers, RequestBegins(c) PROVE Serial!Ask(c)
  BY <1>5, ZenonT(40) DEF RequestBegins, Serial!Ask, Serial!Asked
<1>6. ASSUME NEW c \in Callers, CloseBegins(c) PROVE Serial!Ask(c)
  BY <1>6, ZenonT(40) DEF CloseBegins, EnterClose, Serial!Ask, Serial!Asked
<1>7. ASSUME NEW c \in Callers, HandleDrops(c) PROVE Serial!Ask(c)
  BY <1>7, ZenonT(40) DEF HandleDrops, EnterClose, Serial!Ask, Serial!Asked
<1>8. ASSUME NEW c \in Callers, RequestLocks(c)
      PROVE  Serial!Refuse(c) \/ UNCHANGED Serial!absVars
  <2>1. CASE sender
    <3>1. \A d \in Callers : AbsCall(d)' = AbsCall(d)
      BY <1>8, <2>1 DEF RequestLocks
    <3>2. AbsService' = AbsService /\ outcome' = outcome
      BY <1>8, <2>1 DEF RequestLocks
    <3> QED
      BY <3>1, <3>2
  <2>2. CASE ~sender
    <3>1. AbsCalls[c] = "request" /\ AbsService \in {"shut", "released"}
      BY <1>8, <2>2 DEF RequestLocks
    <3>2. AbsService' = AbsService /\ outcome' = [outcome EXCEPT ![c] = "closed"]
      BY <1>8, <2>2 DEF RequestLocks
    <3>3. \A d \in Callers : AbsCall(d)' = IF d = c THEN "idle" ELSE AbsCall(d)
      BY <1>8, <2>2 DEF RequestLocks
    <3>4. AbsCalls' = [AbsCalls EXCEPT ![c] = "idle"]
      BY <3>3 DEF AbsCalls
    <3> QED
      BY <3>1, <3>2, <3>4, Zenon DEF Serial!Refuse, Serial!Finish
  <2> QED
    BY <2>1, <2>2
<1>9. ASSUME NEW c \in Callers, RequestSends(c)
      PROVE  Serial!Refuse(c) \/ UNCHANGED Serial!absVars
  <2>1. CASE ReceiverAlive
    <3>1. \A d \in Callers : AbsCall(d)' = AbsCall(d)
      BY <1>9, <2>1 DEF RequestSends
    <3> QED
      BY <1>9, <2>1, <3>1 DEF RequestSends
  <2>2. CASE ~ReceiverAlive
    <3>1. AbsCalls[c] = "request" /\ AbsService \in {"shut", "released"}
      BY <1>9, <2>2 DEF RequestSends
    <3>2. AbsService' = AbsService /\ outcome' = [outcome EXCEPT ![c] = "panic"]
      BY <1>9, <2>2 DEF RequestSends
    <3>3. \A d \in Callers : AbsCall(d)' = IF d = c THEN "idle" ELSE AbsCall(d)
      BY <1>9, <2>2 DEF RequestSends
    <3>4. AbsCalls' = [AbsCalls EXCEPT ![c] = "idle"]
      BY <3>3 DEF AbsCalls
    <3> QED
      BY <3>1, <3>2, <3>4, Zenon DEF Serial!Refuse, Serial!Finish
  <2> QED
    BY <2>1, <2>2
<1>10. ASSUME NEW c \in Callers, RequestReturns(c)
       PROVE  Serial!Refuse(c) \/ Serial!Return(c)
  <2>1. CASE reply[c] = "disconnected"
    BY <1>10, <2>1, ZenonT(40) DEF RequestReturns, Serial!Refuse, Serial!Finish
  <2>2. CASE reply[c] # "disconnected"
    BY <1>10, <2>2, ZenonT(40) DEF RequestReturns, Serial!Return, Serial!Finish,
                       Serial!Served
  <2> QED
    BY <2>1, <2>2
<1>11. ASSUME NEW c \in Callers,
              CloseLocks(c) \/ CloseSends(c) \/ CloseReplied(c)
       PROVE  UNCHANGED Serial!absVars
  BY <1>11 DEF CloseLocks, CloseSends, CloseReplied
<1>12. ASSUME NEW c \in Callers, JoinLocks(c)
       PROVE  Serial!CloseReturn(c) \/ UNCHANGED Serial!absVars
  <2>1. CASE join
    BY <1>12, <2>1 DEF JoinLocks
  <2>2. CASE ~join
    <3>1. /\ AbsCalls[c] = "close" /\ AbsService = "released"
          /\ closeResult[c] \in {"ok", "panic"}
      BY <1>12, <2>2 DEF JoinLocks
    <3>2. AbsService' = AbsService /\ outcome' = [outcome EXCEPT ![c] = closeResult[c]]
      BY <1>12, <2>2 DEF JoinLocks
    <3>3. \A d \in Callers : AbsCall(d)' = IF d = c THEN "idle" ELSE AbsCall(d)
      BY <1>12, <2>2 DEF JoinLocks
    <3>4. AbsCalls' = [AbsCalls EXCEPT ![c] = "idle"]
      BY <3>3 DEF AbsCalls
    <3> QED
      BY <3>1, <3>2, <3>4, Zenon DEF Serial!CloseReturn, Serial!Finish
  <2> QED
    BY <2>1, <2>2
<1>13. ASSUME NEW c \in Callers, Joins(c) PROVE Serial!CloseReturn(c)
  BY <1>13, ZenonT(40) DEF Joins, Serial!CloseReturn, Serial!Finish
<1>14. ASSUME NEW result \in {"ok", "error"}, ExecuteReturns(result)
       PROVE  serving \in Callers /\ Serial!Execute(serving)
  BY <1>14, ZenonT(40) DEF ExecuteReturns, Answers, FlightInv, Pending, Serial!Execute,
               Serial!Served
<1>15. ASSUME ExecutePanics
       PROVE  serving \in Callers /\ Serial!Execute(serving)
  BY <1>15, ZenonT(40) DEF ExecutePanics, Answers, FlightInv, Pending, Serial!Execute,
               Serial!Served
<1>16. ASSUME NEW result \in {"ok", "panic"}, CloseReturns(result)
       PROVE  Serial!Shut
  BY <1>16 DEF CloseReturns, Answers, FlightInv, Pending, Serial!Shut
<1>17. ASSUME NEW ok \in BOOLEAN, BackendDrops(ok)
       PROVE  UNCHANGED Serial!absVars
  BY <1>17 DEF BackendDrops
<1>18. CASE ReceiverDrops
  BY <1>18, HeadCommand DEF ReceiverDrops, FlightInv, Pending, Serial!Next,
                            Serial!Release
<1> HIDE DEF IInv, TypeOK, LockInv, ReplyInv, SlotInv, PhaseInv, AbsCall,
             AbsCalls, AbsService, Serial!absVars
<1> QED
  BY <1>1, <1>2, <1>3, <1>4, <1>5, <1>6, <1>7, <1>8, <1>9, <1>10, <1>11,
     <1>12, <1>13, <1>14, <1>15, <1>16, <1>17, <1>18
  DEF Next, WorkerSteps, CallBegins, CallSteps, Serial!Next

\* For any number of threads, the handle's locks, channels and worker thread
\* implement the atomic serial backend.
THEOREM Refinement == Spec => ImplementsSerialBackend
<1>1. IInv /\ IInv' /\ [Next]_vars => [Serial!Next]_(Serial!absVars)
  BY RefinesStep
<1> QED
  BY <1>1, RefinesInit, Invariance, PTL
  DEF Spec, Serial!Spec, ImplementsSerialBackend
=============================================================================
