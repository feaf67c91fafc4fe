------------------------ MODULE ProfileWorkerProofs ------------------------
(***************************************************************************)
(* Proofs about ProfileWorker, for any child processes, any rooms of their *)
(* pipes and any bounds on requests and interpreter exceptions.            *)
(***************************************************************************)
EXTENDS ProfileWorker, Integers, TLAPS

\* Where the call under the lock has a child to talk to.
Talks == {"init", "startup", "write", "waiting", "closeWrite", "closeWaiting",
          "finishing"}

\* Which child the session has and which one it waits for.
ControlInv ==
  /\ pc \in Talks => process \in Processes
  /\ pc = "aborting" => process = NoProcess /\ ending \in Processes
  /\ pc = "finishing" => ending = process
  /\ pc \notin {"aborting", "finishing", "gone"} => ending = NoProcess
  /\ process # NoProcess => child[process].at # "unborn"
  /\ ending # NoProcess => child[ending].at # "unborn"

\* There is nothing in the pipes of a child that has not been started.
UnbornInv ==
  \A p \in Processes :
    child[p].at = "unborn" =>
      /\ child[p].stdin = << >> /\ child[p].stdout = << >>
      /\ child[p].held = "nothing"
      /\ child[p].readers = 0 /\ child[p].unread = 0 /\ child[p].lost = 0

\* There is an identifier left for the request that starts a child.
IdInv == pc \in {"init", "startup"} => nextId <= MaxRequests

\* After close() there is only the child that it ends.
CloseInv ==
  closed /\ interrupts = 0 =>
    \/ pc \in {"closeWrite", "closeWaiting", "finishing", "aborting", "gone"}
    \/ pc = "idle" /\ process = NoProcess

\* An answer is returned with its child ended or not.
AnswerInv ==
  pc \in {"idle", "aborting"} /\ outcome.kind \in {"response", "error"} =>
    outcome.id \in {NoId, nextId - 1}

\* The reader of the call itself.
Waiting == IF pc \in Waits THEN 1 ELSE 0

\* The states in which a child owes nothing that would be read.
Spent == {"stuck", "leaving", "exited"}

\* The frames that readers wait for: those that a child has in its pipes or in
\* its hands, those it lost, but not those that were left without a reader.
Handled(c) == IF c.at \in {"serving", "closing"} THEN 1 ELSE 0
Adrift(c) == ((IF c.held = "part" THEN 1 ELSE 0) + c.lost) - c.unread
Busy(c) == Handled(c) + Adrift(c)
Owed(c) == Len(c.stdin) + Len(c.stdout) + Busy(c)

\* What has become of the frames that were cut short.
SameParts(c, d) == c.held = d.held /\ c.lost = d.lost /\ c.unread = d.unread

\* Every such frame has a reader.
CountInv ==
  pc # "gone" /\ process # NoProcess =>
    child[process].at \in Spent
      \/ Owed(child[process]) = child[process].readers + Waiting

\* Readers are left behind by interpreter exceptions only.
ReadersInv == \A p \in Processes : child[p].readers <= interrupts

IInv ==
  /\ TypeOK /\ ControlInv /\ UnbornInv /\ IdInv /\ ReadersInv
  /\ OneWorker /\ CloseInv /\ AnswerInv /\ CountInv

-----------------------------------------------------------------------------
(* A child and its two pipes *)

LEMMA Fields ==
  ASSUME NEW c \in Children
  PROVE  /\ c.at \in ChildStates /\ c.status \in Statuses /\ c.id \in Ids
         /\ c.stdin \in ToPipes /\ c.stdout \in FromPipes
         /\ c.held \in {"nothing", "part", "rest"}
         /\ c.readers \in Counts /\ c.unread \in Nat /\ c.lost \in Nat
  BY SMT DEF Children

\* A child of which one field has changed.
LEMMA With ==
  ASSUME NEW c \in Children
  PROVE  /\ \A x \in ChildStates : [c EXCEPT !.at = x] \in Children
         /\ \A x \in Statuses : [c EXCEPT !.status = x] \in Children
         /\ \A x \in Ids : [c EXCEPT !.id = x] \in Children
         /\ \A x \in ToPipes : [c EXCEPT !.stdin = x] \in Children
         /\ \A x \in FromPipes : [c EXCEPT !.stdout = x] \in Children
         /\ \A x \in {"nothing", "part", "rest"} : [c EXCEPT !.held = x] \in Children
         /\ \A x \in Counts : [c EXCEPT !.readers = x] \in Children
         /\ \A x \in Nat : [c EXCEPT !.unread = x] \in Children
         /\ \A x \in Nat : [c EXCEPT !.lost = x] \in Children
         /\ \A x \in BOOLEAN : [c EXCEPT !.stdinOpen = x] \in Children
         /\ \A x \in BOOLEAN : [c EXCEPT !.stdoutOpen = x] \in Children
         /\ \A x \in BOOLEAN : [c EXCEPT !.terminated = x] \in Children
<1>1. ASSUME NEW x \in ChildStates PROVE [c EXCEPT !.at = x] \in Children
  BY SMT DEF Children
<1>2. ASSUME NEW x \in Statuses PROVE [c EXCEPT !.status = x] \in Children
  BY SMT DEF Children
<1>3. ASSUME NEW x \in Ids PROVE [c EXCEPT !.id = x] \in Children
  BY SMT DEF Children
<1>4. ASSUME NEW x \in ToPipes PROVE [c EXCEPT !.stdin = x] \in Children
  BY SMT DEF Children
<1>5. ASSUME NEW x \in FromPipes PROVE [c EXCEPT !.stdout = x] \in Children
  BY SMT DEF Children
<1>6. ASSUME NEW x \in Counts PROVE [c EXCEPT !.readers = x] \in Children
  BY SMT DEF Children
<1>7. ASSUME NEW x \in BOOLEAN PROVE [c EXCEPT !.stdinOpen = x] \in Children
  BY SMT DEF Children
<1>8. ASSUME NEW x \in BOOLEAN PROVE [c EXCEPT !.stdoutOpen = x] \in Children
  BY SMT DEF Children
<1>9. ASSUME NEW x \in BOOLEAN PROVE [c EXCEPT !.terminated = x] \in Children
  BY SMT DEF Children
<1>10. ASSUME NEW x \in {"nothing", "part", "rest"}
       PROVE  [c EXCEPT !.held = x] \in Children
  BY SMT DEF Children
<1>11. ASSUME NEW x \in Nat PROVE [c EXCEPT !.unread = x] \in Children
  BY SMT DEF Children
<1>12. ASSUME NEW x \in Nat PROVE [c EXCEPT !.lost = x] \in Children
  BY SMT DEF Children
<1> QED
  BY <1>1, <1>2, <1>3, <1>4, <1>5, <1>6, <1>7, <1>8, <1>9, <1>10, <1>11, <1>12

LEMMA Ending ==
  ASSUME NEW c \in Children, NEW status \in Statuses
  PROVE  /\ Exits(c, status) \in Children /\ Leaves(c, status) \in Children
         /\ Exits(c, status).at = "exited" /\ Leaves(c, status).at = "leaving"
         /\ Exits(c, status).readers = c.readers /\ Leaves(c, status).readers = c.readers
         /\ Leaves(c, status).stdout = c.stdout
<1>1. /\ "exited" \in ChildStates /\ "leaving" \in ChildStates
      /\ NoId \in Ids /\ << >> \in ToPipes
  BY BoundsAssumption, SMT DEF ChildStates, NoId, Ids, ToPipes
<1>2. PICK gone \in Children : gone = [c EXCEPT !.at = "exited"]
  BY <1>1, With
<1>3. PICK ended \in Children : ended = [gone EXCEPT !.status = status]
  BY <1>2, With
<1>4. PICK nameless \in Children : nameless = [ended EXCEPT !.id = NoId]
  BY <1>1, <1>3, With
<1>5. PICK drained \in Children : drained = [nameless EXCEPT !.stdin = << >>]
  BY <1>1, <1>4, With
<1>6. PICK empty \in Children : empty = [drained EXCEPT !.held = "nothing"]
  BY <1>5, With
<1>7. empty = Exits(c, status)
  BY <1>2, <1>3, <1>4, <1>5, <1>6, SMT DEF Exits
<1>8. PICK last \in Children : last = [c EXCEPT !.at = "leaving"]
  BY <1>1, With
<1>9. PICK done \in Children : done = [last EXCEPT !.status = status]
  BY <1>8, With
<1>10. done = Leaves(c, status)
  BY <1>8, <1>9, SMT DEF Leaves
<1> QED
  BY <1>6, <1>7, <1>9, <1>10, SMT DEF Exits, Leaves, Children

\* What is appended and taken off at a pipe.
LEMMA Pipes ==
  ASSUME NEW S, NEW s \in Seq(S)
  PROVE  /\ Len(s) \in Nat
         /\ \A e \in S : Append(s, e) \in Seq(S) /\ Len(Append(s, e)) = Len(s) + 1
         /\ s # << >> => /\ Tail(s) \in Seq(S) /\ Len(Tail(s)) \in Nat
                         /\ Len(s) = Len(Tail(s)) + 1 /\ Head(s) \in S
<1>1. ASSUME NEW e \in S
      PROVE  Append(s, e) \in Seq(S) /\ Len(Append(s, e)) = Len(s) + 1
  BY SMT
<1>2. ASSUME s # << >>
      PROVE  /\ Tail(s) \in Seq(S) /\ Len(Tail(s)) \in Nat
             /\ Len(s) = Len(Tail(s)) + 1 /\ Head(s) \in S
  BY <1>2, SMT
<1>3. Len(s) \in Nat
  BY SMT
<1> QED
  BY <1>1, <1>2, <1>3

LEMMA PipeLengths ==
  ASSUME NEW c \in Children
  PROVE  Len(c.stdin) \in Nat /\ Len(c.stdout) \in Nat
<1>1. c.stdin \in ToPipes /\ c.stdout \in FromPipes
  BY Fields
<1> QED
  BY <1>1, Pipes DEF ToPipes, FromPipes

LEMMA Sums ==
  \A k, m \in Nat : \A n \in Int :
    /\ k + m + n \in Int
    /\ (k + 1) + m + n = (k + m + n) + 1
    /\ k + (m + 1) + n = (k + m + n) + 1
  BY SMT

LEMMA BusyIs ==
  ASSUME NEW c \in Children
  PROVE  Busy(c) \in Int /\ Adrift(c) \in Int /\ Handled(c) \in Int
<1>1. c.unread \in Nat /\ c.lost \in Nat
  BY Fields
<1>2. \A k, m \in Nat : (0 + k) - m \in Int /\ (1 + k) - m \in Int
  BY SMT
<1>3. Adrift(c) \in Int
  BY <1>1, <1>2 DEF Adrift
<1>4. Handled(c) \in Int
  BY SMT DEF Handled
<1> HIDE DEF Adrift, Handled
<1> QED
  BY <1>3, <1>4, SMT DEF Busy

LEMMA OwedIs ==
  ASSUME NEW c \in Children
  PROVE  Owed(c) \in Int /\ c.readers \in Nat
<1>1. Len(c.stdin) \in Nat /\ Len(c.stdout) \in Nat /\ c.readers \in Counts
  BY PipeLengths, Fields
<1>2. Busy(c) \in Int
  BY BusyIs
<1>3. c.readers \in Nat
  BY <1>1, BoundsAssumption, SMT DEF Counts
<1> QED
  BY <1>1, <1>2, <1>3, Sums, Zenon DEF Owed

LEMMA Appended ==
  ASSUME NEW c \in Children, NEW kind \in FromChild, NEW id \in Ids
  PROVE  LET d == [c EXCEPT !.stdout = Append(@, Frame(kind, id))]
         IN  /\ d \in Children /\ d.at = c.at /\ d.readers = c.readers
             /\ Owed(d) = Owed(c) + 1
<1> DEFINE d == [c EXCEPT !.stdout = Append(c.stdout, Frame(kind, id))]
<1>1. Frame(kind, id) \in [kind : FromChild, id : Ids]
  BY DEF Frame
<1>2. c.stdout \in FromPipes /\ Len(c.stdin) \in Nat /\ Len(c.stdout) \in Nat
  BY Fields, PipeLengths
<1>3. /\ Append(c.stdout, Frame(kind, id)) \in FromPipes
      /\ Len(Append(c.stdout, Frame(kind, id))) = Len(c.stdout) + 1
  BY <1>1, <1>2, Pipes DEF FromPipes
<1>4. d \in Children
  BY <1>3, With
<1>5. /\ d.at = c.at /\ d.readers = c.readers /\ d.stdin = c.stdin
      /\ d.stdout = Append(c.stdout, Frame(kind, id)) /\ SameParts(d, c)
  BY SMT DEF Children, SameParts
<1>6. Owed(d) = Owed(c) + 1
  <2> HIDE DEF d
  <2>1. Busy(c) \in Int /\ Busy(d) = Busy(c)
    BY <1>5, BusyIs DEF Busy, Handled, Adrift, SameParts
  <2> HIDE DEF Busy
  <2>2. Owed(d) = Len(c.stdin) + (Len(c.stdout) + 1) + Busy(c)
    BY <2>1, <1>3, <1>5, Zenon DEF Owed
  <2> QED
    BY <1>2, <2>1, <2>2, Sums, Zenon DEF Owed
<1> QED
  BY <1>4, <1>5, <1>6

\* A frame that is written to a child.
LEMMA Written ==
  ASSUME NEW c \in Children, NEW kind \in ToChild, NEW id \in Ids
  PROVE  LET d == [c EXCEPT !.stdin = Append(@, Frame(kind, id))]
         IN  /\ d \in Children /\ d.at = c.at /\ d.readers = c.readers
             /\ Owed(d) = Owed(c) + 1
<1> DEFINE d == [c EXCEPT !.stdin = Append(c.stdin, Frame(kind, id))]
<1>1. Frame(kind, id) \in [kind : ToChild, id : Ids]
  BY DEF Frame
<1>2. c.stdin \in ToPipes /\ Len(c.stdin) \in Nat /\ Len(c.stdout) \in Nat
  BY Fields, PipeLengths
<1>3. /\ Append(c.stdin, Frame(kind, id)) \in ToPipes
      /\ Len(Append(c.stdin, Frame(kind, id))) = Len(c.stdin) + 1
  BY <1>1, <1>2, Pipes DEF ToPipes
<1>4. d \in Children
  BY <1>3, With
<1>5. /\ d.at = c.at /\ d.readers = c.readers /\ d.stdout = c.stdout
      /\ d.stdin = Append(c.stdin, Frame(kind, id)) /\ SameParts(d, c)
  BY SMT DEF Children, SameParts
<1>6. Owed(d) = Owed(c) + 1
  <2> HIDE DEF d
  <2>1. Busy(c) \in Int /\ Busy(d) = Busy(c)
    BY <1>5, BusyIs DEF Busy, Handled, Adrift, SameParts
  <2> HIDE DEF Busy
  <2>2. Owed(d) = (Len(c.stdin) + 1) + Len(c.stdout) + Busy(c)
    BY <2>1, <1>3, <1>5, Zenon DEF Owed
  <2> QED
    BY <1>2, <2>1, <2>2, Sums, Zenon DEF Owed
<1> QED
  BY <1>4, <1>5, <1>6

\* A child that owes one frame more, and what it owes is in its hands or lost.
LEMMA OneMore ==
  ASSUME NEW c \in Children, NEW d \in Children,
         c.stdin = d.stdin, c.stdout = d.stdout, c.at = d.at,
         Adrift(c) = Adrift(d) + 1
  PROVE  Owed(c) = Owed(d) + 1
<1>1. PICK k \in Nat : k = Len(d.stdin)
  BY PipeLengths
<1>2. PICK m \in Nat : m = Len(d.stdout)
  BY PipeLengths
<1>3. PICK b \in Int : b = Handled(d)
  BY BusyIs
<1>4. PICK a \in Int : a = Adrift(d)
  BY BusyIs
<1>5. Owed(c) = k + m + (b + (a + 1)) /\ Owed(d) = k + m + (b + a)
  BY <1>1, <1>2, <1>3, <1>4, Zenon DEF Owed, Busy, Handled
<1>6. k + m + (b + (a + 1)) = (k + m + (b + a)) + 1
  BY SMT
<1> QED
  BY <1>5, <1>6, Zenon

LEMMA TakenIn ==
  ASSUME NEW c \in Children, c.stdin # << >>
  PROVE  LET d == [c EXCEPT !.stdin = Tail(@)]
         IN  /\ d \in Children /\ d.at = c.at /\ d.readers = c.readers
             /\ d.stdin = Tail(c.stdin) /\ d.stdout = c.stdout /\ SameParts(d, c)
             /\ Owed(c) = Owed(d) + 1
             /\ Head(c.stdin) \in [kind : ToChild, id : Ids]
<1> DEFINE d == [c EXCEPT !.stdin = Tail(c.stdin)]
<1>1. c.stdin \in ToPipes /\ Len(c.stdin) \in Nat /\ Len(c.stdout) \in Nat
  BY Fields, PipeLengths
<1>2. /\ Tail(c.stdin) \in ToPipes /\ Len(Tail(c.stdin)) \in Nat
      /\ Len(c.stdin) = Len(Tail(c.stdin)) + 1
      /\ Head(c.stdin) \in [kind : ToChild, id : Ids]
  BY <1>1, Pipes DEF ToPipes
<1>3. d \in Children
  BY <1>2, With
<1>4. /\ d.at = c.at /\ d.readers = c.readers /\ d.stdout = c.stdout
      /\ d.stdin = Tail(c.stdin) /\ SameParts(d, c)
  BY SMT DEF Children, SameParts
<1>5. Owed(c) = Owed(d) + 1
  <2> HIDE DEF d
  <2>1. Busy(c) \in Int /\ Busy(d) = Busy(c)
    BY <1>4, BusyIs DEF Busy, Handled, Adrift, SameParts
  <2> HIDE DEF Busy
  <2>2. Owed(c) = (Len(Tail(c.stdin)) + 1) + Len(c.stdout) + Busy(c)
    BY <1>2, Zenon DEF Owed
  <2>3. Owed(d) = Len(Tail(c.stdin)) + Len(c.stdout) + Busy(c)
    BY <1>4, <2>1, Zenon DEF Owed
  <2>4. /\ Len(Tail(c.stdin)) \in Nat /\ Len(c.stdout) \in Nat
        /\ Busy(c) \in Int
    BY <1>1, <1>2, <2>1
  <2>5. (Len(Tail(c.stdin)) + 1) + Len(c.stdout) + Busy(c)
          = (Len(Tail(c.stdin)) + Len(c.stdout) + Busy(c)) + 1
    BY <2>4, Sums
  <2> QED
    BY <2>2, <2>3, <2>5, Zenon
<1> QED
  BY <1>2, <1>3, <1>4, <1>5

LEMMA TakenOut ==
  ASSUME NEW c \in Children, c.stdout # << >>
  PROVE  /\ Receive(c) \in Children
         /\ Receive(c).at = c.at /\ Receive(c).readers = c.readers
         /\ Owed(c) = Owed(Receive(c)) + 1
         /\ Head(c.stdout) \in [kind : FromChild, id : Ids]
<1> DEFINE d == [c EXCEPT !.stdout = Tail(c.stdout)]
<1>1. c.stdout \in FromPipes /\ Len(c.stdin) \in Nat /\ Len(c.stdout) \in Nat
  BY Fields, PipeLengths
<1>2. /\ Tail(c.stdout) \in FromPipes /\ Len(Tail(c.stdout)) \in Nat
      /\ Len(c.stdout) = Len(Tail(c.stdout)) + 1
      /\ Head(c.stdout) \in [kind : FromChild, id : Ids]
  BY <1>1, Pipes DEF FromPipes
<1>3. d \in Children
  BY <1>2, With
<1>4. /\ d.at = c.at /\ d.readers = c.readers /\ d.stdin = c.stdin
      /\ d.stdout = Tail(c.stdout) /\ SameParts(d, c)
  BY SMT DEF Children, SameParts
<1>5. Owed(c) = Owed(d) + 1
  <2> HIDE DEF d
  <2>1. Busy(c) \in Int /\ Busy(d) = Busy(c)
    BY <1>4, BusyIs DEF Busy, Handled, Adrift, SameParts
  <2> HIDE DEF Busy
  <2>2. Owed(c) = Len(c.stdin) + (Len(Tail(c.stdout)) + 1) + Busy(c)
    BY <1>2, Zenon DEF Owed
  <2>3. Owed(d) = Len(c.stdin) + Len(Tail(c.stdout)) + Busy(c)
    BY <1>4, <2>1, Zenon DEF Owed
  <2>4. /\ Len(c.stdin) \in Nat /\ Len(Tail(c.stdout)) \in Nat
        /\ Busy(c) \in Int
    BY <1>1, <1>2, <2>1
  <2>5. Len(c.stdin) + (Len(Tail(c.stdout)) + 1) + Busy(c)
          = (Len(c.stdin) + Len(Tail(c.stdout)) + Busy(c)) + 1
    BY <2>4, Sums
  <2> QED
    BY <2>2, <2>3, <2>5, Zenon
<1>6. Receive(c) = d
  BY DEF Receive
<1> QED
  BY <1>2, <1>3, <1>4, <1>5, <1>6

-----------------------------------------------------------------------------
(* One child changes *)

LEMMA Updates ==
  ASSUME child \in [Processes -> Children], NEW p \in Processes, NEW c \in Children,
         child' = [child EXCEPT ![p] = c]
  PROVE  /\ child' \in [Processes -> Children]
         /\ child'[p] = c
         /\ \A q \in Processes : q # p => child'[q] = child[q]
  BY Zenon

\* A step of a child, or of a reader that was left behind, keeps the balance
\* of frames and readers.
LEMMA ChildChange ==
  ASSUME IInv, UNCHANGED parentVars,
         NEW p \in Processes, NEW c \in Children, child' = [child EXCEPT ![p] = c],
         child[p].at # "unborn", c.at # "unborn",
         c.at = "exited" \/ child[p].at # "exited",
         c.readers <= child[p].readers,
         \/ c.at \in Spent
         \/ /\ child[p].at \notin Spent
            /\ Owed(c) + child[p].readers = Owed(child[p]) + c.readers
  PROVE  IInv'
<1>u. /\ child' \in [Processes -> Children]
      /\ child'[p] = c
      /\ \A q \in Processes : q # p => child'[q] = child[q]
  BY Updates DEF IInv, TypeOK
<1>p. /\ process' = process /\ closed' = closed /\ nextId' = nextId /\ pc' = pc
      /\ ending' = ending /\ outcome' = outcome /\ interrupts' = interrupts
  BY DEF parentVars
<1>1. TypeOK'
  BY <1>u, <1>p DEF IInv, TypeOK
<1>2. ControlInv'
  BY <1>u, <1>p DEF IInv, ControlInv, TypeOK
<1>3. UnbornInv'
  BY <1>u, <1>p DEF IInv, UnbornInv
<1>4. IdInv'
  BY <1>p DEF IInv, IdInv
<1>5. ReadersInv'
  <2>1. \A q \in Processes : child[q].readers \in Nat /\ interrupts \in Nat
    BY Fields, BoundsAssumption, SMT DEF IInv, TypeOK, Counts
  <2>2. c.readers \in Nat
    BY OwedIs
  <2> QED
    BY <1>u, <1>p, <2>1, <2>2, SMT DEF IInv, ReadersInv
<1>6. OneWorker'
  BY <1>u, <1>p DEF IInv, OneWorker, Running
<1>7. CloseInv'
  BY <1>p DEF IInv, CloseInv
<1>8. AnswerInv'
  BY <1>p DEF IInv, AnswerInv
<1>9. CountInv'
  <2>1. Owed(c) \in Int /\ c.readers \in Nat
    BY OwedIs
  <2>2. \A q \in Processes : Owed(child[q]) \in Int /\ child[q].readers \in Nat
    BY OwedIs DEF IInv, TypeOK
  <2>3. Waiting' = Waiting /\ Waiting \in Nat
    BY <1>p DEF Waiting
  <2>4. pc # "gone" /\ process # NoProcess =>
          child[process].at \in Spent
            \/ Owed(child[process]) = child[process].readers + Waiting
    BY DEF IInv, CountInv, Owed, Busy, Handled, Adrift, Spent
  <2>5. pc # "gone" /\ process # NoProcess =>
          child'[process].at \in Spent
            \/ Owed(child'[process]) = child'[process].readers + Waiting
    <3> HIDE DEF Owed
    <3>1. process # NoProcess => process \in Processes
      BY DEF IInv, TypeOK
    <3>2. CASE process = p
      BY <1>u, <2>1, <2>2, <2>3, <2>4, <3>2, SMT
    <3>3. CASE process # p
      BY <1>u, <2>4, <3>1, <3>3
    <3> QED
      BY <3>2, <3>3
  <2> QED
    BY <1>p, <2>3, <2>5 DEF CountInv, Owed, Busy, Handled, Adrift, Spent
<1> QED
  BY <1>1, <1>2, <1>3, <1>4, <1>5, <1>6, <1>7, <1>8, <1>9 DEF IInv

-----------------------------------------------------------------------------
(* The steps of a child *)

\* write_frame() in the child, of an answer to what it has read or handled.
LEMMA ChildWritesInv ==
  ASSUME IInv, UNCHANGED parentVars, NEW p \in Processes,
         NEW kind \in FromChild, NEW id \in Ids, NEW next \in Children,
         ChildWrites(p, kind, id, next),
         child[p].at \notin {"unborn", "exited"}, next.at # "unborn",
         next.readers = child[p].readers,
         \/ next.at \in Spent
         \/ child[p].at \notin Spent /\ Owed(child[p]) = Owed(next) + 1
  PROVE  IInv'
<1>1. child[p] \in Children
  BY DEF IInv, TypeOK
<1>2. CASE child' = [child EXCEPT ![p] =
                       [next EXCEPT !.stdout = Append(@, Frame(kind, id))]]
  <2> DEFINE d == [next EXCEPT !.stdout = Append(@, Frame(kind, id))]
  <2>1. /\ d \in Children /\ d.at = next.at /\ d.readers = next.readers
        /\ Owed(d) = Owed(next) + 1
    BY Appended
  <2>2. child' = [child EXCEPT ![p] = d]
    BY <1>2
  <2>3. Owed(d) \in Int /\ d.readers \in Nat /\ d.readers <= child[p].readers
    BY <2>1, OwedIs
  <2> HIDE DEF d
  <2> QED
    BY <2>1, <2>2, <2>3, ChildChange
<1>3. CASE child' = [child EXCEPT ![p] = Exits(child[p], Failed)]
  <2> DEFINE d == Exits(child[p], Failed)
  <2>1. d \in Children /\ d.at = "exited" /\ d.readers = child[p].readers
    BY <1>1, Ending DEF Statuses
  <2>2. d.readers <= child[p].readers
    BY <1>1, <2>1, OwedIs
  <2>3. child' = [child EXCEPT ![p] = d]
    BY <1>3
  <2> HIDE DEF d
  <2> QED
    BY <2>1, <2>2, <2>3, ChildChange DEF Spent
<1> QED
  BY <1>2, <1>3 DEF ChildWrites

\* A child that ends.
LEMMA ChildExitsInv ==
  ASSUME IInv, UNCHANGED parentVars, NEW p \in Processes,
         NEW status \in Statuses, Running(p),
         child' = [child EXCEPT ![p] = Exits(child[p], status)]
  PROVE  IInv'
<1> DEFINE d == Exits(child[p], status)
<1>1. child[p] \in Children
  BY DEF IInv, TypeOK
<1>2. d \in Children /\ d.at = "exited" /\ d.readers = child[p].readers
  BY <1>1, Ending
<1>3. d.readers <= child[p].readers
  BY <1>1, <1>2, OwedIs
<1>4. child' = [child EXCEPT ![p] = d]
  OBVIOUS
<1> HIDE DEF d
<1> QED
  BY <1>2, <1>3, <1>4, ChildChange DEF Spent, Running

\* A child that goes on.
LEMMA Moves ==
  ASSUME NEW c \in Children, NEW at \in ChildStates
  PROVE  LET d == [c EXCEPT !.at = at]
         IN  /\ d \in Children /\ d.at = at /\ d.readers = c.readers
             /\ SameParts(d, c)
             /\ c.at \in {"serving", "closing"} /\ at \notin {"serving", "closing"}
                  => Owed(c) = Owed(d) + 1
             /\ c.at \notin {"serving", "closing"} /\ at \in {"serving", "closing"}
                  => Owed(d) = Owed(c) + 1
             /\ c.at \notin {"serving", "closing"} /\ at \notin {"serving", "closing"}
                  => Owed(d) = Owed(c)
<1> DEFINE d == [c EXCEPT !.at = at]
<1>1. d \in Children
  BY With
<1>2. /\ d.at = at /\ d.readers = c.readers /\ SameParts(d, c)
      /\ d.stdin = c.stdin /\ d.stdout = c.stdout
  BY SMT DEF Children, SameParts
<1>3. Len(c.stdin) \in Nat /\ Len(c.stdout) \in Nat /\ Adrift(c) \in Int
  BY PipeLengths, BusyIs
<1> HIDE DEF d
<1>4. /\ Owed(d) = Len(c.stdin) + Len(c.stdout) + (Handled(d) + Adrift(c))
      /\ Owed(c) = Len(c.stdin) + Len(c.stdout) + (Handled(c) + Adrift(c))
  BY <1>2, Zenon DEF Owed, Busy, Adrift, SameParts
<1>5. /\ Handled(d) = IF at \in {"serving", "closing"} THEN 1 ELSE 0
      /\ Handled(c) = IF c.at \in {"serving", "closing"} THEN 1 ELSE 0
  BY <1>2 DEF Handled
<1>6. \A k, m \in Nat : \A n \in Int : k + m + (1 + n) = (k + m + (0 + n)) + 1
  BY SMT
<1>7. Len(c.stdin) + Len(c.stdout) + (1 + Adrift(c))
        = (Len(c.stdin) + Len(c.stdout) + (0 + Adrift(c))) + 1
  BY <1>3, <1>6
<1>8. /\ d \in Children /\ d.at = at /\ d.readers = c.readers
      /\ SameParts(d, c)
      /\ c.at \in {"serving", "closing"} /\ at \notin {"serving", "closing"}
           => Owed(c) = Owed(d) + 1
      /\ c.at \notin {"serving", "closing"} /\ at \in {"serving", "closing"}
           => Owed(d) = Owed(c) + 1
      /\ c.at \notin {"serving", "closing"} /\ at \notin {"serving", "closing"}
           => Owed(d) = Owed(c)
  BY <1>1, <1>2, <1>4, <1>5, <1>7, Zenon
<1> QED
  BY <1>8 DEF d

\* The first frame of a child, c with it taken off.
LEMMA BootsInv ==
  ASSUME IInv, UNCHANGED parentVars, NEW p \in Processes, NEW c \in Children,
         child[p].at = "booting", c.at = "booting", c.readers = child[p].readers,
         Owed(child[p]) = Owed(c) + 1, Boots(p, c)
  PROVE  IInv'
<1> DEFINE next == [c EXCEPT !.at = "loop"]
<1>1. \/ ChildWrites(p, "ready", NoId, next)
      \/ ChildWrites(p, "error", NoId, Leaves(c, Failed))
  BY DEF Boots
<1>2. NoId \in Ids /\ "ready" \in FromChild /\ "error" \in FromChild
  BY BoundsAssumption, SMT DEF NoId, Ids, FromChild
<1>3. /\ next \in Children /\ next.at = "loop" /\ next.readers = child[p].readers
      /\ Owed(child[p]) = Owed(next) + 1
  BY Moves DEF ChildStates
<1>4. /\ Leaves(c, Failed) \in Children /\ Leaves(c, Failed).at = "leaving"
      /\ Leaves(c, Failed).readers = child[p].readers
  BY Ending DEF Statuses
<1> HIDE DEF next
<1>5. CASE ChildWrites(p, "ready", NoId, next)
  BY <1>2, <1>3, <1>5, ChildWritesInv DEF Spent
<1>6. CASE ChildWrites(p, "error", NoId, Leaves(c, Failed))
  BY <1>2, <1>4, <1>6, ChildWritesInv DEF Spent
<1> QED
  BY <1>1, <1>5, <1>6

LEMMA ChildBootsInv ==
  ASSUME IInv, NEW p \in Processes, ChildBoots(p)
  PROVE  IInv'
<1> DEFINE c == [child[p] EXCEPT !.stdin = Tail(@)]
<1>1. /\ child[p] \in Children /\ child[p].at = "booting" /\ child[p].stdin # << >>
      /\ UNCHANGED parentVars
      /\ Boots(p, c) \/ child' = [child EXCEPT ![p] = Exits(child[p], Failed)]
  BY DEF IInv, TypeOK, ChildBoots
<1>2. /\ c \in Children /\ c.at = "booting" /\ c.readers = child[p].readers
      /\ Owed(child[p]) = Owed(c) + 1
  BY <1>1, TakenIn
<1> HIDE DEF c
<1>3. CASE Boots(p, c)
  BY <1>1, <1>2, <1>3, BootsInv
<1>4. CASE child' = [child EXCEPT ![p] = Exits(child[p], Failed)]
  BY <1>1, <1>4, ChildExitsInv DEF Running, Statuses
<1> QED
  BY <1>1, <1>3, <1>4

LEMMA ChildReadsInv ==
  ASSUME IInv, NEW p \in Processes, ChildReads(p)
  PROVE  IInv'
<1> DEFINE frame == Head(child[p].stdin)
           to == IF frame.kind = "close" THEN "closing" ELSE "serving"
           c == [child[p] EXCEPT !.stdin = Tail(@)]
           e == [c EXCEPT !.id = frame.id]
           d == [e EXCEPT !.at = to]
<1>1. child[p] \in Children /\ child[p].at = "loop" /\ child[p].stdin # << >>
  BY DEF IInv, TypeOK, ChildReads
<1>2. /\ c \in Children /\ c.at = "loop" /\ c.readers = child[p].readers
      /\ Owed(child[p]) = Owed(c) + 1 /\ frame.id \in Ids
  BY <1>1, TakenIn
<1>3. UNCHANGED parentVars
  BY DEF ChildReads
<1>4. child' = [child EXCEPT ![p] = d]
  <2>1. d = [child[p] EXCEPT !.stdin = Tail(@), !.id = frame.id, !.at = to]
    BY SMT
  <2> QED
    BY <2>1, Zenon DEF ChildReads
<1>5. to \in {"closing", "serving"}
  OBVIOUS
<1> HIDE DEF c, to, frame
<1>6. e \in Children
  BY <1>2, With
<1>7. e.at = "loop" /\ e.readers = child[p].readers /\ Owed(e) = Owed(c)
  <2>1. /\ e.at = c.at /\ e.readers = c.readers /\ SameParts(e, c)
        /\ e.stdin = c.stdin /\ e.stdout = c.stdout
    BY <1>2, SMT DEF Children, SameParts
  <2> QED
    BY <1>2, <2>1 DEF Owed, Busy, Handled, Adrift, SameParts
<1> HIDE DEF e
<1>8. /\ d \in Children /\ d.at = to /\ d.readers = child[p].readers
      /\ Owed(d) = Owed(e) + 1
  <2>1. /\ to \in ChildStates /\ to \in {"serving", "closing"}
        /\ e.at \notin {"serving", "closing"}
    BY <1>5, <1>7 DEF ChildStates
  <2> QED
    BY <1>6, <1>7, <2>1, Moves
<1>9. d.readers <= child[p].readers
  BY <1>1, <1>8, OwedIs
<1> HIDE DEF d
<1> QED
  BY <1>1, <1>2, <1>3, <1>4, <1>5, <1>7, <1>8, <1>9, ChildChange DEF Spent

\* A part is still owed when it has been read.
LEMMA ChildReadsPartInv ==
  ASSUME IInv, NEW p \in Processes, ChildReadsPart(p)
  PROVE  IInv'
<1> DEFINE frame == Head(child[p].stdin)
           c == [child[p] EXCEPT !.stdin = Tail(@)]
           e == [c EXCEPT !.id = frame.id]
           d == [e EXCEPT !.held = "part"]
<1>1. /\ child[p] \in Children /\ child[p].at \in {"booting", "loop"}
      /\ child[p].held = "nothing" /\ child[p].stdin # << >>
      /\ UNCHANGED parentVars
  BY DEF IInv, TypeOK, ChildReadsPart
<1>2. /\ c \in Children /\ c.at = child[p].at /\ c.readers = child[p].readers
      /\ Owed(child[p]) = Owed(c) + 1 /\ SameParts(c, child[p]) /\ frame.id \in Ids
  BY <1>1, TakenIn
<1>3. child' = [child EXCEPT ![p] = d]
  <2>1. d = [child[p] EXCEPT !.stdin = Tail(@), !.id = frame.id, !.held = "part"]
    BY SMT
  <2> QED
    BY <2>1, Zenon DEF ChildReadsPart
<1> HIDE DEF c, frame
<1>4. e \in Children
  BY <1>2, With
<1>5. d \in Children
  BY <1>4, With
<1>6. /\ d.at = c.at /\ d.readers = c.readers
      /\ d.stdin = c.stdin /\ d.stdout = c.stdout
      /\ d.held = "part" /\ d.lost = c.lost /\ d.unread = c.unread
  BY <1>2, SMT DEF Children
<1> HIDE DEF d
<1>7. Owed(d) = Owed(c) + 1
  <2>1. PICK l \in Nat : l = c.lost
    BY <1>2, Fields
  <2>2. PICK u \in Nat : u = c.unread
    BY <1>2, Fields
  <2>3. Adrift(d) = (1 + l) - u /\ Adrift(c) = (0 + l) - u
    BY <1>1, <1>2, <1>6, <2>1, <2>2 DEF Adrift, SameParts
  <2>4. (1 + l) - u = ((0 + l) - u) + 1
    BY SMT
  <2> QED
    BY <1>2, <1>5, <1>6, <2>3, <2>4, OneMore
<1>8. d.readers <= child[p].readers
  BY <1>1, <1>2, <1>6, OwedIs
<1> QED
  BY <1>1, <1>2, <1>3, <1>5, <1>6, <1>7, <1>8, ChildChange DEF Spent

\* A frame that is read as the rest of a part is waited for in vain.
LEMMA Loses ==
  ASSUME NEW c \in Children, c.stdin # << >>
  PROVE  LET d == [c EXCEPT !.stdin = Tail(@), !.lost = @ + 1]
         IN  /\ d \in Children /\ d.at = c.at /\ d.readers = c.readers
             /\ d.held = c.held /\ d.id = c.id
             /\ Owed(d) = Owed(c)
<1> DEFINE e == [c EXCEPT !.stdin = Tail(c.stdin)]
           d == [e EXCEPT !.lost = e.lost + 1]
<1>1. /\ e \in Children /\ e.at = c.at /\ e.readers = c.readers
      /\ e.stdin = Tail(c.stdin) /\ e.stdout = c.stdout
      /\ Owed(c) = Owed(e) + 1 /\ SameParts(e, c)
  BY TakenIn
<1>2. e.id = c.id
  BY SMT DEF Children
<1>3. d = [c EXCEPT !.stdin = Tail(@), !.lost = @ + 1]
  BY SMT DEF Children
<1> HIDE DEF e
<1>4. e.lost \in Nat /\ e.unread \in Nat /\ e.lost + 1 \in Nat
  BY <1>1, Fields, SMT
<1>5. d \in Children
  BY <1>1, <1>4, With
<1>6. /\ d.at = e.at /\ d.readers = e.readers /\ d.id = e.id
      /\ d.stdin = e.stdin /\ d.stdout = e.stdout
      /\ d.held = e.held /\ d.lost = e.lost + 1 /\ d.unread = e.unread
  BY <1>1, SMT DEF Children
<1>7. Owed(d) = Owed(e) + 1
  <2>1. PICK l \in Nat : l = e.lost
    BY <1>1, Fields
  <2>2. PICK u \in Nat : u = e.unread
    BY <1>1, Fields
  <2>3. PICK h \in Nat : h = IF e.held = "part" THEN 1 ELSE 0
    OBVIOUS
  <2>4. Adrift(d) = (h + (l + 1)) - u /\ Adrift(e) = (h + l) - u
    BY <1>6, <2>1, <2>2, <2>3 DEF Adrift
  <2>5. (h + (l + 1)) - u = ((h + l) - u) + 1
    BY SMT
  <2> QED
    BY <1>1, <1>5, <1>6, <2>4, <2>5, OneMore
<1> HIDE DEF d
<1>8. /\ d \in Children /\ d.at = c.at /\ d.readers = c.readers
      /\ d.held = c.held /\ d.id = c.id /\ Owed(d) = Owed(c)
  BY <1>1, <1>2, <1>5, <1>6, <1>7 DEF SameParts
<1> QED
  BY <1>3, <1>8

\* A part is whole, and bytes may be over.
LEMMA CompletesInv ==
  ASSUME NEW c \in Children, c.held = "part", NEW over \in {"nothing", "rest"}
  PROVE  LET d == [c EXCEPT !.held = over]
         IN  /\ d \in Children /\ d.at = c.at /\ d.readers = c.readers
             /\ Owed(c) = Owed(d) + 1
<1> DEFINE d == [c EXCEPT !.held = over]
<1>1. d \in Children
  BY With
<1>2. /\ d.at = c.at /\ d.readers = c.readers
      /\ d.stdin = c.stdin /\ d.stdout = c.stdout
      /\ d.held = over /\ d.lost = c.lost /\ d.unread = c.unread
  BY SMT DEF Children
<1> HIDE DEF d
<1>3. PICK l \in Nat : l = c.lost
  BY Fields
<1>4. PICK u \in Nat : u = c.unread
  BY Fields
<1>5. Adrift(c) = (1 + l) - u /\ Adrift(d) = (0 + l) - u
  BY <1>2, <1>3, <1>4 DEF Adrift
<1>6. (1 + l) - u = ((0 + l) - u) + 1
  BY SMT
<1>7. Adrift(c) = Adrift(d) + 1
  BY <1>5, <1>6
<1>8. Owed(c) = Owed(d) + 1
  BY <1>1, <1>2, <1>7, OneMore
<1>9. /\ d \in Children /\ d.at = c.at /\ d.readers = c.readers
      /\ Owed(c) = Owed(d) + 1
  BY <1>1, <1>2, <1>8
<1> QED
  BY <1>9 DEF d

LEMMA ChildReadsOnInv ==
  ASSUME IInv, NEW p \in Processes, ChildReadsOn(p)
  PROVE  IInv'
<1> DEFINE c == [child[p] EXCEPT !.stdin = Tail(@), !.lost = @ + 1]
<1>1. /\ child[p] \in Children /\ child[p].at \in {"booting", "loop"}
      /\ child[p].stdin # << >> /\ UNCHANGED parentVars
      /\ \/ child' = [child EXCEPT ![p] = Exits(child[p], Failed)]
         \/ child' = [child EXCEPT ![p] = c]
         \/ \E over \in {"nothing", "rest"} : Completes(p, [c EXCEPT !.held = over])
  BY DEF IInv, TypeOK, ChildReadsOn
<1>2. /\ c \in Children /\ c.at = child[p].at /\ c.readers = child[p].readers
      /\ c.held = child[p].held /\ Owed(c) = Owed(child[p])
  BY <1>1, Loses
<1>3. child[p].readers \in Nat /\ Owed(child[p]) \in Int
  BY <1>1, OwedIs
<1> HIDE DEF c
<1>4. CASE child' = [child EXCEPT ![p] = Exits(child[p], Failed)]
  BY <1>1, <1>4, ChildExitsInv DEF Running, Statuses
<1>5. CASE child' = [child EXCEPT ![p] = c]
  <2>1. c.readers <= child[p].readers
    BY <1>2, <1>3, SMT
  <2> QED
    BY <1>1, <1>2, <1>5, <2>1, ChildChange DEF Spent
<1>6. ASSUME NEW over \in {"nothing", "rest"}, Completes(p, [c EXCEPT !.held = over])
      PROVE  IInv'
  <2>1. PICK d \in Children : d = [c EXCEPT !.held = over]
    BY <1>2, With
  <2>2. Completes(p, d)
    BY <1>6, <2>1
  <2>3. c.held = "part"
    BY <1>2, <2>2 DEF Completes
  <2>4. d.at = child[p].at /\ d.readers = child[p].readers /\ Owed(child[p]) = Owed(d) + 1
    BY <1>2, <2>1, <2>3, CompletesInv
  <2>5. CASE child[p].at = "booting" /\ Boots(p, d)
    BY <1>1, <2>4, <2>5, BootsInv
  <2>6. CASE child[p].at = "loop" /\ child' = [child EXCEPT ![p] = [d EXCEPT !.at = "serving"]]
    <3>1. PICK e \in Children : e = [d EXCEPT !.at = "serving"]
      BY With DEF ChildStates
    <3>2. e.at = "serving" /\ e.readers = child[p].readers /\ Owed(e) = Owed(d) + 1
      BY <2>4, <2>6, <3>1, Moves DEF ChildStates
    <3>3. Owed(e) = Owed(child[p])
      BY <2>4, <3>2
    <3>4. e.readers <= child[p].readers
      BY <1>3, <3>2, SMT
    <3>5. child' = [child EXCEPT ![p] = e]
      BY <2>6, <3>1
    <3> QED
      BY <1>1, <2>6, <3>2, <3>3, <3>4, <3>5, ChildChange DEF Spent
  <2> QED
    BY <2>2, <2>5, <2>6 DEF Completes
<1> QED
  BY <1>1, <1>4, <1>5, <1>6

LEMMA ChildServesInv ==
  ASSUME IInv, NEW p \in Processes, ChildServes(p)
  PROVE  IInv'
<1> DEFINE next == [child[p] EXCEPT !.at = "loop"]
           stuck == [child[p] EXCEPT !.at = "stuck"]
<1>1. child[p] \in Children /\ child[p].at = "serving"
  BY DEF IInv, TypeOK, ChildServes
<1>2. UNCHANGED parentVars
  BY DEF ChildServes
<1>3. child[p].id \in Ids
  BY <1>1, Fields
<1>4. /\ next \in Children /\ next.at = "loop" /\ next.readers = child[p].readers
      /\ Owed(child[p]) = Owed(next) + 1
  BY <1>1, Moves DEF ChildStates
<1>5. /\ stuck \in Children /\ stuck.at = "stuck" /\ stuck.readers = child[p].readers
  BY <1>1, Moves DEF ChildStates
<1>6. /\ Leaves(child[p], Failed) \in Children /\ Leaves(child[p], Failed).at = "leaving"
      /\ Leaves(child[p], Failed).readers = child[p].readers
  BY <1>1, Ending DEF Statuses
<1>7. \/ \E kind \in {"response", "error"} : ChildWrites(p, kind, child[p].id, next)
      \/ ChildWrites(p, "oversized", child[p].id, stuck)
      \/ ChildWrites(p, "worker_error", child[p].id, Leaves(child[p], Failed))
  BY DEF ChildServes
<1> HIDE DEF next, stuck
<1>8. ASSUME NEW kind \in {"response", "error"}, ChildWrites(p, kind, child[p].id, next)
      PROVE  IInv'
  <2>1. kind \in FromChild
    BY DEF FromChild
  <2> QED
    BY <1>1, <1>2, <1>3, <1>4, <1>8, <2>1, ChildWritesInv DEF Spent
<1>9. CASE ChildWrites(p, "oversized", child[p].id, stuck)
  <2>1. "oversized" \in FromChild
    BY DEF FromChild
  <2> QED
    BY <1>1, <1>2, <1>3, <1>5, <1>9, <2>1, ChildWritesInv DEF Spent
<1>10. CASE ChildWrites(p, "worker_error", child[p].id, Leaves(child[p], Failed))
  <2>1. "worker_error" \in FromChild
    BY DEF FromChild
  <2> QED
    BY <1>1, <1>2, <1>3, <1>6, <1>10, <2>1, ChildWritesInv DEF Spent
<1> QED
  BY <1>7, <1>8, <1>9, <1>10

LEMMA ChildClosesInv ==
  ASSUME IInv, NEW p \in Processes, ChildCloses(p)
  PROVE  IInv'
<1>1. child[p] \in Children /\ child[p].at = "closing"
  BY DEF IInv, TypeOK, ChildCloses
<1>2. UNCHANGED parentVars
  BY DEF ChildCloses
<1>3. ASSUME NEW status \in Statuses
      PROVE  /\ Leaves(child[p], status) \in Children
             /\ Leaves(child[p], status).at = "leaving"
             /\ Leaves(child[p], status).readers = child[p].readers
  BY <1>1, Ending
<1>4. NoId \in Ids /\ "closed" \in FromChild /\ "error" \in FromChild
  BY BoundsAssumption, SMT DEF NoId, Ids, FromChild
<1>5. 0 \in Statuses /\ Failed \in Statuses
  BY DEF Statuses
<1>6. CASE ChildWrites(p, "closed", NoId, Leaves(child[p], 0))
  BY <1>1, <1>2, <1>3, <1>4, <1>5, <1>6, ChildWritesInv DEF Spent
<1>7. CASE ChildWrites(p, "error", NoId, Leaves(child[p], Failed))
  BY <1>1, <1>2, <1>3, <1>4, <1>5, <1>7, ChildWritesInv DEF Spent
<1> QED
  BY <1>6, <1>7 DEF ChildCloses

LEMMA LeftReaderReadsInv ==
  ASSUME IInv, NEW p \in Processes, LeftReaderReads(p)
  PROVE  IInv'
<1> DEFINE r == Receive(child[p])
           d == [r EXCEPT !.readers = @ - 1]
<1>0. /\ child[p].stdout # << >> /\ child[p].readers > 0
      /\ UNCHANGED parentVars
      /\ child' = [child EXCEPT ![p] = [Receive(child[p]) EXCEPT !.readers = @ - 1]]
  BY DEF LeftReaderReads
<1>1. /\ child[p] \in Children /\ child[p].stdout # << >> /\ child[p].readers > 0
      /\ UNCHANGED parentVars /\ child' = [child EXCEPT ![p] = d]
  BY <1>0 DEF IInv, TypeOK
<1>2. child[p].at # "unborn"
  BY <1>1, SMT DEF IInv, UnbornInv
<1>3. /\ r \in Children /\ r.at = child[p].at /\ r.readers = child[p].readers
      /\ Owed(child[p]) = Owed(r) + 1
  BY <1>1, TakenOut
<1> HIDE DEF r
<1>4. r.readers \in Counts /\ r.readers > 0
  BY <1>1, <1>3, Fields
<1>5. r.readers - 1 \in Counts /\ r.readers \in Nat
  BY <1>4, BoundsAssumption, SMT DEF Counts
<1>6. d \in Children
  BY <1>3, <1>5, With
<1>7. d.at = r.at /\ d.readers = r.readers - 1 /\ Owed(d) = Owed(r)
  <2>1. /\ d.at = r.at /\ d.readers = r.readers - 1 /\ SameParts(d, r)
        /\ d.stdin = r.stdin /\ d.stdout = r.stdout
    BY <1>3, SMT DEF Children, SameParts
  <2> QED
    BY <2>1 DEF Owed, Busy, Handled, Adrift, SameParts
<1>8. /\ d.readers <= child[p].readers
      /\ Owed(d) + child[p].readers = Owed(child[p]) + d.readers
  <2>1. Owed(d) \in Int
    BY <1>6, OwedIs
  <2> HIDE DEF d
  <2> QED
    BY <1>3, <1>5, <1>7, <2>1, SMT
<1> HIDE DEF d
<1> QED
  BY <1>1, <1>2, <1>3, <1>6, <1>7, <1>8, ChildChange DEF Spent

-----------------------------------------------------------------------------
(* The steps of the parent *)

\* The parent touches the pipes of the child it has.
LEMMA SameChild ==
  ASSUME IInv, pc # "gone", process \in Processes,
         NEW c \in Children, child' = [child EXCEPT ![process] = c],
         c.at = child[process].at,
         interrupts' \in Counts, interrupts <= interrupts', c.readers <= interrupts'
  PROVE  /\ child' \in [Processes -> Children] /\ child'[process] = c
         /\ \A q \in Processes : child'[q].at = child[q].at
         /\ child[process].at # "unborn"
         /\ UnbornInv' /\ ReadersInv'
         /\ \A q \in Processes : Running(q)' => q \in {process, ending}
<1>1. /\ child' \in [Processes -> Children] /\ child'[process] = c
      /\ \A q \in Processes : q # process => child'[q] = child[q]
  BY Updates DEF IInv, TypeOK
<1>2. \A q \in Processes : child'[q].at = child[q].at
  BY <1>1
<1>3. child[process].at # "unborn"
  BY ProcessesAssumption DEF IInv, ControlInv
<1>4. UnbornInv'
  BY <1>1, <1>2, <1>3 DEF IInv, UnbornInv
<1>5. ReadersInv'
  <2>1. \A q \in Processes : child[q].readers \in Nat
    BY OwedIs DEF IInv, TypeOK
  <2>2. interrupts \in Nat /\ interrupts' \in Nat
    BY BoundsAssumption, SMT DEF IInv, TypeOK, Counts
  <2>3. \A q \in Processes : child[q].readers <= interrupts
    BY DEF IInv, ReadersInv
  <2>4. \A q \in Processes : child'[q].readers <= interrupts'
    <3> SUFFICES ASSUME NEW q \in Processes PROVE child'[q].readers <= interrupts'
      OBVIOUS
    <3>1. CASE q = process
      BY <1>1, <3>1
    <3>2. CASE q # process
      <4>1. child'[q].readers = child[q].readers
        BY <1>1, <3>2
      <4>2. child[q].readers \in Nat /\ child[q].readers <= interrupts
        BY <2>1, <2>3
      <4> QED
        BY <2>2, <4>1, <4>2, SMT
    <3> QED
      BY <3>1, <3>2
  <2> QED
    BY <2>4 DEF ReadersInv
<1>6. \A q \in Processes : Running(q)' => q \in {process, ending}
  BY <1>2 DEF IInv, OneWorker, Running
<1> QED
  BY <1>1, <1>2, <1>3, <1>4, <1>5, <1>6

\* What the reader of a child can count on.
LEMMA CurrentChild ==
  ASSUME IInv, process \in Processes
  PROVE  /\ child[process] \in Children
         /\ child[process].readers \in Nat /\ Owed(child[process]) \in Int
         /\ child[process].readers <= interrupts
         /\ interrupts \in Counts /\ interrupts \in Nat
         /\ pc # "gone" =>
              \/ child[process].at \in Spent
              \/ Owed(child[process]) = child[process].readers + Waiting
<1>1. child[process] \in Children
  BY DEF IInv, TypeOK
<1>2. interrupts \in Counts /\ interrupts \in Nat
  BY BoundsAssumption, SMT DEF IInv, TypeOK, Counts
<1>3. pc # "gone" =>
        \/ child[process].at \in Spent
        \/ Owed(child[process]) = child[process].readers + Waiting
  BY ProcessesAssumption DEF IInv, CountInv, Owed, Busy, Handled, Adrift, Spent
<1> QED
  BY <1>1, <1>2, <1>3, OwedIs DEF IInv, ReadersInv

LEMMA AbortsInv ==
  ASSUME IInv, pc # "gone", process \in Processes, ending \in {NoProcess, process},
         NEW kind \in Outcomes, NEW id \in Ids, NEW c \in Children,
         Aborts(kind, id, c),
         c.at = child[process].at, c.readers <= interrupts,
         kind \in {"response", "error"} => id = NoId,
         closed' \in BOOLEAN, UNCHANGED << nextId, interrupts >>
  PROVE  IInv'
<1> DEFINE d == [c EXCEPT !.terminated = (c.at # "exited")]
<1>1. /\ process' = NoProcess /\ ending' = process /\ pc' = "aborting"
      /\ outcome' = Frame(kind, id) /\ child' = [child EXCEPT ![process] = d]
  BY DEF Aborts
<1>2. d \in Children
  <2>1. (c.at # "exited") \in BOOLEAN
    OBVIOUS
  <2> QED
    BY <2>1, With
<1>3. d.at = child[process].at /\ d.readers = c.readers
  BY SMT DEF Children
<1> HIDE DEF d
<1>4. interrupts' = interrupts /\ interrupts \in Counts /\ interrupts \in Nat
  BY CurrentChild
<1>5. interrupts' \in Counts /\ interrupts <= interrupts' /\ d.readers <= interrupts'
  BY <1>3, <1>4, SMT
<1>6. /\ child' \in [Processes -> Children] /\ child'[process] = d
      /\ \A q \in Processes : child'[q].at = child[q].at
      /\ child[process].at # "unborn"
      /\ UnbornInv' /\ ReadersInv'
      /\ \A q \in Processes : Running(q)' => q \in {process, ending}
  BY <1>1, <1>2, <1>3, <1>5, SameChild
<1>7. TypeOK'
  <2>1. Frame(kind, id) \in [kind : Outcomes, id : Ids]
    BY DEF Frame
  <2> QED
    BY <1>1, <1>4, <1>6, <2>1 DEF IInv, TypeOK, ParentStates
<1>8. ControlInv'
  BY <1>1, <1>6, ProcessesAssumption DEF ControlInv, Talks
<1>9. IdInv' /\ CloseInv' /\ CountInv'
  BY <1>1 DEF IdInv, CloseInv, CountInv
<1>10. OneWorker'
  <2>1. \A q \in Processes : q # NoProcess
    BY ProcessesAssumption
  <2> QED
    BY <1>1, <1>6, <2>1 DEF OneWorker
<1>11. AnswerInv'
  <2>1. outcome'.kind = kind /\ outcome'.id = id
    BY <1>1 DEF Frame
  <2> QED
    BY <2>1 DEF AnswerInv
<1> QED
  BY <1>6, <1>7, <1>8, <1>9, <1>10, <1>11 DEF IInv

LEMMA Words ==
  /\ NoId \in Ids
  /\ {"worker", "error", "response", "none", "closed", "invalid", "interrupted", "ok"}
       \subseteq Outcomes
  BY BoundsAssumption, SMT DEF NoId, Ids, Outcomes

\* Any failure of the dialog that leaves the pipes as they are.
LEMMA AbortsUnread ==
  ASSUME IInv, pc # "gone", process \in Processes, ending \in {NoProcess, process},
         Aborts("worker", NoId, child[process]),
         closed' \in BOOLEAN, UNCHANGED << nextId, interrupts >>
  PROVE  IInv'
<1>1. child[process] \in Children /\ child[process].readers <= interrupts
  BY CurrentChild
<1> QED
  BY <1>1, Words, AbortsInv

\* One that takes a frame off.
LEMMA AbortsRead ==
  ASSUME IInv, pc \in Waits, child[process].stdout # << >>,
         NEW kind \in {"worker", "error"},
         Aborts(kind, NoId, Receive(child[process])),
         UNCHANGED << closed, nextId, interrupts >>
  PROVE  IInv'
<1>1. pc # "gone" /\ process \in Processes /\ ending \in {NoProcess, process}
  BY DEF Waits, IInv, ControlInv, Talks
<1>2. /\ child[process] \in Children /\ child[process].readers <= interrupts
      /\ closed' \in BOOLEAN
  BY <1>1, CurrentChild DEF IInv, TypeOK
<1>3. /\ Receive(child[process]) \in Children
      /\ Receive(child[process]).at = child[process].at
      /\ Receive(child[process]).readers = child[process].readers
  BY <1>2, TakenOut
<1>4. kind \in Outcomes
  BY Words
<1> QED
  BY <1>1, <1>2, <1>3, <1>4, Words, AbortsInv

LEMMA AbortEndsInv ==
  ASSUME IInv, AbortEnds
  PROVE  IInv'
<1> DEFINE d == ClosePipes(child[ending])
<1>1. /\ pc = "aborting" /\ child[ending].at = "exited"
      /\ child' = [child EXCEPT ![ending] = d]
      /\ ending' = NoProcess /\ pc' = "idle"
      /\ UNCHANGED << process, closed, nextId, outcome, interrupts >>
  BY DEF AbortEnds, Exited
<1>2. process = NoProcess /\ ending \in Processes
  BY <1>1 DEF IInv, ControlInv
<1>3. child[ending] \in Children
  BY <1>2 DEF IInv, TypeOK
<1>4. d \in Children
  <2>1. d = [[child[ending] EXCEPT !.stdinOpen = FALSE] EXCEPT !.stdoutOpen = FALSE]
    BY SMT DEF ClosePipes
  <2>2. [child[ending] EXCEPT !.stdinOpen = FALSE] \in Children
    BY <1>3, With
  <2>3. \A c \in Children : [c EXCEPT !.stdoutOpen = FALSE] \in Children
    BY With
  <2> QED
    BY <2>1, <2>2, <2>3
<1>5. d.at = "exited" /\ d.readers = child[ending].readers
  BY <1>1, <1>3, SMT DEF ClosePipes, Children
<1> HIDE DEF d
<1>6. /\ child' \in [Processes -> Children] /\ child'[ending] = d
      /\ \A q \in Processes : q # ending => child'[q] = child[q]
  BY <1>1, <1>2, <1>4, Updates DEF IInv, TypeOK
<1>7. \A q \in Processes : /\ child'[q].at = child[q].at
                           /\ child'[q].readers = child[q].readers
  BY <1>1, <1>5, <1>6
<1>8. TypeOK'
  BY <1>1, <1>6 DEF IInv, TypeOK, ParentStates
<1>9. ControlInv'
  BY <1>1, <1>2 DEF ControlInv, Talks
<1>10. UnbornInv'
  BY <1>5, <1>6 DEF IInv, UnbornInv
<1>11. ReadersInv'
  BY <1>1, <1>7 DEF IInv, ReadersInv
<1>12. OneWorker'
  <2>1. ASSUME NEW q \in Processes, Running(q)' PROVE FALSE
    <3>1. child[q].at \notin {"unborn", "exited"}
      BY <1>7, <2>1 DEF Running
    <3>2. q = ending
      BY <1>1, <1>2, <3>1, ProcessesAssumption DEF IInv, OneWorker, Running
    <3> QED
      BY <1>1, <3>1, <3>2
  <2> QED
    BY <2>1 DEF OneWorker
<1>13. IdInv' /\ CloseInv' /\ AnswerInv' /\ CountInv'
  BY <1>1, <1>2 DEF IInv, IdInv, CloseInv, AnswerInv, CountInv
<1> QED
  BY <1>8, <1>9, <1>10, <1>11, <1>12, <1>13 DEF IInv

\* write_frame(), with one more frame to answer or without a child.
LEMMA WritesInv ==
  ASSUME IInv, NEW kind \in ToChild, NEW id \in Ids, NEW at, NEW next,
         << at, next >> \in {<< "init", "startup" >>, << "write", "waiting" >>,
                             << "closeWrite", "closeWaiting" >>},
         Writes(at, kind, id, next), UNCHANGED nextId
  PROVE  IInv'
<1> DEFINE d == [child[process] EXCEPT !.stdin = Append(@, Frame(kind, id))]
<1>1. pc = at /\ at \in Talks /\ at \notin Waits \cup {"gone", "finishing"}
  BY DEF Writes, Talks, Waits
<1>2. process \in Processes /\ ending = NoProcess
  BY <1>1 DEF IInv, ControlInv, Talks
<1>3. closed' = closed /\ interrupts' = interrupts
  BY DEF Writes
<1>4. CASE Exited(process) /\ Aborts("worker", NoId, child[process])
  <2>1. closed' \in BOOLEAN
    BY <1>3 DEF IInv, TypeOK
  <2> QED
    BY <1>1, <1>2, <1>3, <1>4, <2>1, AbortsUnread
<1>5. CASE /\ child' = [child EXCEPT ![process].stdin = Append(@, Frame(kind, id))]
           /\ pc' = next
           /\ UNCHANGED << process, ending, outcome >>
  <2>1. /\ child[process] \in Children /\ child[process].readers \in Nat
        /\ child[process].readers <= interrupts
        /\ interrupts \in Counts /\ interrupts \in Nat
        /\ \/ child[process].at \in Spent
           \/ Owed(child[process]) = child[process].readers + Waiting
    BY <1>1, <1>2, CurrentChild
  <2>2. /\ d \in Children /\ d.at = child[process].at
        /\ d.readers = child[process].readers
        /\ Owed(d) = Owed(child[process]) + 1
    <3>1. PICK c \in Children : c = child[process]
      BY <2>1
    <3> QED
      BY <3>1, Written
  <2>3. child' = [child EXCEPT ![process] = d]
    BY <1>5
  <2> HIDE DEF d
  <2>4. interrupts' \in Counts /\ interrupts <= interrupts' /\ d.readers <= interrupts'
    BY <1>3, <2>1, <2>2, SMT
  <2>5. /\ child' \in [Processes -> Children] /\ child'[process] = d
        /\ \A q \in Processes : child'[q].at = child[q].at
        /\ child[process].at # "unborn"
        /\ UnbornInv' /\ ReadersInv'
        /\ \A q \in Processes : Running(q)' => q \in {process, ending}
    BY <1>1, <1>2, <2>2, <2>3, <2>4, SameChild
  <2>6. /\ process' = process /\ ending' = ending /\ outcome' = outcome
        /\ nextId' = nextId /\ pc' = next
        /\ next \in {"startup", "waiting", "closeWaiting"}
        /\ next = "startup" => pc = "init"
        /\ next \in {"startup", "waiting"} => pc \in {"init", "write"}
    BY <1>1, <1>5
  <2>7. TypeOK'
    BY <1>2, <1>3, <2>5, <2>6 DEF IInv, TypeOK, ParentStates, Waits
  <2>8. ControlInv'
    BY <1>2, <2>5, <2>6 DEF ControlInv, Talks
  <2>9. IdInv'
    BY <2>6 DEF IInv, IdInv
  <2>10. OneWorker'
    BY <2>5, <2>6 DEF OneWorker
  <2>11. CloseInv'
    BY <1>3, <2>6 DEF IInv, CloseInv
  <2>12. AnswerInv'
    BY <2>6 DEF AnswerInv
  <2>13. CountInv'
    <3>1. Waiting = 0 /\ Waiting' = 1
      BY <1>1, <2>6 DEF Waiting, Waits
    <3>2. \/ child[process].at \in Spent
          \/ Owed(child[process]) = child[process].readers + 0
      BY <2>1, <3>1
    <3>3. d.at \in Spent \/ Owed(d) = d.readers + 1
      BY <2>1, <2>2, <3>2, SMT
    <3>4. child'[process'] = d
      BY <2>5, <2>6
    <3> QED
      BY <3>1, <3>3, <3>4 DEF CountInv, Owed, Busy, Handled, Adrift, Spent
  <2> QED
    BY <2>5, <2>7, <2>8, <2>9, <2>10, <2>11, <2>12, <2>13 DEF IInv
<1> QED
  BY <1>4, <1>5 DEF Writes

LEMMA EncodingFailsInv ==
  ASSUME IInv, EncodingFails
  PROVE  IInv'
<1>1. /\ pc \in {"init", "write"} /\ Aborts("worker", NoId, child[process])
      /\ UNCHANGED << closed, nextId, interrupts >>
  BY DEF EncodingFails
<1>2. process \in Processes /\ ending = NoProcess /\ closed' \in BOOLEAN
  BY <1>1 DEF IInv, ControlInv, Talks, TypeOK
<1> QED
  BY <1>1, <1>2, AbortsUnread

LEMMA ReadFailsInv ==
  ASSUME IInv, ReadFails
  PROVE  IInv'
<1>1. pc \in Waits /\ UNCHANGED << closed, nextId, interrupts >>
  BY DEF ReadFails
<1>2. process \in Processes /\ ending = NoProcess /\ closed' \in BOOLEAN
  BY <1>1 DEF IInv, ControlInv, Talks, TypeOK, Waits
<1>3. CASE Aborts("worker", NoId, child[process])
  BY <1>1, <1>2, <1>3, AbortsUnread DEF Waits
<1>4. CASE /\ child[process].stdout # << >> /\ child[process].readers > 0
           /\ Aborts("worker", NoId,
                     [Receive(child[process]) EXCEPT !.readers = @ - 1])
  <2> DEFINE r == Receive(child[process])
             d == [r EXCEPT !.readers = r.readers - 1]
  <2>1. /\ child[process] \in Children /\ child[process].readers <= interrupts
        /\ interrupts \in Nat
    BY <1>2, CurrentChild
  <2>2. r \in Children /\ r.at = child[process].at /\ r.readers = child[process].readers
    BY <1>4, <2>1, TakenOut
  <2>3. Aborts("worker", NoId, d)
    BY <1>4
  <2> HIDE DEF r
  <2>4. r.readers - 1 \in Counts /\ r.readers \in Nat
    <3>1. r.readers \in Counts /\ r.readers > 0
      BY <1>4, <2>2, Fields
    <3> QED
      BY <3>1, BoundsAssumption, SMT DEF Counts
  <2>5. d \in Children
    BY <2>2, <2>4, With
  <2>6. d.at = child[process].at /\ d.readers = r.readers - 1
    BY <2>2, SMT DEF Children
  <2> HIDE DEF d
  <2>7. d.readers <= interrupts
    BY <2>1, <2>2, <2>4, <2>6, SMT
  <2> QED
    BY <1>1, <1>2, <2>3, <2>5, <2>6, <2>7, Words, AbortsInv DEF Waits
<1> QED
  BY <1>3, <1>4 DEF ReadFails

\* The call gives way to an exception and leaves c behind.
LEMMA GivesWay ==
  ASSUME IInv, process \in Processes, ending = NoProcess, pc # "gone",
         interrupts < MaxInterrupts, interrupts' = interrupts + 1,
         pc' = "idle", outcome' = Frame("interrupted", NoId),
         UNCHANGED << process, closed, nextId, ending >>,
         NEW c \in Children, child' = [child EXCEPT ![process] = c],
         c.at = child[process].at, c.readers <= interrupts + 1,
         c.at \in Spent \/ Owed(c) = c.readers
  PROVE  IInv'
<1>1. interrupts \in Counts /\ interrupts \in Nat
  BY CurrentChild
<1>2. /\ interrupts' \in Counts /\ interrupts <= interrupts' /\ interrupts' # 0
      /\ c.readers <= interrupts'
  BY <1>1, BoundsAssumption, SMT DEF Counts
<1>3. /\ child' \in [Processes -> Children] /\ child'[process] = c
      /\ \A q \in Processes : child'[q].at = child[q].at
      /\ child[process].at # "unborn"
      /\ UnbornInv' /\ ReadersInv'
      /\ \A q \in Processes : Running(q)' => q \in {process, ending}
  BY <1>2, SameChild
<1>4. TypeOK'
  <2>1. Frame("interrupted", NoId) \in [kind : Outcomes, id : Ids]
    BY Words DEF Frame
  <2> QED
    BY <1>2, <1>3, <2>1 DEF IInv, TypeOK, ParentStates
<1>5. ControlInv'
  BY <1>3 DEF ControlInv, Talks
<1>6. IdInv' /\ CloseInv'
  BY <1>2 DEF IdInv, CloseInv
<1>7. AnswerInv'
  BY DEF AnswerInv, Frame
<1>8. OneWorker'
  BY <1>3 DEF OneWorker
<1>9. CountInv'
  <2>1. Waiting' = 0
    BY DEF Waiting, Waits
  <2>2. c.readers \in Nat
    BY OwedIs
  <2>3. c.readers + 0 = c.readers
    BY <2>2, SMT
  <2>4. c.at \in Spent \/ Owed(c) = c.readers + 0
    BY <2>3
  <2>5. child'[process'] = c
    BY <1>3
  <2> QED
    BY <2>1, <2>4, <2>5 DEF CountInv, Owed, Busy, Handled, Adrift, Spent
<1> QED
  BY <1>3, <1>4, <1>5, <1>6, <1>7, <1>8, <1>9 DEF IInv

\* A frame that is written, or a part of it, and has no reader.
LEMMA WrittenUnread ==
  ASSUME NEW c \in Children, NEW kind \in ToChild, NEW id \in Ids
  PROVE  LET d == [c EXCEPT !.stdin = Append(@, Frame(kind, id)), !.unread = @ + 1]
         IN  /\ d \in Children /\ d.at = c.at /\ d.readers = c.readers
             /\ Owed(d) = Owed(c)
<1> DEFINE e == [c EXCEPT !.stdin = Append(c.stdin, Frame(kind, id))]
           d == [e EXCEPT !.unread = e.unread + 1]
<1>1. e \in Children /\ e.at = c.at /\ e.readers = c.readers /\ Owed(e) = Owed(c) + 1
  BY Written
<1>2. d = [c EXCEPT !.stdin = Append(@, Frame(kind, id)), !.unread = @ + 1]
  BY SMT DEF Children
<1> HIDE DEF e
<1>3. PICK l \in Nat : l = e.lost
  BY <1>1, Fields
<1>4. PICK u \in Nat : u = e.unread
  BY <1>1, Fields
<1>5. u + 1 \in Nat
  BY SMT
<1>6. d \in Children
  BY <1>1, <1>4, <1>5, With
<1>7. /\ d.at = e.at /\ d.readers = e.readers
      /\ d.stdin = e.stdin /\ d.stdout = e.stdout
      /\ d.held = e.held /\ d.lost = e.lost /\ d.unread = e.unread + 1
  BY <1>1, SMT DEF Children
<1> HIDE DEF d
<1>8. Owed(e) = Owed(d) + 1
  <2>1. PICK h \in Nat : h = IF e.held = "part" THEN 1 ELSE 0
    OBVIOUS
  <2>2. Adrift(e) = (h + l) - u /\ Adrift(d) = (h + l) - (u + 1)
    BY <1>3, <1>4, <1>7, <2>1 DEF Adrift
  <2>3. (h + l) - u = ((h + l) - (u + 1)) + 1
    BY SMT
  <2> QED
    BY <1>1, <1>6, <1>7, <2>2, <2>3, OneMore
<1>9. Owed(d) = Owed(c)
  <2>1. Owed(c) \in Int /\ Owed(d) \in Int
    BY <1>6, OwedIs
  <2> QED
    BY <1>1, <1>8, <2>1, SMT
<1>10. d \in Children /\ d.at = c.at /\ d.readers = c.readers /\ Owed(d) = Owed(c)
  BY <1>1, <1>6, <1>7, <1>9
<1> QED
  BY <1>2, <1>10

\* The reader of a call that waits stays, a frame that is written has none.
LEMMA InterruptedInv ==
  ASSUME IInv, Interrupted
  PROVE  IInv'
<1>1. /\ interrupts < MaxInterrupts /\ interrupts' = interrupts + 1
      /\ pc' = "idle" /\ outcome' = Frame("interrupted", NoId)
      /\ UNCHANGED << process, closed, nextId, ending >>
      /\ \/ pc \in Waits /\ child' = [child EXCEPT ![process].readers = @ + 1]
         \/ WriteInterrupted("init", "init", NoId)
         \/ WriteInterrupted("write", "request", nextId - 1)
         \/ WriteInterrupted("closeWrite", "close", NoId)
  BY DEF Interrupted, Returns
<1>2. pc \in Talks \ {"finishing"} /\ pc # "gone"
  BY <1>1 DEF WriteInterrupted, Waits, Talks
<1>3. process \in Processes /\ ending = NoProcess
  BY <1>2 DEF IInv, ControlInv, Talks
<1>4. /\ child[process] \in Children /\ child[process].readers \in Nat
      /\ Owed(child[process]) \in Int
      /\ child[process].readers <= interrupts
      /\ interrupts \in Counts /\ interrupts \in Nat
      /\ \/ child[process].at \in Spent
         \/ Owed(child[process]) = child[process].readers + Waiting
  BY <1>2, <1>3, CurrentChild
<1>5. CASE pc \in Waits /\ child' = [child EXCEPT ![process].readers = @ + 1]
  <2> DEFINE n == child[process].readers + 1
             d == [child[process] EXCEPT !.readers = n]
  <2>1. n <= interrupts + 1 /\ n \in Counts
    BY <1>1, <1>4, BoundsAssumption, SMT DEF Counts
  <2>2. d \in Children
    BY <1>4, <2>1, With
  <2>3. d.at = child[process].at /\ d.readers = n /\ Owed(d) = Owed(child[process])
    <3>1. /\ d.at = child[process].at /\ d.readers = n
          /\ d.stdin = child[process].stdin /\ d.stdout = child[process].stdout
          /\ SameParts(d, child[process])
      BY <1>4, SMT DEF Children, SameParts
    <3> QED
      BY <3>1 DEF Owed, Busy, Handled, Adrift, SameParts
  <2>4. child' = [child EXCEPT ![process] = d]
    BY <1>5
  <2>5. Waiting = 1
    BY <1>5 DEF Waiting
  <2>6. d.at \in Spent \/ Owed(d) = d.readers
    BY <1>4, <2>3, <2>5
  <2>7. d.readers <= interrupts + 1
    BY <2>1, <2>3
  <2> HIDE DEF d
  <2> QED
    BY <1>1, <1>2, <1>3, <2>2, <2>3, <2>4, <2>6, <2>7, GivesWay
<1>6. ASSUME NEW at \in {"init", "write", "closeWrite"}, NEW kind \in ToChild,
             NEW id \in Ids, WriteInterrupted(at, kind, id)
      PROVE  IInv'
  <2>1. Waiting = 0
    BY <1>6 DEF WriteInterrupted, Waiting, Waits
  <2>2. child[process].at \in Spent \/ Owed(child[process]) = child[process].readers
    BY <1>4, <2>1, SMT
  <2>3. child[process].readers <= interrupts + 1
    BY <1>4, SMT
  <2>4. CASE UNCHANGED child
    <3>1. child' = [child EXCEPT ![process] = child[process]]
      BY <2>4, Zenon DEF IInv, TypeOK
    <3> QED
      BY <1>1, <1>2, <1>3, <1>4, <2>2, <2>3, <3>1, GivesWay
  <2>5. ASSUME NEW written \in {kind, "part"},
               child' = [child EXCEPT ![process] =
                           [child[process] EXCEPT
                              !.stdin = Append(@, Frame(written, id)),
                              !.unread = @ + 1]]
        PROVE  IInv'
    <3>1. PICK c \in Children : c = child[process]
      BY <1>4
    <3> DEFINE d == [c EXCEPT !.stdin = Append(@, Frame(written, id)), !.unread = @ + 1]
    <3>2. written \in ToChild
      BY DEF ToChild
    <3>3. d \in Children /\ d.at = c.at /\ d.readers = c.readers /\ Owed(d) = Owed(c)
      BY <3>2, WrittenUnread
    <3>4. child' = [child EXCEPT ![process] = d]
      BY <2>5, <3>1
    <3> HIDE DEF d
    <3> QED
      BY <1>1, <1>2, <1>3, <2>2, <2>3, <3>1, <3>3, <3>4, GivesWay
  <2> QED
    BY <1>6, <2>4, <2>5 DEF WriteInterrupted
<1>7. CASE WriteInterrupted("init", "init", NoId)
  BY <1>6, <1>7, Words DEF ToChild
<1>8. CASE WriteInterrupted("closeWrite", "close", NoId)
  BY <1>6, <1>8, Words DEF ToChild
<1>9. CASE WriteInterrupted("write", "request", nextId - 1)
  <2>1. "request" \in ToChild /\ nextId - 1 \in Ids
    BY BoundsAssumption, SMT DEF ToChild, IInv, TypeOK, Ids
  <2> QED
    BY <1>6, <1>9, <2>1
<1> QED
  BY <1>1, <1>5, <1>7, <1>8, <1>9

\* The call takes the frame that it has waited for.
LEMMA TakesInv ==
  ASSUME IInv, pc \in Waits, child[process].stdout # << >>,
         NEW c \in Children, child' = [child EXCEPT ![process] = c],
         c.at = child[process].at, c.readers = child[process].readers,
         Owed(c) = Owed(Receive(child[process])),
         UNCHANGED << process, closed, interrupts >>,
         ending' \in {NoProcess, process},
         pc' \in {"write", "idle", "finishing"}
  PROVE  /\ process \in Processes /\ ending = NoProcess
         /\ child' \in [Processes -> Children]
         /\ \A q \in Processes : child'[q].at = child[q].at
         /\ child[process].at # "unborn"
         /\ UnbornInv' /\ ReadersInv' /\ OneWorker' /\ CountInv'
         /\ Head(child[process].stdout) \in [kind : FromChild, id : Ids]
<1>1. process \in Processes /\ ending = NoProcess /\ pc # "gone"
  BY DEF IInv, ControlInv, Talks, Waits
<1>2. /\ child[process] \in Children /\ child[process].readers \in Nat
      /\ child[process].readers <= interrupts
      /\ interrupts \in Counts /\ interrupts \in Nat
      /\ \/ child[process].at \in Spent
         \/ Owed(child[process]) = child[process].readers + Waiting
  BY <1>1, CurrentChild
<1>3. /\ Owed(child[process]) = Owed(Receive(child[process])) + 1
      /\ Head(child[process].stdout) \in [kind : FromChild, id : Ids]
  BY <1>2, TakenOut
<1>4. interrupts' \in Counts /\ interrupts <= interrupts' /\ c.readers <= interrupts'
  BY <1>2, SMT
<1>5. /\ child' \in [Processes -> Children] /\ child'[process] = c
      /\ \A q \in Processes : child'[q].at = child[q].at
      /\ child[process].at # "unborn"
      /\ UnbornInv' /\ ReadersInv'
      /\ \A q \in Processes : Running(q)' => q \in {process, ending}
  BY <1>1, <1>4, SameChild
<1>6. OneWorker'
  BY <1>1, <1>5, ProcessesAssumption DEF OneWorker
<1>7. CountInv'
  <2>1. Waiting = 1 /\ Waiting' = 0
    BY DEF Waiting, Waits
  <2>2. \/ child[process].at \in Spent
        \/ Owed(child[process]) = child[process].readers + 1
    BY <1>2, <2>1
  <2>3. Owed(c) \in Int /\ Owed(child[process]) = Owed(c) + 1
    BY <1>3, OwedIs
  <2>4. c.at \in Spent \/ Owed(c) = c.readers + 0
    BY <1>2, <2>2, <2>3, SMT
  <2> QED
    BY <1>5, <2>1, <2>4 DEF CountInv, Owed, Busy, Handled, Adrift, Spent
<1> QED
  BY <1>1, <1>3, <1>5, <1>6, <1>7

LEMMA FrontOf ==
  ASSUME IInv, pc \in Waits, child[process].stdout # << >>
  PROVE  /\ Receive(child[process]) \in Children
         /\ Receive(child[process]).at = child[process].at
         /\ Receive(child[process]).readers = child[process].readers
         /\ Head(child[process].stdout) \in [kind : FromChild, id : Ids]
<1>1. process \in Processes
  BY DEF IInv, ControlInv, Talks, Waits
<1>2. child[process] \in Children
  BY <1>1, CurrentChild
<1> QED
  BY <1>2, TakenOut

LEMMA StartupEndsInv ==
  ASSUME IInv, StartupEnds
  PROVE  IInv'
<1>1. pc = "startup" /\ child[process].stdout # << >>
  BY DEF StartupEnds, Reads
<1>2. CASE /\ Aborts("error", NoId, Receive(child[process]))
           /\ UNCHANGED << closed, nextId, interrupts >>
  BY <1>1, <1>2, AbortsRead DEF Waits
<1>3. CASE /\ pc' = "write" /\ nextId' = nextId + 1
           /\ child' = [child EXCEPT ![process] = Receive(@)]
           /\ UNCHANGED << process, ending, outcome, closed, interrupts >>
  <2>1. /\ Receive(child[process]) \in Children
        /\ Receive(child[process]).at = child[process].at
        /\ Receive(child[process]).readers = child[process].readers
    BY <1>1, FrontOf DEF Waits
  <2>2. ending' = NoProcess
    BY <1>1, <1>3 DEF IInv, ControlInv
  <2>3. /\ process \in Processes /\ ending = NoProcess
        /\ child' \in [Processes -> Children]
        /\ \A q \in Processes : child'[q].at = child[q].at
        /\ child[process].at # "unborn"
        /\ UnbornInv' /\ ReadersInv' /\ OneWorker' /\ CountInv'
    BY <1>1, <1>3, <2>1, <2>2, TakesInv DEF Waits
  <2>4. nextId' \in 1 .. MaxRequests + 1
    BY <1>1, <1>3, BoundsAssumption, SMT DEF IInv, TypeOK, IdInv
  <2>5. TypeOK'
    BY <1>3, <2>3, <2>4 DEF IInv, TypeOK, ParentStates
  <2>6. ControlInv'
    BY <1>3, <2>3 DEF ControlInv, Talks
  <2>7. IdInv' /\ AnswerInv'
    BY <1>3 DEF IdInv, AnswerInv
  <2>8. CloseInv'
    BY <1>1, <1>3 DEF IInv, CloseInv
  <2> QED
    BY <2>3, <2>5, <2>6, <2>7, <2>8 DEF IInv
<1> QED
  BY <1>2, <1>3 DEF StartupEnds

\* _decode_response()
LEMMA RequestEndsInv ==
  ASSUME IInv, RequestEnds
  PROVE  IInv'
<1> DEFINE frame == Head(child[process].stdout)
<1>1. pc = "waiting" /\ child[process].stdout # << >>
      /\ UNCHANGED << closed, nextId, interrupts >>
  BY DEF RequestEnds
<1>2. CASE Aborts("worker", NoId, Receive(child[process]))
  BY <1>1, <1>2, AbortsRead DEF Waits
<1>3. CASE /\ frame.id = nextId - 1 /\ frame.kind \in {"response", "error"}
           /\ pc' = "idle" /\ outcome' = Frame(frame.kind, frame.id)
           /\ child' = [child EXCEPT ![process] = Receive(@)]
           /\ UNCHANGED << process, ending >>
  <2>1. /\ Receive(child[process]) \in Children
        /\ Receive(child[process]).at = child[process].at
        /\ Receive(child[process]).readers = child[process].readers
        /\ frame \in [kind : FromChild, id : Ids]
    BY <1>1, FrontOf DEF Waits
  <2>2. ending' = NoProcess
    BY <1>1, <1>3 DEF IInv, ControlInv
  <2>3. /\ process \in Processes /\ ending = NoProcess
        /\ child' \in [Processes -> Children]
        /\ \A q \in Processes : child'[q].at = child[q].at
        /\ child[process].at # "unborn"
        /\ UnbornInv' /\ ReadersInv' /\ OneWorker' /\ CountInv'
    BY <1>1, <1>3, <2>1, <2>2, TakesInv DEF Waits
  <2>4. frame.id \in Ids
    BY <2>1
  <2> HIDE DEF frame
  <2>5. outcome' \in [kind : Outcomes, id : Ids]
    BY <1>3, <2>4, Words DEF Frame
  <2>6. TypeOK'
    BY <1>1, <1>3, <2>3, <2>5 DEF IInv, TypeOK, ParentStates
  <2>7. ControlInv'
    BY <1>3, <2>3 DEF ControlInv, Talks
  <2>8. IdInv'
    BY <1>3 DEF IdInv
  <2>9. AnswerInv'
    BY <1>1, <1>3 DEF AnswerInv, Frame
  <2>10. CloseInv'
    BY <1>1, <1>3 DEF IInv, CloseInv
  <2> QED
    BY <2>3, <2>6, <2>7, <2>8, <2>9, <2>10 DEF IInv
<1> QED
  BY <1>2, <1>3 DEF RequestEnds, Returns

LEMMA CloseAnsweredInv ==
  ASSUME IInv, CloseAnswered
  PROVE  IInv'
<1> DEFINE kind == Head(child[process].stdout).kind
           r == Receive(child[process])
           d == [r EXCEPT !.stdinOpen = FALSE]
<1>1. /\ pc = "closeWaiting" /\ child[process].stdout # << >>
      /\ UNCHANGED << closed, nextId, interrupts >>
  BY DEF CloseAnswered
<1>2. CASE Aborts(IF kind = "error" THEN "error" ELSE "worker", NoId, r)
  <2>1. CASE kind = "error"
    BY <1>1, <1>2, <2>1, AbortsRead DEF Waits
  <2>2. CASE kind # "error"
    BY <1>1, <1>2, <2>2, AbortsRead DEF Waits
  <2> QED
    BY <2>1, <2>2
<1>3. CASE /\ pc' = "finishing" /\ ending' = process
           /\ child' = [child EXCEPT ![process] = d]
           /\ UNCHANGED << process, outcome >>
  <2>1. /\ r \in Children /\ r.at = child[process].at
        /\ r.readers = child[process].readers
    BY <1>1, FrontOf DEF Waits
  <2> HIDE DEF r
  <2>2. d \in Children
    BY <2>1, With
  <2>3. d.at = r.at /\ d.readers = r.readers /\ Owed(d) = Owed(r)
    <3>1. /\ d.at = r.at /\ d.readers = r.readers /\ SameParts(d, r)
          /\ d.stdin = r.stdin /\ d.stdout = r.stdout
      BY <2>1, SMT DEF Children, SameParts
    <3> QED
      BY <3>1 DEF Owed, Busy, Handled, Adrift, SameParts
  <2>4. Owed(d) = Owed(Receive(child[process]))
    BY <2>3 DEF r
  <2> HIDE DEF d
  <2>5. /\ process \in Processes /\ ending = NoProcess
        /\ child' \in [Processes -> Children]
        /\ \A q \in Processes : child'[q].at = child[q].at
        /\ child[process].at # "unborn"
        /\ UnbornInv' /\ ReadersInv' /\ OneWorker' /\ CountInv'
    BY <1>1, <1>3, <2>1, <2>2, <2>3, <2>4, TakesInv DEF Waits
  <2>6. TypeOK'
    BY <1>1, <1>3, <2>5 DEF IInv, TypeOK, ParentStates
  <2>7. ControlInv'
    BY <1>3, <2>5, ProcessesAssumption DEF ControlInv, Talks
  <2>8. IdInv' /\ AnswerInv' /\ CloseInv'
    BY <1>3 DEF IdInv, AnswerInv, CloseInv
  <2> QED
    BY <2>5, <2>6, <2>7, <2>8 DEF IInv
<1> QED
  BY <1>2, <1>3 DEF CloseAnswered

\* A call begins without touching any child.
LEMMA BeginsInv ==
  ASSUME IInv, pc = "idle", pc' \in {"idle", "write", "closeWrite"},
         pc' # "idle" => process \in Processes,
         UNCHANGED << process, ending, child, interrupts >>,
         closed' \in BOOLEAN, nextId' \in 1 .. MaxRequests + 1,
         outcome'.kind \notin {"response", "error"},
         outcome' \in [kind : Outcomes, id : Ids],
         closed' => pc' = "closeWrite" \/ closed \/ process = NoProcess
  PROVE  IInv'
<1>1. TypeOK'
  BY DEF IInv, TypeOK, ParentStates
<1>2. ControlInv'
  BY DEF IInv, ControlInv, Talks
<1>3. UnbornInv' /\ ReadersInv' /\ IdInv' /\ AnswerInv'
  BY DEF IInv, UnbornInv, ReadersInv, IdInv, AnswerInv
<1>4. OneWorker'
  BY DEF IInv, OneWorker, Running
<1>5. CloseInv'
  BY ProcessesAssumption DEF IInv, CloseInv
<1>6. CountInv'
  <2>1. Waiting' = Waiting
    BY DEF Waiting, Waits
  <2> QED
    BY <2>1 DEF IInv, CountInv, Owed, Busy, Handled, Adrift
<1> QED
  BY <1>1, <1>2, <1>3, <1>4, <1>5, <1>6 DEF IInv

\* _start(): the child has empty pipes, and it is the only one.
LEMMA StartsInv ==
  ASSUME IInv, pc = "idle", process = NoProcess, ~closed, nextId <= MaxRequests,
         NEW p \in Processes, child[p].at = "unborn", process' = p,
         child' = [child EXCEPT ![p] =
                     [@ EXCEPT !.at = "booting",
                               !.stdinOpen = TRUE, !.stdoutOpen = TRUE]],
         pc' = "init", outcome' = Frame("none", NoId),
         UNCHANGED << nextId, closed, ending, interrupts >>
  PROVE  IInv'
<1> DEFINE d == [child[p] EXCEPT !.at = "booting", !.stdinOpen = TRUE,
                                 !.stdoutOpen = TRUE]
<1>1. child[p] \in Children /\ ending = NoProcess
  BY DEF IInv, TypeOK, ControlInv
<1>2. d \in Children
  <2>1. d = [[[child[p] EXCEPT !.at = "booting"] EXCEPT !.stdinOpen = TRUE]
               EXCEPT !.stdoutOpen = TRUE]
    BY SMT
  <2>2. [child[p] EXCEPT !.at = "booting"] \in Children
    BY <1>1, With DEF ChildStates
  <2>3. \A c \in Children : [c EXCEPT !.stdinOpen = TRUE] \in Children
    BY With
  <2>4. \A c \in Children : [c EXCEPT !.stdoutOpen = TRUE] \in Children
    BY With
  <2> QED
    BY <2>1, <2>2, <2>3, <2>4
<1>3. /\ d.at = "booting" /\ d.readers = child[p].readers
      /\ d.stdin = child[p].stdin /\ d.stdout = child[p].stdout
      /\ SameParts(d, child[p])
  BY <1>1, SMT DEF Children, SameParts
<1>4. child' = [child EXCEPT ![p] = d]
  OBVIOUS
<1> HIDE DEF d
<1>5. /\ child' \in [Processes -> Children] /\ child'[p] = d
      /\ \A q \in Processes : q # p => child'[q] = child[q]
  BY <1>2, <1>4, Updates DEF IInv, TypeOK
<1>6. /\ d.stdin = << >> /\ d.stdout = << >> /\ d.readers = 0
      /\ d.held = "nothing" /\ d.unread = 0 /\ d.lost = 0
  BY <1>3 DEF IInv, UnbornInv, SameParts
<1>7. TypeOK'
  <2>1. outcome' \in [kind : Outcomes, id : Ids]
    BY Words DEF Frame
  <2> QED
    BY <1>5, <2>1 DEF IInv, TypeOK, ParentStates
<1>8. ControlInv'
  BY <1>1, <1>3, <1>5 DEF ControlInv, Talks
<1>9. UnbornInv'
  BY <1>3, <1>5 DEF IInv, UnbornInv
<1>10. ReadersInv'
  BY <1>3, <1>5 DEF IInv, ReadersInv
<1>11. IdInv' /\ CloseInv' /\ AnswerInv'
  BY DEF IdInv, CloseInv, AnswerInv
<1>12. OneWorker'
  <2>1. ASSUME NEW q \in Processes, Running(q)', q # p PROVE FALSE
    BY <1>1, <1>5, <2>1, ProcessesAssumption DEF IInv, OneWorker, Running
  <2> QED
    BY <2>1 DEF OneWorker
<1>13. CountInv'
  <2>1. Waiting' = 0
    BY DEF Waiting, Waits
  <2>2. child'[process'] = d /\ Owed(d) = 0
    <3>1. Busy(d) = 0
      <4>1. Handled(d) = 0
        BY <1>3 DEF Handled
      <4>2. Adrift(d) = (0 + 0) - 0
        BY <1>6 DEF Adrift
      <4> QED
        BY <4>1, <4>2, SMT DEF Busy
    <3>2. Len(d.stdin) = 0 /\ Len(d.stdout) = 0
      BY <1>6, SMT
    <3>3. Owed(d) = 0
      BY <3>1, <3>2, SMT DEF Owed
    <3> QED
      BY <1>5, <3>3
  <2>3. Owed(child'[process']) = child'[process'].readers + Waiting'
    <3>1. 0 = 0 + 0
      BY SMT
    <3> QED
      BY <1>6, <2>1, <2>2, <3>1
  <2> QED
    BY <2>3 DEF CountInv, Owed, Busy, Handled, Adrift
<1> QED
  BY <1>5, <1>7, <1>8, <1>9, <1>10, <1>11, <1>12, <1>13 DEF IInv

LEMMA Closed ==
  ASSUME NEW c \in Children
  PROVE  /\ ClosePipes(c) \in Children
         /\ ClosePipes(c).at = c.at /\ ClosePipes(c).readers = c.readers
         /\ ClosePipes(c).stdin = c.stdin /\ ClosePipes(c).stdout = c.stdout
         /\ ClosePipes(c).held = c.held
<1>1. ClosePipes(c) = [[c EXCEPT !.stdinOpen = FALSE] EXCEPT !.stdoutOpen = FALSE]
  BY SMT DEF ClosePipes
<1>2. [c EXCEPT !.stdinOpen = FALSE] \in Children
  BY With
<1>3. \A d \in Children : [d EXCEPT !.stdoutOpen = FALSE] \in Children
  BY With
<1>4. ClosePipes(c) \in Children
  BY <1>1, <1>2, <1>3
<1> QED
  BY <1>4, SMT DEF ClosePipes, Children

\* The pipes of a child that has ended are closed at the end of a call.
LEMMA EndedInv ==
  ASSUME IInv, pc \in {"idle", "finishing"}, process \in Processes,
         child[process].at = "exited",
         child' = [child EXCEPT ![process] = ClosePipes(@)],
         process' \in {NoProcess, process}, ending' = NoProcess, pc' = "idle",
         outcome'.kind \notin {"response", "error"},
         outcome' \in [kind : Outcomes, id : Ids],
         ~closed \/ process' = NoProcess,
         UNCHANGED << nextId, closed, interrupts >>
  PROVE  IInv'
<1> DEFINE d == ClosePipes(child[process])
<1>1. /\ child[process] \in Children /\ interrupts \in Counts /\ interrupts \in Nat
      /\ child[process].readers <= interrupts
  BY CurrentChild
<1>2. d \in Children /\ d.at = child[process].at /\ d.readers = child[process].readers
  BY <1>1, Closed
<1>3. child' = [child EXCEPT ![process] = d]
  OBVIOUS
<1> HIDE DEF d
<1>4. interrupts' \in Counts /\ interrupts <= interrupts' /\ d.readers <= interrupts'
  BY <1>1, <1>2, SMT
<1>5. /\ child' \in [Processes -> Children] /\ child'[process] = d
      /\ \A q \in Processes : child'[q].at = child[q].at
      /\ UnbornInv' /\ ReadersInv'
      /\ \A q \in Processes : Running(q)' => q \in {process, ending}
  BY <1>2, <1>3, <1>4, SameChild
<1>6. TypeOK'
  BY <1>5 DEF IInv, TypeOK, ParentStates
<1>7. ControlInv'
  BY <1>2, <1>5 DEF ControlInv, Talks
<1>8. IdInv' /\ CloseInv' /\ AnswerInv'
  BY DEF IdInv, CloseInv, AnswerInv
<1>9. OneWorker'
  <2>1. ending \in {NoProcess, process}
    BY DEF IInv, ControlInv
  <2>2. ASSUME NEW q \in Processes, Running(q)' PROVE FALSE
    BY <1>5, <2>1, <2>2, ProcessesAssumption DEF Running
  <2> QED
    BY <2>2 DEF OneWorker
<1>10. CountInv'
  BY <1>2, <1>5 DEF CountInv, Spent
<1> QED
  BY <1>5, <1>6, <1>7, <1>8, <1>9, <1>10 DEF IInv

LEMMA RequestBeginsInv ==
  ASSUME IInv, RequestBegins
  PROVE  IInv'
<1>1. /\ pc = "idle" /\ nextId <= MaxRequests
      /\ UNCHANGED << closed, ending, interrupts >>
  BY DEF RequestBegins
<1>2. /\ closed' \in BOOLEAN /\ nextId \in 1 .. MaxRequests + 1
      /\ ending = NoProcess /\ (process # NoProcess => process \in Processes)
  BY <1>1 DEF IInv, TypeOK, ControlInv
<1>3. ASSUME NEW kind \in {"closed", "invalid", "worker"}, Returns(kind, NoId),
             closed => kind = "closed",
             ~closed => process = NoProcess,
             UNCHANGED << process, child, nextId >>
      PROVE  IInv'
  <2>1. pc' = "idle" /\ outcome' = Frame(kind, NoId)
    BY <1>3 DEF Returns
  <2>2. outcome' \in [kind : Outcomes, id : Ids] /\ outcome'.kind = kind
    BY <2>1, Words DEF Frame
  <2> QED
    BY <1>1, <1>2, <1>3, <2>1, <2>2, BeginsInv
<1>4. ASSUME ~closed, process = NoProcess, NEW p \in Processes,
             child[p].at = "unborn", process' = p,
             child' = [child EXCEPT ![p] =
                         [@ EXCEPT !.at = "booting",
                                   !.stdinOpen = TRUE, !.stdoutOpen = TRUE]],
             pc' = "init", outcome' = Frame("none", NoId), UNCHANGED nextId
      PROVE  IInv'
  BY <1>1, <1>4, StartsInv
<1>5. CASE /\ ~closed /\ process # NoProcess
           /\ pc' = "write" /\ nextId' = nextId + 1
           /\ outcome' = Frame("none", NoId)
           /\ UNCHANGED << process, child >>
  <2>1. outcome' \in [kind : Outcomes, id : Ids] /\ outcome'.kind = "none"
    BY <1>5, Words DEF Frame
  <2>2. nextId' \in 1 .. MaxRequests + 1
    BY <1>1, <1>2, <1>5, BoundsAssumption, SMT
  <2> QED
    BY <1>1, <1>2, <1>5, <2>1, <2>2, BeginsInv
<1>6. CASE FindsDead
  <2>1. /\ ~closed /\ process # NoProcess /\ child[process].at = "exited"
        /\ pc' = "idle" /\ outcome' = Frame("worker", NoId)
        /\ process' = IF child[process].status = 0 THEN NoProcess ELSE process
        /\ child' = [child EXCEPT ![process] = ClosePipes(@)]
        /\ UNCHANGED nextId
    BY <1>6 DEF FindsDead, Returns, Exited
  <2>2. outcome' \in [kind : Outcomes, id : Ids] /\ outcome'.kind = "worker"
    BY <2>1, Words DEF Frame
  <2>3. process' \in {NoProcess, process} /\ ending' = NoProcess
    BY <1>1, <1>2, <2>1
  <2> QED
    BY <1>1, <1>2, <2>1, <2>2, <2>3, EndedInv
<1> QED
  BY <1>3, <1>4, <1>5, <1>6 DEF RequestBegins

LEMMA CloseBeginsInv ==
  ASSUME IInv, CloseBegins
  PROVE  IInv'
<1>1. pc = "idle" /\ closed' = TRUE /\ UNCHANGED << nextId, interrupts >>
  BY DEF CloseBegins
<1>2. /\ nextId' \in 1 .. MaxRequests + 1
      /\ ending = NoProcess /\ (process # NoProcess => process \in Processes)
  BY <1>1 DEF IInv, TypeOK, ControlInv
<1>3. CASE /\ closed \/ process = NoProcess
           /\ Returns("ok", NoId)
           /\ UNCHANGED << process, ending, child >>
  <2>1. pc' = "idle" /\ outcome' = Frame("ok", NoId)
    BY <1>3 DEF Returns
  <2>2. outcome' \in [kind : Outcomes, id : Ids] /\ outcome'.kind = "ok"
    BY <2>1, Words DEF Frame
  <2> QED
    BY <1>1, <1>2, <1>3, <2>1, <2>2, BeginsInv
<1>4. CASE process # NoProcess /\ Aborts("worker", NoId, child[process])
  BY <1>1, <1>2, <1>4, AbortsUnread
<1>5. CASE /\ process # NoProcess /\ pc' = "closeWrite"
           /\ outcome' = Frame("none", NoId)
           /\ UNCHANGED << process, ending, child >>
  <2>1. outcome' \in [kind : Outcomes, id : Ids] /\ outcome'.kind = "none"
    BY <1>5, Words DEF Frame
  <2> QED
    BY <1>1, <1>2, <1>5, <2>1, BeginsInv
<1> QED
  BY <1>3, <1>4, <1>5 DEF CloseBegins

\* _finish_process()
LEMMA CloseFinishesInv ==
  ASSUME IInv, CloseFinishes
  PROVE  IInv'
<1>1. pc = "finishing" /\ UNCHANGED << closed, nextId, interrupts >>
  BY DEF CloseFinishes
<1>2. process \in Processes /\ ending = process /\ closed' \in BOOLEAN
  BY <1>1 DEF IInv, ControlInv, Talks, TypeOK
<1>3. child[process] \in Children /\ child[process].readers <= interrupts
  BY <1>1, <1>2, CurrentChild
<1>4. CASE /\ child[process].at = "exited"
           /\ process' = NoProcess /\ ending' = NoProcess
           /\ pc' = "idle" /\ outcome' = Frame("ok", NoId)
           /\ child' = [child EXCEPT ![process] = ClosePipes(@)]
  <2>1. outcome' \in [kind : Outcomes, id : Ids] /\ outcome'.kind = "ok"
    BY <1>4, Words DEF Frame
  <2> QED
    BY <1>1, <1>2, <1>4, <2>1, EndedInv
<1>5. CASE Aborts("worker", NoId, [child[process] EXCEPT !.stdoutOpen = FALSE])
  <2> DEFINE d == [child[process] EXCEPT !.stdoutOpen = FALSE]
  <2>1. d \in Children
    BY <1>3, With
  <2>2. d.at = child[process].at /\ d.readers = child[process].readers
    BY <1>3, SMT DEF Children
  <2>3. Aborts("worker", NoId, d)
    BY <1>5
  <2> HIDE DEF d
  <2> QED
    BY <1>1, <1>2, <1>3, <2>1, <2>2, <2>3, Words, AbortsInv
<1> QED
  BY <1>4, <1>5 DEF CloseFinishes, Returns, Exited

LEMMA ParentDiesInv ==
  ASSUME IInv, ParentDies
  PROVE  IInv'
<1> DEFINE d(p) == [ClosePipes(child[p]) EXCEPT !.readers = 0,
                                                !.unread = 0, !.lost = 0]
<1>1. /\ pc' = "gone" /\ child' = [p \in Processes |-> d(p)]
      /\ UNCHANGED << process, closed, nextId, ending, outcome, interrupts >>
  BY DEF ParentDies
<1>2. ASSUME NEW p \in Processes
      PROVE  /\ d(p) \in Children /\ d(p).at = child[p].at /\ d(p).readers = 0
             /\ d(p).stdin = child[p].stdin /\ d(p).stdout = child[p].stdout
             /\ d(p).held = child[p].held /\ d(p).unread = 0 /\ d(p).lost = 0
  <2>1. child[p] \in Children
    BY DEF IInv, TypeOK
  <2>2. PICK c \in Children : c = ClosePipes(child[p])
    BY <2>1, Closed
  <2>3. /\ c.at = child[p].at /\ c.held = child[p].held
        /\ c.stdin = child[p].stdin /\ c.stdout = child[p].stdout
    BY <2>1, <2>2, Closed
  <2>4. 0 \in Counts /\ 0 \in Nat
    BY BoundsAssumption, SMT DEF Counts
  <2>5. PICK e \in Children : e = [c EXCEPT !.readers = 0]
    BY <2>4, With
  <2>6. PICK g \in Children : g = [e EXCEPT !.unread = 0]
    BY <2>4, With
  <2>7. PICK h \in Children : h = [g EXCEPT !.lost = 0]
    BY <2>4, With
  <2>8. h = d(p)
    BY <2>2, <2>5, <2>6, <2>7, SMT
  <2>9. /\ h.at = c.at /\ h.readers = 0 /\ h.stdin = c.stdin /\ h.stdout = c.stdout
        /\ h.held = c.held /\ h.unread = 0 /\ h.lost = 0
    BY <2>5, <2>6, <2>7, SMT DEF Children
  <2> QED
    BY <2>3, <2>8, <2>9
<1> HIDE DEF d
<1>3. child' \in [Processes -> Children] /\ \A p \in Processes : child'[p] = d(p)
  BY <1>1, <1>2
<1>4. TypeOK'
  BY <1>1, <1>3 DEF IInv, TypeOK, ParentStates
<1>5. ControlInv'
  <2>1. /\ process # NoProcess => process \in Processes
        /\ ending # NoProcess => ending \in Processes
    BY DEF IInv, TypeOK
  <2> QED
    BY <1>1, <1>2, <1>3, <2>1 DEF IInv, ControlInv, Talks
<1>6. UnbornInv'
  BY <1>2, <1>3 DEF IInv, UnbornInv
<1>7. ReadersInv'
  <2>1. 0 <= interrupts
    BY BoundsAssumption, SMT DEF IInv, TypeOK, Counts
  <2> QED
    BY <1>1, <1>2, <1>3, <2>1 DEF ReadersInv
<1>8. IdInv' /\ OneWorker' /\ CloseInv' /\ AnswerInv' /\ CountInv'
  BY <1>1 DEF IdInv, OneWorker, CloseInv, AnswerInv, CountInv
<1> QED
  BY <1>4, <1>5, <1>6, <1>7, <1>8 DEF IInv

-----------------------------------------------------------------------------
(* The invariant *)

LEMMA InitInv == Init => IInv
<1> SUFFICES ASSUME Init PROVE IInv
  OBVIOUS
<1> DEFINE new(room) ==
      [at |-> "unborn", status |-> 0, id |-> NoId, room |-> room,
       stdin |-> << >>, stdinOpen |-> FALSE,
       stdout |-> << >>, stdoutOpen |-> FALSE,
       held |-> "nothing", readers |-> 0, unread |-> 0, lost |-> 0,
       terminated |-> FALSE]
<1>1. PICK room \in PipeRooms : child = [p \in Processes |-> new(room)]
  BY DEF Init
<1>2. /\ process = NoProcess /\ closed = FALSE /\ nextId = 1 /\ pc = "idle"
      /\ ending = NoProcess /\ outcome = Frame("none", NoId) /\ interrupts = 0
  BY DEF Init
<1>3. 0 \in Counts /\ 1 \in 1 .. MaxRequests + 1 /\ 0 \in Nat
  BY BoundsAssumption, SMT DEF Counts
<1>4. new(room) \in Children
  <2>1. << >> \in ToPipes /\ << >> \in FromPipes
    BY SMT DEF ToPipes, FromPipes
  <2>2. 0 \in Statuses /\ "unborn" \in ChildStates /\ NoId \in Ids
    BY Words DEF Statuses, ChildStates
  <2> QED
    BY <1>3, <2>1, <2>2, SMT DEF Children
<1>5. \A p \in Processes :
        /\ child[p].at = "unborn" /\ child[p].readers = 0
        /\ child[p].stdin = << >> /\ child[p].stdout = << >>
        /\ child[p].held = "nothing" /\ child[p].unread = 0 /\ child[p].lost = 0
  BY <1>1
<1>6. TypeOK
  <2>1. child \in [Processes -> Children]
    BY <1>1, <1>4
  <2>2. outcome \in [kind : Outcomes, id : Ids]
    BY <1>2, Words DEF Frame
  <2> QED
    BY <1>2, <1>3, <2>1, <2>2 DEF TypeOK, ParentStates
<1>7. ControlInv /\ UnbornInv /\ IdInv
  BY <1>2, <1>5 DEF ControlInv, UnbornInv, IdInv, Talks
<1>8. ReadersInv
  BY <1>2, <1>5, SMT DEF ReadersInv
<1>9. OneWorker
  BY <1>5 DEF OneWorker, Running
<1>10. CloseInv /\ AnswerInv /\ CountInv
  BY <1>2 DEF CloseInv, AnswerInv, CountInv, Frame
<1> QED
  BY <1>6, <1>7, <1>8, <1>9, <1>10 DEF IInv

\* The child ends by itself, or because it is made to.
LEMMA ChildEndsInv ==
  ASSUME IInv, NEW p \in Processes,
         \/ ChildInputEnds(p) \/ ChildUnstuck(p) \/ ChildDies(p) \/ ChildTerminated(p)
  PROVE  IInv'
<1>1. /\ Running(p) /\ UNCHANGED parentVars
      /\ child' = [child EXCEPT ![p] = Exits(@, Failed)]
  BY DEF ChildInputEnds, ChildUnstuck, ChildDies, ChildTerminated, Running
<1>2. Failed \in Statuses
  BY DEF Statuses
<1>3. child' = [child EXCEPT ![p] = Exits(child[p], Failed)]
  BY <1>1
<1> QED
  BY <1>1, <1>2, <1>3, ChildExitsInv

LEMMA ChildLeavesInv ==
  ASSUME IInv, NEW p \in Processes, ChildExits(p)
  PROVE  IInv'
<1> DEFINE d == [child[p] EXCEPT !.at = "exited"]
<1>1. child[p] \in Children /\ child[p].at = "leaving" /\ UNCHANGED parentVars
  BY DEF IInv, TypeOK, ChildExits
<1>2. child' = [child EXCEPT ![p] = d]
  BY DEF ChildExits
<1>3. d \in Children /\ d.at = "exited" /\ d.readers = child[p].readers
  <2>1. "exited" \in ChildStates
    BY DEF ChildStates
  <2>2. d \in Children
    BY <1>1, <2>1, With
  <2> QED
    BY <1>1, <2>2, SMT DEF Children
<1>4. d.readers <= child[p].readers
  BY <1>1, <1>3, OwedIs
<1> HIDE DEF d
<1> QED
  BY <1>1, <1>2, <1>3, <1>4, ChildChange DEF Spent

LEMMA StepInv == IInv /\ [Next]_vars => IInv'
<1> SUFFICES ASSUME IInv, [Next]_vars PROVE IInv'
  OBVIOUS
<1>1. CASE CallBegins
  BY <1>1, RequestBeginsInv, CloseBeginsInv DEF CallBegins
<1>2. CASE CallSteps
  <2>1. CASE InitWrites
    <3>1. "init" \in ToChild
      BY DEF ToChild
    <3> QED
      BY <2>1, <3>1, Words, WritesInv DEF InitWrites
  <2>2. CASE RequestWrites
    <3>1. "request" \in ToChild /\ nextId - 1 \in Ids
      BY BoundsAssumption, SMT DEF ToChild, IInv, TypeOK, Ids
    <3> QED
      BY <2>2, <3>1, WritesInv DEF RequestWrites
  <2>3. CASE CloseWrites
    <3>1. "close" \in ToChild
      BY DEF ToChild
    <3> QED
      BY <2>3, <3>1, Words, WritesInv DEF CloseWrites
  <2> QED
    BY <1>2, <2>1, <2>2, <2>3, StartupEndsInv, RequestEndsInv, CloseAnsweredInv,
       CloseFinishesInv, ReadFailsInv, AbortEndsInv DEF CallSteps
<1>3. CASE EncodingFails \/ Interrupted \/ ParentDies
  BY <1>3, EncodingFailsInv, InterruptedInv, ParentDiesInv
<1>4. ASSUME NEW p \in Processes, ChildSteps(p) PROVE IInv'
  BY <1>4, ChildBootsInv, ChildReadsInv, ChildReadsPartInv, ChildReadsOnInv,
     ChildEndsInv, ChildLeavesInv DEF ChildSteps
<1>5. ASSUME NEW p \in Processes, NativeSteps(p) PROVE IInv'
  BY <1>5, ChildServesInv, ChildClosesInv DEF NativeSteps
<1>6. ASSUME NEW p \in Processes, ChildDies(p) \/ LeftReaderReads(p) PROVE IInv'
  BY <1>6, ChildEndsInv, LeftReaderReadsInv
<1>7. CASE UNCHANGED vars
  <2>1. TypeOK' /\ ControlInv' /\ UnbornInv' /\ IdInv' /\ ReadersInv'
    BY <1>7 DEF vars, IInv, TypeOK, ControlInv, UnbornInv, IdInv, ReadersInv
  <2>2. OneWorker' /\ CloseInv' /\ AnswerInv'
    BY <1>7 DEF vars, IInv, OneWorker, CloseInv, AnswerInv, Running
  <2>3. CountInv'
    BY <1>7 DEF vars, IInv, CountInv, Waiting, Owed, Busy, Handled, Adrift
  <2> QED
    BY <2>1, <2>2, <2>3 DEF IInv
<1> QED
  BY <1>1, <1>2, <1>3, <1>4, <1>5, <1>6, <1>7 DEF Next

\* The parent, its children and the frames between them stay in balance: the
\* invariant that the theorems below read off.
THEOREM Invariance == Spec => []IInv
<1> QED
  BY InitInv, StepInv, PTL DEF Spec

\* Every variable keeps its type: an identifier, a count of readers or a frame
\* in a pipe never leaves its range.
THEOREM TypeCorrect == Spec => []TypeOK
<1>1. IInv => TypeOK
  BY DEF IInv
<1> QED
  BY <1>1, Invariance, PTL

\* A session has at most one child that runs, and knows which.
THEOREM AtMostOneWorker == Spec => []OneWorker
<1>1. IInv => OneWorker
  BY DEF IInv
<1> QED
  BY <1>1, Invariance, PTL

\* The response or error that request() returns answers that very request, for
\* any number of interrupted requests before it.
THEOREM AnswersMatch == Spec => []AnswerIsOwn
<1>1. IInv => AnswerIsOwn
  BY DEF IInv, AnswerInv, AnswerIsOwn
<1> QED
  BY <1>1, Invariance, PTL

\* A close() that has returned leaves no child running, however it ended.
THEOREM CloseLeavesNoChild == Spec => []CloseReaps
<1>1. ASSUME IInv, closed, pc = "idle", interrupts = 0
      PROVE  process = NoProcess /\ \A p \in Processes : ~Running(p)
  <2>1. process = NoProcess /\ ending = NoProcess
    BY <1>1 DEF IInv, CloseInv, ControlInv
  <2> QED
    BY <1>1, <2>1, ProcessesAssumption DEF IInv, OneWorker
<1>2. IInv => CloseReaps
  BY <1>1 DEF CloseReaps
<1> QED
  BY <1>2, Invariance, PTL

\* Between two calls the frames that a child owes and the readers that wait
\* for one are equal in number, for any number of failures and of interrupted
\* calls before, when the frames that these calls wrote without a reader, and
\* those lost behind a part of a frame, are counted for what they are.
THEOREM AnswersHaveReaders == Spec => []EveryAnswerHasAReader
<1>1. ASSUME IInv, pc = "idle", process # NoProcess
      PROVE  \/ child[process].at \in Spent
             \/ Outstanding(process) + child[process].lost
                  = child[process].readers + child[process].unread
  <2>1. process \in Processes /\ Waiting = 0
    BY <1>1 DEF IInv, TypeOK, Waiting, Waits
  <2>2. PICK c \in Children : c = child[process]
    BY <2>1, <1>1 DEF IInv, TypeOK
  <2>3. c.at \in Spent \/ Owed(c) = c.readers + 0
    BY <1>1, <2>1, <2>2 DEF IInv, CountInv
  <2>4. PICK k \in Nat : k = Len(c.stdin)
    BY PipeLengths
  <2>5. PICK m \in Nat : m = Len(c.stdout)
    BY PipeLengths
  <2>6. PICK b \in Int : b = Handled(c)
    BY BusyIs
  <2>7. PICK h \in Nat : h = IF c.held = "part" THEN 1 ELSE 0
    OBVIOUS
  <2>8. PICK l \in Nat : l = c.lost
    BY Fields
  <2>9. PICK u \in Nat : u = c.unread
    BY Fields
  <2>10. PICK r \in Nat : r = c.readers
    BY OwedIs
  <2>11. Outstanding(process) + c.lost = (k + m + b + h) + l
    BY <2>2, <2>4, <2>5, <2>6, <2>7, <2>8, Zenon DEF Outstanding, Handled
  <2>12. Owed(c) = k + m + (b + ((h + l) - u))
    BY <2>4, <2>5, <2>6, <2>7, <2>8, <2>9, Zenon DEF Owed, Busy, Adrift
  <2>13. k + m + (b + ((h + l) - u)) = r + 0 => (k + m + b + h) + l = r + u
    BY SMT
  <2>14. c.at \in Spent \/ Outstanding(process) + c.lost = c.readers + c.unread
    BY <2>3, <2>9, <2>10, <2>11, <2>12, <2>13, Zenon
  <2> QED
    BY <2>2, <2>14
<1>2. IInv => EveryAnswerHasAReader
  BY <1>1 DEF EveryAnswerHasAReader, Spent
<1> QED
  BY <1>2, Invariance, PTL

=============================================================================
