------------------------- MODULE ResponseParserProofs -------------------------
(***************************************************************************)
(* Proofs about ResponseParser, for any limits, whatever the peer sends    *)
(* and however it is cut into segments: type correctness; that what the    *)
(* parser keeps, and has agreed to read, stays within the limits; that a   *)
(* response it completes is the message of the reference grammar, with its *)
(* body and its end; and that it refuses none that the grammar has.  For   *)
(* these two the grammar's recursive functions are shown to have one value *)
(* at each place of the wire, by places (SequenceFolds), then what a cut   *)
(* of the wire means is followed from the parser's state through every     *)
(* action.                                                                 *)
(***************************************************************************)
EXTENDS ResponseParser, SequenceFolds, SequenceTheorems, FiniteSetTheorems, TLAPS

\* A line whose carriage return has been read still fits with its ending, as
\* ensure_line_fits() has found; no carriage return is pending in a body; and
\* there is no body before the head is complete.
LineInv ==
  /\ pending_cr => state \in LineStates /\ Fits(Len(line))
  /\ state \in {"StatusLine", "Headers"} => body = << >>

IInv == TypeOK /\ WithinLimits /\ LineInv

\* The variables of the environment.
Same == UNCHANGED << wire, semantics, upto >>

-----------------------------------------------------------------------------
(* Lemmas *)

LEMMA InitInv == Init => IInv
  <1> USE LimitsAssumption, WiresAssumption
  <1>1. << >> \in Seq(Bytes) /\ Len(<< >>) = 0
    BY EmptySeq
  <1>2. DefaultHead \in Heads /\ DefaultHead.headers = 0
    BY SMT DEF DefaultHead, Heads, NoLength
  <1>3. Init => TypeOK
    <2>1. Init => wire \in Seq(Bytes) /\ Len(wire) \in Nat
      BY LenProperties DEF Init
    <2>2. Init => PositionOK
      BY <2>1, SMT DEF Init, PositionOK, States, LineStates
    <2>3. 0 \in Nat
      OBVIOUS
    <2>4. Init => KeptOK
      BY <1>1, <1>2, <2>3, Zenon DEF Init, KeptOK
    <2> QED
      BY <2>2, <2>4 DEF TypeOK
  <1>4. Init => WithinLimits /\ LineInv
    BY <1>1, <1>2, SMT DEF Init, WithinLimits, LineInv
  <1> QED
    BY <1>3, <1>4 DEF IInv

\* The two updates of a head, one field at a time.
LEMMA StatusUpdate ==
  ASSUME NEW head \in Heads, NEW v \in Versions, NEW n \in Nat
  PROVE  /\ [head EXCEPT !.version = v, !.status = n] \in Heads
         /\ [head EXCEPT !.version = v, !.status = n].headers = head.headers
  <1> DEFINE h == [head EXCEPT !.version = v]
  <1>1. h \in Heads /\ h.headers = head.headers
    BY SMT DEF Heads
  <1> HIDE DEF h
  <1>2. [h EXCEPT !.status = n] \in Heads /\ [h EXCEPT !.status = n].headers = h.headers
    BY <1>1, SMT DEF Heads
  <1> QED
    BY <1>1, <1>2 DEF h

LEMMA FieldUpdate ==
  ASSUME current \in Heads, line[1].n \in Nat
  PROVE  Applied \in Heads /\ Applied.headers = current.headers + 1
  <1> DEFINE kind == line[1].is
             h1 == [current EXCEPT !.headers = @ + 1]
             h2 == [h1 EXCEPT !.content_length = IF kind = "content-length"
                                                   THEN line[1].n ELSE @]
             h3 == [h2 EXCEPT !.chunked = @ \/ kind = "chunked"]
             h4 == [h3 EXCEPT !.close = @ \/ kind = "close"]
             h5 == [h4 EXCEPT !.keep_alive = @ \/ kind = "keep-alive"]
  <1>1. h1 \in Heads /\ h1.headers = current.headers + 1
    BY SMT DEF Heads
  <1>2. h1 \in Heads => h2 \in Heads /\ h2.headers = h1.headers
    <2> HIDE DEF h1
    <2> QED
      BY SMT DEF Heads
  <1>3. h2 \in Heads => h3 \in Heads /\ h3.headers = h2.headers
    <2> DEFINE p == h2.chunked \/ kind = "chunked"
    <2>1. p \in BOOLEAN
      OBVIOUS
    <2> HIDE DEF h2, p
    <2>2. h2 \in Heads =>
            /\ [h2 EXCEPT !.chunked = p] \in Heads
            /\ [h2 EXCEPT !.chunked = p].headers = h2.headers
      BY <2>1, SMT DEF Heads
    <2> QED
      BY <2>2 DEF p
  <1>4. h3 \in Heads => h4 \in Heads /\ h4.headers = h3.headers
    <2> DEFINE p == h3.close \/ kind = "close"
    <2>1. p \in BOOLEAN
      OBVIOUS
    <2> HIDE DEF h3, p
    <2>2. h3 \in Heads =>
            /\ [h3 EXCEPT !.close = p] \in Heads
            /\ [h3 EXCEPT !.close = p].headers = h3.headers
      BY <2>1, SMT DEF Heads
    <2> QED
      BY <2>2 DEF p
  <1>5. h4 \in Heads => h5 \in Heads /\ h5.headers = h4.headers
    <2> DEFINE p == h4.keep_alive \/ kind = "keep-alive"
    <2>1. p \in BOOLEAN
      OBVIOUS
    <2> HIDE DEF h4, p
    <2>2. h4 \in Heads =>
            /\ [h4 EXCEPT !.keep_alive = p] \in Heads
            /\ [h4 EXCEPT !.keep_alive = p].headers = h4.headers
      BY <2>1, SMT DEF Heads
    <2> QED
      BY <2>2 DEF p
  <1>6. Applied = h5
    BY DEF Applied
  <1> HIDE DEF h1, h2, h3, h4, h5
  <1> QED
    BY <1>1, <1>2, <1>3, <1>4, <1>5, <1>6

\* The byte that is looked at is one of the wire's.
LEMMA NextByte ==
  ASSUME IInv, Feeding
  PROVE  /\ offset + 1 \in 1 .. Len(wire)
         /\ wire[offset + 1] \in Bytes
         /\ offset + 1 <= upto
  <1>1. /\ wire \in Seq(Bytes) /\ upto \in 0 .. Len(wire) /\ offset \in 0 .. upto
        /\ offset < upto /\ Len(wire) \in Nat
    BY LenProperties DEF IInv, TypeOK, PositionOK, KeptOK, Feeding
  <1>2. offset + 1 \in 1 .. Len(wire) /\ offset + 1 <= upto
    BY <1>1, SMT
  <1> QED
    BY <1>1, <1>2, ElementOfSeq

\* An error changes nothing else.
LEMMA RefusalKeeps ==
  ASSUME IInv, NEW kind \in Errors, Fails(kind), Same
  PROVE  IInv'
  <1>1. TypeOK'
    <2>1. PositionOK'
      BY SMT DEF IInv, TypeOK, PositionOK, KeptOK, Fails, Same, lineVars, countVars, responseVars
    <2>2. KeptOK'
      BY SMT DEF IInv, TypeOK, PositionOK, KeptOK, Fails, Same, lineVars, countVars, responseVars
    <2> QED
      BY <2>1, <2>2 DEF TypeOK
  <1>2. WithinLimits' /\ LineInv'
    BY SMT DEF IInv, WithinLimits, LineInv, Fits, Section, Fails, Same,
               lineVars, countVars, responseVars
  <1> QED
    BY <1>1, <1>2 DEF IInv

\* Why a line or a head is refused is an error.
LEMMA RefusalIsError ==
  /\ LimitError \in Errors
  /\ FieldError \in Errors \cup {"none"}
  /\ HeadError \in Errors \cup {"none"}
  /\ TrailerError \in Errors \cup {"none"}
  <1>1. LimitError \in Errors
    BY DEF LimitError, Errors
  <1>2. FieldError \in Errors \cup {"none"}
    BY DEF FieldError, Errors
  <1>3. HeadError \in Errors \cup {"none"}
    BY DEF HeadError, Errors
  <1>4. TrailerError \in Errors \cup {"none"}
    BY DEF TrailerError, Errors
  <1> QED
    BY <1>1, <1>2, <1>3, <1>4

\* The pieces of a line.
LEMMA LineBegins ==
  ASSUME IInv, line # << >>
  PROVE  /\ line[1] \in Bytes /\ line[1].n \in Nat
         /\ Len(line) \in Nat \ {0}
  <1>1. line \in Seq(Bytes) /\ Len(line) \in Nat \ {0}
    BY EmptySeq DEF IInv, TypeOK, PositionOK, KeptOK
  <1>2. 1 \in 1 .. Len(line)
    BY <1>1, SMT
  <1>3. line[1] \in Bytes
    BY <1>1, <1>2, ElementOfSeq
  <1> QED
    BY <1>1, <1>3 DEF Bytes

\* What the sections of the message that line s belongs to have room for.
LEMMA LineFits ==
  ASSUME IInv, NEW s \in LineStates, LineOf(s)
  PROVE  /\ Len(line) \in Nat /\ Fits(Len(line))
         /\ LineRead => /\ offset' \in 0 .. upto
                        /\ line' \in Seq(Bytes) /\ Len(line') = 0 /\ pending_cr' = FALSE
         /\ outcome = "none" /\ state = s /\ Same
  <1>1. Len(line) \in Nat /\ Fits(Len(line))
    BY LenProperties DEF IInv, TypeOK, PositionOK, KeptOK, LineInv, LineOf
  <1>2. LineRead => /\ offset' \in 0 .. upto
                    /\ line' \in Seq(Bytes) /\ Len(line') = 0 /\ pending_cr' = FALSE
    <2>1. Feeding
      BY DEF LineOf
    <2>2. offset \in 0 .. upto /\ upto \in Nat /\ offset + 1 <= upto
      BY <2>1, NextByte, LenProperties, SMT DEF IInv, TypeOK, PositionOK, KeptOK
    <2>3. << >> \in Seq(Bytes) /\ Len(<< >>) = 0
      BY EmptySeq
    <2> QED
      BY <2>2, <2>3, SMT DEF LineRead
  <1> QED
    BY <1>1, <1>2 DEF LineOf, Feeding, Same

\* What a turn takes of a body.
LEMMA BodyTaken ==
  ASSUME IInv, Feeding, NEW amount \in Nat, offset + amount <= upto, TakeBody(amount)
  PROVE  /\ body' \in Seq(Bytes) /\ Len(body') = Len(body) + amount
         /\ offset' \in 0 .. upto
  <1>1. /\ wire \in Seq(Bytes) /\ upto \in 0 .. Len(wire) /\ offset \in 0 .. upto
        /\ body \in Seq(Bytes) /\ Len(wire) \in Nat /\ Len(body) \in Nat
    BY LenProperties DEF IInv, TypeOK, PositionOK, KeptOK
  <1>2. \A i \in offset + 1 .. offset + amount : wire[i] \in Bytes
    <2> SUFFICES ASSUME NEW i \in offset + 1 .. offset + amount
                 PROVE  wire[i] \in Bytes
      OBVIOUS
    <2>1. i \in 1 .. Len(wire)
      BY <1>1, SMT
    <2> QED
      BY <1>1, <2>1, ElementOfSeq
  <1> DEFINE taken == SubSeq(wire, offset + 1, offset + amount)
  <1>3. offset + 1 \in Int /\ offset + amount \in Int
    BY <1>1, SMT
  <1>4. taken \in Seq(Bytes)
        /\ Len(taken) = IF offset + 1 <= offset + amount
                          THEN (offset + amount) - (offset + 1) + 1 ELSE 0
    BY <1>2, <1>3, SubSeqProperties
  <1>5. Len(taken) = amount
    BY <1>1, <1>4, SMT
  <1>6. body \o taken \in Seq(Bytes) /\ Len(body \o taken) = Len(body) + Len(taken)
    BY <1>1, <1>4, ConcatProperties
  <1>7. body' = body \o taken /\ offset' = offset + amount
    BY DEF TakeBody
  <1> QED
    BY <1>1, <1>5, <1>6, <1>7, SMT

-----------------------------------------------------------------------------
(* Every action preserves the invariant *)

LEMMA FeedKeeps ==
  ASSUME IInv, NEW n \in Nat, Feed(n)
  PROVE  IInv'
  <1>1. upto \in Nat /\ upto + n <= Len(wire) /\ upto' = upto + n /\ Len(wire) \in Nat
    BY LenProperties DEF IInv, TypeOK, PositionOK, KeptOK, Feed
  <1>2. UNCHANGED << wire, semantics, state, remaining, offset, lineVars, countVars,
                     responseVars, outcome >>
    BY DEF Feed
  <1>3. TypeOK'
    <2>1. PositionOK'
      BY <1>1, <1>2, SMT DEF IInv, TypeOK, PositionOK, KeptOK, lineVars, countVars, responseVars
    <2>2. KeptOK'
      BY <1>1, <1>2, SMT DEF IInv, TypeOK, PositionOK, KeptOK, lineVars, countVars, responseVars
    <2> QED
      BY <2>1, <2>2 DEF TypeOK
  <1>4. WithinLimits' /\ LineInv'
    BY <1>2, SMT DEF IInv, WithinLimits, LineInv, Fits, Section, lineVars, countVars,
                     responseVars
  <1> QED
    BY <1>3, <1>4 DEF IInv

LEMMA ReadByteKeeps == IInv /\ ReadByte => IInv'
  <1> SUFFICES ASSUME IInv, ReadByte PROVE IInv'
    OBVIOUS
  <1> DEFINE byte == wire[offset + 1]
  <1>0. /\ Feeding /\ Same /\ state \in LineStates /\ ~pending_cr
        /\ byte \in Bytes /\ offset + 1 <= upto
        /\ line \in Seq(Bytes) /\ Len(line) \in Nat
        /\ offset \in Nat /\ upto \in Nat
    BY NextByte, LenProperties, SMT DEF ReadByte, Same, IInv, TypeOK, PositionOK, KeptOK
  <1>1. CASE Fails("BareLineFeed")
    BY <1>0, <1>1, RefusalKeeps DEF Errors
  <1>2. CASE Fails(LimitError)
    BY <1>0, <1>2, RefusalKeeps, RefusalIsError
  <1>3. CASE /\ Fits(Len(line)) /\ pending_cr' = TRUE /\ offset' = offset + 1
             /\ UNCHANGED << line, state, remaining, countVars, responseVars, outcome >>
    <2>1. TypeOK'
      <3>1. PositionOK'
        BY <1>0, <1>3, SMT DEF IInv, TypeOK, PositionOK, KeptOK, Same, countVars, responseVars
      <3>2. KeptOK'
        BY <1>0, <1>3, SMT DEF IInv, TypeOK, PositionOK, KeptOK, Same, countVars, responseVars
      <3> QED
        BY <3>1, <3>2 DEF TypeOK
    <2>2. WithinLimits' /\ LineInv'
      BY <1>0, <1>3, SMT DEF IInv, WithinLimits, LineInv, Fits, Section, countVars,
                             responseVars
    <2> QED
      BY <2>1, <2>2 DEF IInv
  <1>4. CASE /\ Fits(Len(line) + 1) /\ line' = Append(line, byte)
             /\ offset' = offset + 1
             /\ UNCHANGED << pending_cr, state, remaining, countVars, responseVars,
                            outcome >>
    <2>1. line' \in Seq(Bytes) /\ Len(line') = Len(line) + 1
      BY <1>0, <1>4, AppendProperties
    <2>2. TypeOK'
      <3>1. PositionOK'
        BY <1>0, <1>4, <2>1, SMT DEF IInv, TypeOK, PositionOK, KeptOK, Same, countVars, responseVars
      <3>2. KeptOK'
        BY <1>0, <1>4, <2>1, SMT DEF IInv, TypeOK, PositionOK, KeptOK, Same, countVars, responseVars
      <3> QED
        BY <3>1, <3>2 DEF TypeOK
    <2>3. WithinLimits' /\ LineInv'
      BY <1>0, <1>4, <2>1, SMT DEF IInv, WithinLimits, LineInv, Fits, Section, countVars,
                                   responseVars
    <2> QED
      BY <2>2, <2>3 DEF IInv
  <1> QED
    BY <1>1, <1>2, <1>3, <1>4 DEF ReadByte

LEMMA WrongEndingKeeps == IInv /\ WrongEnding => IInv'
  BY RefusalKeeps DEF WrongEnding, Same, Errors

\* What the end of a line leaves behind, as facts on their own.
LEMMA LineFacts ==
  ASSUME IInv, NEW s \in LineStates, LineOf(s), LineRead
  PROVE  /\ wire' = wire /\ semantics' = semantics /\ upto' = upto
         /\ offset' \in 0 .. upto
         /\ line' \in Seq(Bytes) /\ Len(line') = 0 /\ pending_cr' = FALSE
         /\ Len(line) \in Nat /\ Fits(Len(line))
         /\ state = s /\ outcome = "none"
  BY LineFits DEF Same

\* The invariant after a line of the head.
LEMMA HeadGoesOn ==
  ASSUME IInv, state \in {"StatusLine", "Headers"},
         wire' = wire, semantics' = semantics, upto' = upto, outcome' = outcome,
         offset' \in 0 .. upto,
         line' \in Seq(Bytes), Len(line') = 0, pending_cr' = FALSE,
         head_bytes' \in Nat, head_bytes' <= MaxHead, trailer_bytes' = trailer_bytes,
         current' \in Heads, current'.headers <= MaxHeaders,
         informational' \in Nat, informational' <= MaxInformational,
         body' = body, trailers' = trailers,
         final_connection_close' = final_connection_close,
         state' \in {"StatusLine", "Headers"}, remaining' = remaining
  PROVE  IInv'
  <1>1. PositionOK'
    BY SMT DEF IInv, TypeOK, PositionOK, States, LineStates
  <1>2. KeptOK'
    BY Zenon DEF IInv, TypeOK, KeptOK
  <1>3. WithinLimits' /\ LineInv'
    BY LimitsAssumption, SMT DEF IInv, TypeOK, PositionOK, KeptOK, WithinLimits, LineInv
  <1> QED
    BY <1>1, <1>2, <1>3 DEF IInv, TypeOK

\* A line of the head that fits leaves its bytes within the limit.
LEMMA HeadBytes ==
  ASSUME IInv, state \in {"StatusLine", "Headers"},
         Len(line) \in Nat, Fits(Len(line)), HeadRead
  PROVE  head_bytes' \in Nat /\ head_bytes' <= MaxHead /\ trailer_bytes' = trailer_bytes
  BY LimitsAssumption, SMTT(30) DEF IInv, TypeOK, KeptOK, Fits, Section, HeadRead

LEMMA ParseStatusLineKeeps == IInv /\ ParseStatusLine => IInv'
  <1> SUFFICES ASSUME IInv, ParseStatusLine PROVE IInv'
    OBVIOUS
  <1>1. LineOf("StatusLine") /\ "StatusLine" \in LineStates /\ Same
    BY DEF ParseStatusLine, LineStates, LineOf, Same
  <1>2. CASE ~(line # << >> /\ IsStatus(line)) /\ Fails(StatusError)
    <2>1. StatusError \in Errors
      BY DEF StatusError, Errors
    <2> QED
      BY <1>1, <1>2, <2>1, RefusalKeeps
  <1>3. CASE /\ line # << >> /\ IsStatus(line)
             /\ LineRead /\ HeadRead
             /\ state' = "Headers"
             /\ current' = [current EXCEPT !.version = line[1].is, !.status = line[1].n]
             /\ UNCHANGED << remaining, informational, body, trailers,
                             final_connection_close, outcome >>
    <2>1. line[1].is \in Versions /\ line[1].n \in Nat
      BY <1>3, LineBegins DEF IsStatus
    <2>2. current' \in Heads /\ current'.headers <= MaxHeaders
      BY <1>3, <2>1, StatusUpdate DEF IInv, TypeOK, KeptOK, WithinLimits
    <2>3. head_bytes' \in Nat /\ head_bytes' <= MaxHead /\ trailer_bytes' = trailer_bytes
      BY <1>1, <1>3, LineFacts, HeadBytes
    <2>4. informational \in Nat /\ informational <= MaxInformational
      BY DEF IInv, TypeOK, KeptOK, WithinLimits
    <2> QED
      BY <1>1, <1>3, <2>2, <2>3, <2>4, LineFacts, HeadGoesOn
  <1> QED
    BY <1>2, <1>3 DEF ParseStatusLine

LEMMA ParseFieldKeeps == IInv /\ ParseField => IInv'
  <1> SUFFICES ASSUME IInv, ParseField PROVE IInv'
    OBVIOUS
  <1>1. LineOf("Headers") /\ "Headers" \in LineStates /\ Same /\ line # << >>
    BY DEF ParseField, LineStates, LineOf, Same
  <1>2. CASE FieldError # "none" /\ Fails(FieldError)
    BY <1>1, <1>2, RefusalKeeps, RefusalIsError
  <1>3. CASE /\ FieldError = "none"
             /\ LineRead /\ HeadRead
             /\ current' = Applied
             /\ UNCHANGED << state, remaining, informational, body, trailers,
                             final_connection_close, outcome >>
    <2>1. ~(current.headers >= MaxHeaders)
      BY <1>3 DEF FieldError
    <2>2. current \in Heads /\ line[1].n \in Nat
      BY <1>1, LineBegins DEF IInv, TypeOK, KeptOK
    <2>3. current' \in Heads /\ current'.headers = current.headers + 1
      BY <1>3, <2>2, FieldUpdate
    <2>4. current.headers \in Nat
      BY <2>2 DEF Heads
    <2>5. current'.headers <= MaxHeaders
      BY <2>1, <2>3, <2>4, LimitsAssumption, SMT
    <2>6. head_bytes' \in Nat /\ head_bytes' <= MaxHead /\ trailer_bytes' = trailer_bytes
      BY <1>1, <1>3, LineFacts, HeadBytes
    <2>7. informational \in Nat /\ informational <= MaxInformational
      BY DEF IInv, TypeOK, KeptOK, WithinLimits
    <2> QED
      BY <1>1, <1>3, <2>3, <2>5, <2>6, <2>7, LineFacts, HeadGoesOn
  <1> QED
    BY <1>2, <1>3 DEF ParseField

LEMMA RefuseHeadKeeps == IInv /\ RefuseHead => IInv'
  <1> SUFFICES ASSUME IInv, RefuseHead PROVE IInv'
    OBVIOUS
  <1>1. Same /\ HeadError # "none" /\ Fails(HeadError)
    BY DEF RefuseHead, LineOf, Same
  <1> QED
    BY <1>1, RefusalKeeps, RefusalIsError

\* The line that ends a head.
LEMMA HeadLineFacts ==
  ASSUME IInv, HeadLine
  PROVE  /\ wire' = wire /\ semantics' = semantics /\ upto' = upto
         /\ offset' \in 0 .. upto
         /\ line' \in Seq(Bytes) /\ Len(line') = 0 /\ pending_cr' = FALSE
         /\ Len(line) \in Nat /\ Fits(Len(line))
         /\ state = "Headers" /\ outcome = "none"
         /\ HeadError = "none"
  <1>1. LineOf("Headers") /\ "Headers" \in LineStates /\ LineRead /\ HeadError = "none"
    BY DEF HeadLine, LineStates
  <1> QED
    BY <1>1, LineFacts

LEMMA InformationalKeeps == IInv /\ Informational => IInv'
  <1> SUFFICES ASSUME IInv, Informational PROVE IInv'
    OBVIOUS
  <1>1. HeadLine /\ IsInformational
    BY DEF Informational
  <1>2. ~(informational >= MaxInformational)
    BY <1>1, HeadLineFacts DEF HeadError
  <1>3. DefaultHead \in Heads /\ DefaultHead.headers = 0
    BY SMT DEF DefaultHead, Heads, NoLength
  <1>4. informational' \in Nat /\ informational' <= MaxInformational
    BY <1>2, LimitsAssumption, SMT DEF Informational, IInv, TypeOK, KeptOK
  <1>5. 0 \in Nat /\ 0 <= MaxHead /\ 0 <= MaxHeaders
    BY LimitsAssumption, SMT
  <1> QED
    BY <1>1, <1>3, <1>4, <1>5, HeadLineFacts, HeadGoesOn DEF Informational

\* The invariant once the head of the final response is complete.
LEMMA HeadEnds ==
  ASSUME IInv, HeadLine, HeadRead,
         state' \in {"Done", "ChunkSize", "FixedBody", "CloseBody"},
         remaining' \in Nat,
         state' = "FixedBody" => remaining' > 0 /\ remaining' <= MaxBody,
         final_connection_close' \in BOOLEAN, outcome' \in {"none", "complete"},
         UNCHANGED << current, informational, body, trailers >>
  PROVE  IInv'
  <1>1. /\ wire' = wire /\ semantics' = semantics /\ upto' = upto
        /\ offset' \in 0 .. upto
        /\ line' \in Seq(Bytes) /\ Len(line') = 0 /\ pending_cr' = FALSE
        /\ Len(line) \in Nat /\ Fits(Len(line)) /\ state = "Headers"
    BY HeadLineFacts
  <1>2. head_bytes' \in Nat /\ head_bytes' <= MaxHead /\ trailer_bytes' = trailer_bytes
    BY <1>1, HeadBytes
  <1>3. Len(body) = 0
    BY <1>1, EmptySeq DEF IInv, LineInv
  <1>4. PositionOK'
    BY <1>1, SMT DEF IInv, TypeOK, PositionOK, States, LineStates
  <1>5. KeptOK'
    BY <1>1, <1>2, Zenon DEF IInv, TypeOK, KeptOK
  <1>6. WithinLimits'
    <2>1. Len(body') = 0
      BY <1>3
    <2>2. ASSUME state' \in {"FixedBody", "ChunkData"}
          PROVE  Len(body') + remaining' <= MaxBody
      <3>1. state' = "FixedBody"
        BY <2>2
      <3>2. remaining' <= MaxBody /\ remaining' \in Nat
        BY <3>1
      <3> QED
        BY <2>1, <3>2, SMT
    <2>3. Len(line') <= MaxLine /\ Len(body') <= MaxBody
      BY <1>1, <2>1, LimitsAssumption, SMT
    <2> QED
      BY <1>2, <2>2, <2>3 DEF IInv, WithinLimits
  <1>7. LineInv'
    BY <1>1, SMT DEF LineInv
  <1> QED
    BY <1>4, <1>5, <1>6, <1>7 DEF IInv, TypeOK

LEMMA HeadCompletesKeeps == IInv /\ HeadCompletes => IInv'
  <1> SUFFICES ASSUME IInv, HeadCompletes PROVE IInv'
    OBVIOUS
  <1>1. remaining \in Nat /\ Closes \in BOOLEAN
    BY DEF Closes, IInv, TypeOK, PositionOK, KeptOK, Heads
  <1> QED
    BY <1>1, HeadEnds DEF HeadCompletes, Completes

LEMMA BodyFollowsKeeps == IInv /\ BodyFollows => IInv'
  <1> SUFFICES ASSUME IInv, BodyFollows PROVE IInv'
    OBVIOUS
  <1>1. HeadLine /\ HeadRead /\ UNCHANGED << current, informational, body, trailers, outcome >>
    BY DEF BodyFollows
  <1>2. outcome = "none"
    BY <1>1, HeadLineFacts
  <1>3. remaining \in Nat /\ Closes \in BOOLEAN
    BY DEF Closes, IInv, TypeOK, PositionOK
  <1>4. CASE current.chunked
    BY <1>1, <1>2, <1>3, <1>4, HeadEnds DEF BodyFollows, HasFraming
  <1>5. CASE ~current.chunked /\ current.content_length > 0
    <2>1. ~(current.content_length > MaxBody)
      BY <1>1, <1>5, HeadLineFacts DEF HeadError, BodyFollows
    <2>2. current.content_length \in Nat \cup {NoLength}
      BY DEF IInv, TypeOK, KeptOK, Heads
    <2>3. current.content_length \in Nat /\ current.content_length <= MaxBody
          /\ current.content_length # NoLength
      BY <1>5, <2>1, <2>2, LimitsAssumption, SMT DEF NoLength
    <2>4. /\ state' = "FixedBody" /\ remaining' = current.content_length
          /\ final_connection_close' = Closes
      BY <1>5, <2>3 DEF BodyFollows, HasFraming
    <2> QED
      BY <1>1, <1>2, <1>3, <1>5, <2>3, <2>4, HeadEnds
  <1>6. CASE ~HasFraming
    <2>1. ~current.chunked /\ ~(current.content_length > 0)
      BY <1>6 DEF HasFraming, NoLength
    <2>2. /\ state' = "CloseBody" /\ remaining' = remaining
          /\ final_connection_close' = TRUE
      BY <2>1 DEF BodyFollows
    <2> QED
      BY <1>1, <1>2, <1>3, <2>2, HeadEnds
  <1> QED
    BY <1>4, <1>5, <1>6 DEF BodyFollows

\* The invariant after a turn that has taken a part of a body.
LEMMA BodyGoesOn ==
  ASSUME IInv, Feeding, ~pending_cr,
         NEW amount \in Nat, offset + amount <= upto, TakeBody(amount),
         Len(body) + amount <= MaxBody,
         state \in {"FixedBody", "ChunkData", "CloseBody"},
         state' \in {"FixedBody", "ChunkData", "CloseBody", "ChunkTerminator", "Done"},
         remaining' \in Nat, outcome' \in {"none", "complete"},
         state' \in {"FixedBody", "ChunkData"} =>
           remaining' > 0 /\ Len(body) + amount + remaining' <= MaxBody,
         state' = "ChunkTerminator" => remaining' = 2,
         UNCHANGED << wire, semantics, upto, lineVars, countVars, current,
                      informational, trailers, final_connection_close >>
  PROVE  IInv'
  <1>1. /\ body' \in Seq(Bytes) /\ Len(body') = Len(body) + amount
        /\ offset' \in 0 .. upto
    BY BodyTaken
  <1>2. /\ wire' = wire /\ semantics' = semantics /\ upto' = upto
        /\ line' = line /\ pending_cr' = FALSE /\ pending_cr' = pending_cr
        /\ head_bytes' = head_bytes /\ trailer_bytes' = trailer_bytes
        /\ current' = current /\ informational' = informational
        /\ trailers' = trailers /\ final_connection_close' = final_connection_close
    BY DEF lineVars, countVars, IInv, TypeOK, KeptOK
  <1>3. PositionOK'
    BY <1>1, <1>2, SMT DEF IInv, TypeOK, PositionOK, States, LineStates
  <1>4. KeptOK'
    BY <1>1, <1>2, Zenon DEF IInv, TypeOK, KeptOK
  <1>5. WithinLimits'
    <2>1. Len(body) \in Nat
      BY LenProperties DEF IInv, TypeOK, KeptOK
    <2>2. state' \in {"FixedBody", "ChunkData"} => Len(body') + remaining' <= MaxBody
      BY <1>1, <2>1, LimitsAssumption, SMT
    <2>3. Len(body') <= MaxBody
      BY <1>1, <2>1, LimitsAssumption, SMT
    <2> QED
      BY <1>2, <2>2, <2>3 DEF IInv, WithinLimits
  <1>6. LineInv'
    BY <1>2, SMT DEF LineInv
  <1> QED
    BY <1>3, <1>4, <1>5, <1>6 DEF IInv, TypeOK

\* What a turn takes of a body whose rest is known.
LEMMA TakenFits ==
  ASSUME IInv, Feeding, state \in {"FixedBody", "ChunkData"}
  PROVE  /\ Taken \in Nat /\ offset + Taken <= upto
         /\ Taken <= remaining /\ remaining - Taken \in Nat
         /\ Len(body) + Taken <= MaxBody
         /\ Len(body) + Taken + (remaining - Taken) <= MaxBody
         /\ ~pending_cr /\ remaining \in Nat
  <1>1. /\ upto \in Nat /\ offset \in Nat /\ remaining \in Nat /\ offset < upto
        /\ Len(body) \in Nat /\ Len(body) + remaining <= MaxBody
    BY LenProperties, SMT DEF IInv, TypeOK, PositionOK, KeptOK, WithinLimits, Feeding
  <1>2. ~pending_cr
    BY DEF IInv, LineInv, LineStates
  <1> QED
    BY <1>1, <1>2, LimitsAssumption, SMT DEF Taken

LEMMA FixedBodyKeeps == IInv /\ FixedBody => IInv'
  <1> SUFFICES ASSUME IInv, FixedBody PROVE IInv'
    OBVIOUS
  <1>1. /\ Feeding /\ state = "FixedBody" /\ TakeBody(Taken)
        /\ remaining' = remaining - Taken
        /\ UNCHANGED << wire, semantics, upto, lineVars, countVars, current,
                        informational, trailers, final_connection_close >>
    BY DEF FixedBody
  <1>2. CASE remaining' = 0
    BY <1>1, <1>2, TakenFits, BodyGoesOn DEF FixedBody, Completes
  <1>3. CASE remaining' # 0
    <2>1. state' = state /\ outcome' = "none"
      BY <1>1, <1>3 DEF FixedBody, Feeding
    <2>2. remaining' \in Nat /\ remaining' > 0
          /\ Len(body) + Taken + remaining' <= MaxBody
      BY <1>1, <1>3, TakenFits, SMT
    <2> QED
      BY <1>1, <2>1, <2>2, TakenFits, BodyGoesOn
  <1> QED
    BY <1>2, <1>3

LEMMA ChunkDataKeeps == IInv /\ ChunkData => IInv'
  <1> SUFFICES ASSUME IInv, ChunkData PROVE IInv'
    OBVIOUS
  <1>1. /\ Feeding /\ state = "ChunkData" /\ TakeBody(Taken) /\ outcome' = "none"
        /\ UNCHANGED << wire, semantics, upto, lineVars, countVars, current,
                        informational, trailers, final_connection_close >>
    BY DEF ChunkData, Feeding
  <1>2. CASE Taken = remaining
    <2>1. state' = "ChunkTerminator" /\ remaining' = 2 /\ remaining' \in Nat
      BY <1>2 DEF ChunkData
    <2> QED
      BY <1>1, <2>1, TakenFits, BodyGoesOn
  <1>3. CASE Taken # remaining
    <2>1. state' = state /\ remaining' = remaining - Taken
      BY <1>3 DEF ChunkData
    <2>2. remaining' \in Nat /\ remaining' > 0
          /\ Len(body) + Taken + remaining' <= MaxBody
      BY <1>1, <1>3, <2>1, TakenFits, SMT
    <2> QED
      BY <1>1, <2>1, <2>2, TakenFits, BodyGoesOn
  <1> QED
    BY <1>2, <1>3

LEMMA CloseBodyKeeps == IInv /\ CloseBody => IInv'
  <1> SUFFICES ASSUME IInv, CloseBody PROVE IInv'
    OBVIOUS
  <1>1. Feeding /\ state = "CloseBody" /\ Same /\ outcome = "none" /\ ~pending_cr
    BY DEF CloseBody, Feeding, Same, IInv, LineInv, LineStates
  <1>2. CASE Fails("BodyLimitExceeded")
    BY <1>1, <1>2, RefusalKeeps DEF Errors
  <1>3. CASE /\ Len(body) + upto - offset <= MaxBody
             /\ TakeBody(upto - offset)
             /\ UNCHANGED << state, remaining, lineVars, countVars, current,
                             informational, trailers, final_connection_close, outcome >>
    <2>1. upto \in Nat /\ offset \in 0 .. upto /\ Len(body) \in Nat /\ remaining \in Nat
      BY LenProperties, SMT DEF IInv, TypeOK, PositionOK, KeptOK
    <2>2. /\ upto - offset \in Nat /\ offset + (upto - offset) <= upto
          /\ Len(body) + (upto - offset) <= MaxBody
      BY <1>3, <2>1, LimitsAssumption, SMT
    <2> QED
      BY <1>1, <1>3, <2>1, <2>2, BodyGoesOn DEF Same
  <1> QED
    BY <1>2, <1>3 DEF CloseBody

\* The invariant after a line, or a terminator, between chunks and trailers.
LEMMA FramingGoesOn ==
  ASSUME IInv, state \in {"ChunkSize", "ChunkTerminator", "Trailers"},
         wire' = wire, semantics' = semantics, upto' = upto,
         outcome' \in {"none", "complete"},
         offset' \in 0 .. upto,
         line' \in Seq(Bytes), Len(line') <= MaxLine, pending_cr' = FALSE,
         head_bytes' = head_bytes,
         trailer_bytes' \in Nat, trailer_bytes' <= MaxTrailerBytes,
         trailers' \in Nat, trailers' <= MaxTrailers,
         UNCHANGED << current, informational, body, final_connection_close >>,
         state' \in {"ChunkSize", "ChunkData", "ChunkTerminator", "Trailers", "Done"},
         remaining' \in Nat,
         state' = "ChunkData" => remaining' > 0 /\ Len(body) + remaining' <= MaxBody,
         state' = "ChunkTerminator" => remaining' = 1
  PROVE  IInv'
  <1>1. PositionOK'
    BY SMT DEF IInv, TypeOK, PositionOK, States, LineStates
  <1>2. KeptOK'
    BY Zenon DEF IInv, TypeOK, KeptOK
  <1>3. WithinLimits'
    BY SMT DEF IInv, WithinLimits
  <1>4. LineInv'
    BY SMT DEF LineInv
  <1> QED
    BY <1>1, <1>2, <1>3, <1>4 DEF IInv, TypeOK

\* What does not change between chunks and trailers.
LEMMA Kept ==
  ASSUME IInv
  PROVE  /\ head_bytes \in Nat /\ remaining \in Nat
         /\ trailer_bytes \in Nat /\ trailer_bytes <= MaxTrailerBytes
         /\ trailers \in Nat /\ trailers <= MaxTrailers
         /\ line \in Seq(Bytes) /\ Len(line) <= MaxLine /\ 0 <= MaxLine
  BY LimitsAssumption, SMT DEF IInv, TypeOK, PositionOK, KeptOK, WithinLimits

LEMMA ChunkSizeKeeps == IInv /\ ChunkSize => IInv'
  <1> SUFFICES ASSUME IInv, ChunkSize PROVE IInv'
    OBVIOUS
  <1>1. LineOf("ChunkSize") /\ "ChunkSize" \in LineStates /\ Same
    BY DEF ChunkSize, LineStates, LineOf, Same
  <1>2. CASE Fails("InvalidChunkSize") \/ Fails("BodyLimitExceeded")
    BY <1>1, <1>2, RefusalKeeps DEF Errors
  <1>3. CASE /\ IsSize /\ Len(body) + line[1].n <= MaxBody
             /\ LineRead
             /\ state' = IF line[1].n = 0 THEN "Trailers" ELSE "ChunkData"
             /\ remaining' = line[1].n
             /\ UNCHANGED << countVars, responseVars, outcome >>
    <2>1. line[1].n \in Nat
      BY <1>3, LineBegins DEF IsSize
    <2>2. state' = "ChunkData" => remaining' > 0 /\ Len(body) + remaining' <= MaxBody
      BY <1>3, <2>1, SMT
    <2>3. remaining' \in Nat /\ state' \in {"Trailers", "ChunkData"}
      BY <1>3, <2>1
    <2> QED
      BY <1>1, <1>3, <2>2, <2>3, LineFacts, Kept, FramingGoesOn
      DEF countVars, responseVars
  <1> QED
    BY <1>2, <1>3 DEF ChunkSize

LEMMA ChunkTerminatorKeeps == IInv /\ ChunkTerminator => IInv'
  <1> SUFFICES ASSUME IInv, ChunkTerminator PROVE IInv'
    OBVIOUS
  <1>1. Feeding /\ state = "ChunkTerminator" /\ Same /\ outcome = "none"
        /\ pending_cr = FALSE
    BY DEF ChunkTerminator, Feeding, Same, IInv, TypeOK, KeptOK, LineInv, LineStates
  <1>2. CASE Fails("InvalidChunkTerminator")
    BY <1>1, <1>2, RefusalKeeps DEF Errors
  <1>3. CASE /\ offset' = offset + 1
             /\ remaining' = remaining - 1
             /\ state' = IF remaining = 2 THEN "ChunkTerminator" ELSE "ChunkSize"
             /\ UNCHANGED << lineVars, countVars, responseVars, outcome >>
    <2>1. offset' \in 0 .. upto
      <3>1. offset \in Nat /\ upto \in Nat /\ offset + 1 <= upto
        BY <1>1, NextByte, LenProperties, SMT DEF IInv, TypeOK, PositionOK
      <3> QED
        BY <1>3, <3>1, SMT
    <2>2. remaining \in 1 .. 2
      BY <1>1, SMT DEF IInv, TypeOK, PositionOK
    <2>3. remaining' \in Nat /\ (state' = "ChunkTerminator" => remaining' = 1)
          /\ state' \in {"ChunkTerminator", "ChunkSize"}
      BY <1>3, <2>2, SMT
    <2> QED
      BY <1>1, <1>3, <2>1, <2>3, Kept, FramingGoesOn
      DEF lineVars, countVars, responseVars, Same
  <1> QED
    BY <1>2, <1>3 DEF ChunkTerminator

\* A line of the trailers that fits leaves its bytes within the limit.
LEMMA TrailerBytes ==
  ASSUME IInv, state = "Trailers", Len(line) \in Nat, Fits(Len(line)), TrailerRead
  PROVE  trailer_bytes' \in Nat /\ trailer_bytes' <= MaxTrailerBytes
         /\ head_bytes' = head_bytes
  BY LimitsAssumption, SMT DEF IInv, TypeOK, KeptOK, Fits, Section, TrailerRead

LEMMA ParseTrailerKeeps == IInv /\ ParseTrailer => IInv'
  <1> SUFFICES ASSUME IInv, ParseTrailer PROVE IInv'
    OBVIOUS
  <1>1. LineOf("Trailers") /\ "Trailers" \in LineStates /\ Same
    BY DEF ParseTrailer, LineStates, LineOf, Same
  <1>2. CASE TrailerError # "none" /\ Fails(TrailerError)
    BY <1>1, <1>2, RefusalKeeps, RefusalIsError
  <1>3. CASE /\ TrailerError = "none"
             /\ LineRead /\ TrailerRead
             /\ trailers' = trailers + 1
             /\ UNCHANGED << state, remaining, current, informational, body,
                             final_connection_close, outcome >>
    <2>1. ~(trailers >= MaxTrailers)
      BY <1>3 DEF TrailerError
    <2>2. trailers' \in Nat /\ trailers' <= MaxTrailers
      BY <1>3, <2>1, Kept, LimitsAssumption, SMT
    <2>3. trailer_bytes' \in Nat /\ trailer_bytes' <= MaxTrailerBytes
          /\ head_bytes' = head_bytes
      BY <1>1, <1>3, LineFacts, TrailerBytes
    <2>4. 0 <= MaxLine /\ state = "Trailers" /\ outcome = "none" /\ remaining \in Nat
      BY <1>1, LineFacts, <1>3, Kept
    <2> QED
      BY <1>1, <1>3, <2>2, <2>3, <2>4, LineFacts, FramingGoesOn
  <1> QED
    BY <1>2, <1>3 DEF ParseTrailer

LEMMA TrailersEndKeeps == IInv /\ TrailersEnd => IInv'
  <1> SUFFICES ASSUME IInv, TrailersEnd PROVE IInv'
    OBVIOUS
  <1>1. /\ LineOf("Trailers") /\ "Trailers" \in LineStates
        /\ LineRead /\ TrailerRead /\ state' = "Done" /\ outcome' = "complete"
        /\ UNCHANGED << remaining, responseVars >>
    BY DEF TrailersEnd, Completes, LineStates
  <1>2. trailer_bytes' \in Nat /\ trailer_bytes' <= MaxTrailerBytes
        /\ head_bytes' = head_bytes
    BY <1>1, LineFacts, TrailerBytes
  <1> QED
    BY <1>1, <1>2, LineFacts, Kept, FramingGoesOn DEF responseVars

LEMMA FinishEofKeeps == IInv /\ FinishEof => IInv'
  <1> SUFFICES ASSUME IInv, FinishEof PROVE IInv'
    OBVIOUS
  <1>1. CASE Fails("UnexpectedEof")
    BY <1>1, RefusalKeeps DEF FinishEof, Same, Errors
  <1>2. CASE /\ state = "CloseBody" /\ Completes
             /\ UNCHANGED << remaining, offset, lineVars, countVars, responseVars >>
    <2>1. PositionOK'
      BY <1>2, SMT DEF IInv, TypeOK, PositionOK, FinishEof, Completes, States
    <2>2. KeptOK'
      BY <1>2, Zenon DEF IInv, TypeOK, KeptOK, lineVars, countVars, responseVars
    <2>3. WithinLimits' /\ LineInv'
      BY <1>2, SMT DEF IInv, WithinLimits, LineInv, LineStates, Completes,
                       lineVars, countVars, responseVars
    <2> QED
      BY <2>1, <2>2, <2>3 DEF IInv, TypeOK
  <1> QED
    BY <1>1, <1>2 DEF FinishEof

LEMMA StutterKeeps == IInv /\ UNCHANGED vars => IInv'
  <1> SUFFICES ASSUME IInv, UNCHANGED vars PROVE IInv'
    OBVIOUS
  <1>1. PositionOK'
    BY SMT DEF IInv, TypeOK, PositionOK, vars
  <1>2. KeptOK'
    BY Zenon DEF IInv, TypeOK, KeptOK, vars, lineVars, countVars, responseVars
  <1>3. WithinLimits' /\ LineInv'
    BY SMT DEF IInv, WithinLimits, LineInv, Fits, Section, vars, lineVars, countVars,
               responseVars
  <1> QED
    BY <1>1, <1>2, <1>3 DEF IInv, TypeOK

-----------------------------------------------------------------------------
(* Theorems *)

\* IInv is inductive: no turn of feed(), read_line() or finish_eof() breaks it.
THEOREM Inductive == IInv /\ [Next]_vars => IInv'
  <1> SUFFICES ASSUME IInv, [Next]_vars PROVE IInv'
    OBVIOUS
  <1>1. ASSUME NEW n \in 1 .. MaxSegment, Feed(n) PROVE IInv'
    <2>1. n \in Nat
      BY WiresAssumption, SMT
    <2> QED
      BY <1>1, <2>1, FeedKeeps
  <1>2. CASE UNCHANGED vars
    BY <1>2, StutterKeeps
  <1> QED
    BY <1>1, <1>2, ReadByteKeeps, WrongEndingKeeps, ParseStatusLineKeeps,
       ParseFieldKeeps, RefuseHeadKeeps, InformationalKeeps, HeadCompletesKeeps,
       BodyFollowsKeeps, FixedBodyKeeps, CloseBodyKeeps, ChunkSizeKeeps, ChunkDataKeeps,
       ChunkTerminatorKeeps, ParseTrailerKeeps, TrailersEndKeeps, FinishEofKeeps
    DEF Next

\* The parser never consumes what it has not been fed, and a state that counts
\* bytes of the body or of a chunk's terminator has some left (feed() subtracts
\* unsigned integers).
THEOREM TypeCorrect == Spec => []TypeOK
  <1>1. IInv => TypeOK
    BY DEF IInv
  <1> QED
    BY <1>1, InitInv, Inductive, PTL DEF Spec

\* Whatever limits the caller has set, whatever the peer sends and however the
\* bytes arrive, what the parser keeps and has agreed to read is within them.
THEOREM LimitsHold == Spec => []WithinLimits
  <1>1. IInv => WithinLimits
    BY DEF IInv
  <1> QED
    BY <1>1, InitInv, Inductive, PTL DEF Spec

-----------------------------------------------------------------------------
(* What the grammar defines, place by place *)

\* A line is text of the wire and ends after its beginning.
LEMMA LineTyped ==
  ASSUME NEW w \in Seq(Bytes), NEW j \in 1 .. Len(w) + 1, NEW ln \in LineAt(w, j)
  PROVE  /\ ln.text \in Seq(Bytes)
         /\ ln.next \in 1 .. Len(w) + 1 /\ ln.next > j
<1>1. PICK e \in j .. Len(w) - 1 : ln = [text |-> SubSeq(w, j, e - 1), next |-> e + 2]
  BY Zenon DEF LineAt
<1>2. Len(w) \in Nat
  BY LenProperties
<1>3. SubSeq(w, j, e - 1) \in Seq(Bytes)
  <2>1. \A k \in j .. e - 1 : k \in 1 .. Len(w)
    BY <1>2, SMT
  <2>2. \A k \in j .. e - 1 : w[k] \in Bytes
    BY <2>1, ElementOfSeq
  <2>3. j \in Int /\ e - 1 \in Int
    BY <1>2, SMT
  <2> QED
    BY <2>2, <2>3, SubSeqProperties
<1> QED
  BY <1>1, <1>2, <1>3, SMT

\* What may begin at a place: lines up to an empty one.
Blocks == SUBSET [lines : Seq(Seq(Bytes)), next : Nat]

\* The blocks at j, in terms of those at later places.
BlocksBy(g, ln) ==
  IF ln.text = << >> THEN {[lines |-> << >>, next |-> ln.next]}
  ELSE {[lines |-> << ln.text >> \o rest.lines, next |-> rest.next] :
          rest \in g[ln.next]}
BlockStep(w, g, j) == UNION {BlocksBy(g, ln) : ln \in LineAt(w, j)}

\* The blocks of the grammar are the values of such a function: each is defined
\* by those at later places, so there is one (FixedPoint).
LEMMA BlockIs ==
  ASSUME NEW w \in Seq(Bytes)
  PROVE  \E g : /\ g = [j \in 1 .. Len(w) + 1 |-> BlockStep(w, g, j)]
                /\ \A i : BlockAt(w, i) = g[i]
<1> DEFINE D == 1 .. Len(w) + 1
           F == [g \in [D -> Blocks] |-> [j \in D |-> BlockStep(w, g, j)]]
           pos == [j \in D |-> j]
<1>1. Len(w) \in Nat
  BY LenProperties
<1>2. ASSUME NEW g \in [D -> Blocks], NEW j \in D PROVE BlockStep(w, g, j) \in Blocks
  <2> SUFFICES ASSUME NEW ln \in LineAt(w, j)
               PROVE  BlocksBy(g, ln) \in Blocks
    BY Zenon DEF BlockStep, Blocks
  <2>1. ln.text \in Seq(Bytes) /\ ln.next \in D
    BY LineTyped
  <2>2. ln.next \in Nat
    BY <1>1, <2>1
  <2>3. CASE ln.text = << >>
    <3>1. << >> \in Seq(Seq(Bytes))
      BY EmptySeq
    <3> QED
      BY <2>2, <2>3, <3>1 DEF Blocks, BlocksBy
  <2>4. CASE ln.text # << >>
    <3>1. g[ln.next] \in Blocks
      BY <2>1
    <3>2. << ln.text >> \in Seq(Seq(Bytes))
      BY <2>1
    <3>3. \A rest \in g[ln.next] : /\ << ln.text >> \o rest.lines \in Seq(Seq(Bytes))
                                   /\ rest.next \in Nat
      BY <3>1, <3>2, ConcatProperties DEF Blocks
    <3>4. \A rest \in g[ln.next] :
            [lines |-> << ln.text >> \o rest.lines, next |-> rest.next]
              \in [lines : Seq(Seq(Bytes)), next : Nat]
      BY <3>3
    <3> QED
      BY <2>4, <3>4, Zenon DEF Blocks, BlocksBy
  <2> QED
    BY <2>3, <2>4
<1>3. F \in [[D -> Blocks] -> [D -> Blocks]]
  BY <1>2
<1>4. ASSUME NEW g \in [D -> Blocks], NEW h \in [D -> Blocks], NEW j \in D,
             \A e \in D : pos[e] > pos[j] => g[e] = h[e]
      PROVE  F[g][j] = F[h][j]
  <2>1. \A ln \in LineAt(w, j) : g[ln.next] = h[ln.next]
    BY <1>4, LineTyped
  <2>2. \A ln \in LineAt(w, j) : BlocksBy(g, ln) = BlocksBy(h, ln)
    BY <2>1 DEF BlocksBy
  <2>3. BlockStep(w, g, j) = BlockStep(w, h, j)
    BY <2>2 DEF BlockStep
  <2> QED
    BY <2>3
<1>5. LooksAhead(F, D, Blocks, Len(w) + 1, pos)
  <2>1. pos \in [D -> 0 .. Len(w) + 1] /\ Len(w) + 1 \in Nat
    BY <1>1, SMT
  <2>2. \A g, h \in [D -> Blocks], j \in D :
          (\A e \in D : pos[e] > pos[j] => g[e] = h[e]) => F[g][j] = F[h][j]
    BY <1>4
  <2> HIDE DEF F, pos, D
  <2> QED
    BY <1>3, <2>1, <2>2 DEF LooksAhead
<1>6. PICK f \in [D -> Blocks] : F[f] = f
  <2>1. Blocks # {}
    BY DEF Blocks
  <2> HIDE DEF F, pos, D
  <2>2. HasFixedPoint(F, D, Blocks)
    BY <1>5, <2>1, FixedPoint
  <2> QED
    BY <2>2 DEF HasFixedPoint
<1>7. f = [j \in D |-> BlockStep(w, f, j)]
  BY <1>6 DEF F
<1> DEFINE b == CHOOSE block : block = [j \in D |-> BlockStep(w, block, j)]
<1>8. b = [j \in D |-> BlockStep(w, b, j)]
  BY <1>7, Zenon
<1>9. \A i : BlockAt(w, i) = b[i]
  BY Zenon DEF BlockAt, BlockStep, BlocksBy
<1> QED
  BY <1>8, <1>9, Zenon

\* The blocks that begin with the line ln.
BlocksAfter(w, ln) ==
  IF ln.text = << >> THEN {[lines |-> << >>, next |-> ln.next]}
  ELSE {[lines |-> << ln.text >> \o rest.lines, next |-> rest.next] :
          rest \in BlockAt(w, ln.next)}

\* A block is a line and, unless that is empty, a block after it.
LEMMA BlockEquation ==
  ASSUME NEW w \in Seq(Bytes), NEW i \in 1 .. Len(w) + 1
  PROVE  BlockAt(w, i) = UNION {BlocksAfter(w, ln) : ln \in LineAt(w, i)}
<1>1. PICK g : /\ g = [j \in 1 .. Len(w) + 1 |-> BlockStep(w, g, j)]
               /\ \A j : BlockAt(w, j) = g[j]
  BY BlockIs
<1>2. g[i] = BlockStep(w, g, i)
  BY <1>1
<1>3. \A ln : BlocksBy(g, ln) = BlocksAfter(w, ln)
  BY <1>1, Zenon DEF BlocksBy, BlocksAfter
<1> QED
  BY <1>1, <1>2, <1>3, Zenon DEF BlockStep

\* The lines of a block have text, and it ends after its beginning.
IsBlock(w, i, b) ==
  /\ b.lines \in Seq(Seq(Bytes))
  /\ \A k \in 1 .. Len(b.lines) : b.lines[k] # << >>
  /\ b.next \in 1 .. Len(w) + 1 /\ b.next > i
  /\ b = [lines |-> b.lines, next |-> b.next]

\* Every block of the grammar is one.
LEMMA BlockTyped ==
  ASSUME NEW w \in Seq(Bytes)
  PROVE  \A i \in 1 .. Len(w) + 1 : \A b \in BlockAt(w, i) : IsBlock(w, i, b)
<1> DEFINE S == {i \in 1 .. Len(w) + 1 : \A b \in BlockAt(w, i) : IsBlock(w, i, b)}
<1>1. Len(w) \in Nat /\ Len(w) + 1 \in Nat
  BY LenProperties
<1>2. ASSUME NEW i \in 1 .. Len(w) + 1, \A j \in 1 .. Len(w) + 1 : j > i => j \in S
      PROVE  i \in S
  <2> SUFFICES ASSUME NEW b \in BlockAt(w, i) PROVE IsBlock(w, i, b)
    OBVIOUS
  <2>1. PICK ln \in LineAt(w, i) :
          b \in BlocksAfter(w, ln)
    BY BlockEquation
  <2>2. ln.text \in Seq(Bytes) /\ ln.next \in 1 .. Len(w) + 1 /\ ln.next > i
    BY LineTyped
  <2>3. CASE ln.text = << >>
    <3>1. b = [lines |-> << >>, next |-> ln.next]
      BY <2>1, <2>3 DEF BlocksAfter
    <3>2. b.lines = << >> /\ b.next = ln.next /\ b = [lines |-> b.lines, next |-> b.next]
      BY <3>1
    <3>3. << >> \in Seq(Seq(Bytes)) /\ \A k \in 1 .. Len(<< >>) : FALSE
      BY EmptySeq, SMT
    <3> QED
      BY <2>2, <3>2, <3>3, Zenon DEF IsBlock
  <2>4. CASE ln.text # << >>
    <3>1. PICK rest \in BlockAt(w, ln.next) :
            b = [lines |-> << ln.text >> \o rest.lines, next |-> rest.next]
      BY <2>1, <2>4 DEF BlocksAfter
    <3>2. IsBlock(w, ln.next, rest)
      BY <1>2, <2>2
    <3>3. b.lines = << ln.text >> \o rest.lines /\ b.next = rest.next
          /\ b = [lines |-> b.lines, next |-> b.next]
      BY <3>1
    <3>4. rest.lines \in Seq(Seq(Bytes)) /\ << ln.text >> \in Seq(Seq(Bytes))
          /\ Len(<< ln.text >>) = 1 /\ << ln.text >>[1] = ln.text
      BY <2>2, <3>2 DEF IsBlock
    <3>5. /\ b.lines \in Seq(Seq(Bytes)) /\ Len(b.lines) = 1 + Len(rest.lines)
          /\ \A k \in 1 .. Len(b.lines) :
               b.lines[k] = IF k <= 1 THEN << ln.text >>[k] ELSE rest.lines[k - 1]
      BY <3>3, <3>4, ConcatProperties
    <3>6. \A k \in 1 .. Len(b.lines) : b.lines[k] # << >>
      <4>1. Len(rest.lines) \in Nat
        BY <3>4, LenProperties
      <4> SUFFICES ASSUME NEW k \in 1 .. Len(b.lines) PROVE b.lines[k] # << >>
        OBVIOUS
      <4>2. CASE k = 1
        BY <2>4, <3>4, <3>5, <4>2
      <4>3. CASE k # 1
        <5>1. ~(k <= 1) /\ k - 1 \in 1 .. Len(rest.lines)
          BY <3>5, <4>1, <4>3, SMT
        <5> QED
          BY <3>2, <3>5, <5>1 DEF IsBlock
      <4> QED
        BY <4>2, <4>3
    <3>7. b.next \in 1 .. Len(w) + 1 /\ b.next > i
      BY <1>1, <2>2, <3>2, <3>3, SMT DEF IsBlock
    <3> QED
      BY <3>3, <3>5, <3>6, <3>7 DEF IsBlock
  <2> QED
    BY <2>3, <2>4
<1> HIDE DEF S
<1>3. \A i \in 1 .. Len(w) + 1 : i \in S
  BY <1>1, <1>2, Backwards
<1> QED
  BY <1>3 DEF S

-----------------------------------------------------------------------------
(* Chunks *)

\* A chunk's size line ends after its beginning and says a size.
LEMMA SizeTyped ==
  ASSUME NEW w \in Seq(Bytes), NEW j \in 1 .. Len(w) + 1, NEW ln \in SizeAt(w, j)
  PROVE  /\ ln.next \in 1 .. Len(w) + 1 /\ ln.next > j
         /\ ln.text[1].n \in Nat
<1>1. ln \in LineAt(w, j) /\ ln.text # << >>
  BY DEF SizeAt
<1>2. ln.text \in Seq(Bytes) /\ ln.next \in 1 .. Len(w) + 1 /\ ln.next > j
  BY <1>1, LineTyped
<1>3. 1 \in 1 .. Len(ln.text)
  BY <1>1, <1>2, EmptySeq, LenProperties, SMT
<1>4. ln.text[1] \in Bytes
  BY <1>2, <1>3, ElementOfSeq
<1> QED
  BY <1>2, <1>4, SMT DEF Bytes

\* A piece of the wire is bytes.
LEMMA PieceTyped ==
  ASSUME NEW w \in Seq(Bytes), NEW i \in Nat \ {0}, NEW n \in Int, n <= Len(w)
  PROVE  SubSeq(w, i, n) \in Seq(Bytes)
<1>1. Len(w) \in Nat
  BY LenProperties
<1>2. \A k \in i .. n : k \in 1 .. Len(w)
  BY <1>1, SMT
<1>3. \A k \in i .. n : w[k] \in Bytes
  BY <1>2, ElementOfSeq
<1>4. i \in Int /\ n \in Int
  BY SMT
<1> QED
  BY <1>3, <1>4, SubSeqProperties

\* What follows the chunk at i, of the size that its line says.
ChunksBy(w, g, i, size) ==
  IF size = 0 THEN {[body |-> << >>, next |-> t.next] : t \in TrailerAt(w, i)}
  ELSE IF IsChunk(w, i, size)
    THEN {[body |-> SubSeq(w, i, i + size - 1) \o r.body, next |-> r.next] :
            r \in g[i + size + 2]}
  ELSE {}
ChunkStep(w, g, j) ==
  UNION {ChunksBy(w, g, ln.next, ln.text[1].n) : ln \in SizeAt(w, j)}

\* What may begin at a place: a body, with where what follows it begins.
Chunks == SUBSET [body : Seq(Bytes), next : Nat]

\* A chunk is within the wire, and so is where the next begins.
LEMMA ChunkPlace ==
  ASSUME NEW w \in Seq(Bytes), NEW i \in 1 .. Len(w) + 1, NEW size \in Nat,
         IsChunk(w, i, size)
  PROVE  /\ i + size + 2 \in 1 .. Len(w) + 1 /\ i + size + 2 > i
         /\ SubSeq(w, i, i + size - 1) \in Seq(Bytes)
<1>1. Len(w) \in Nat /\ i + size < Len(w)
  BY LenProperties DEF IsChunk
<1>2. i \in Nat \ {0} /\ i + size - 1 \in Int /\ i + size - 1 <= Len(w)
  BY <1>1, SMT
<1>3. SubSeq(w, i, i + size - 1) \in Seq(Bytes)
  BY <1>2, PieceTyped
<1> QED
  BY <1>1, <1>3, SMT

\* The chunks of the grammar are the values of such a function.
LEMMA ChunkIs ==
  ASSUME NEW w \in Seq(Bytes)
  PROVE  \E g : /\ g = [j \in 1 .. Len(w) + 1 |-> ChunkStep(w, g, j)]
                /\ \A i : ChunksFrom(w, i) = g[i]
<1> DEFINE D == 1 .. Len(w) + 1
           F == [g \in [D -> Chunks] |-> [j \in D |-> ChunkStep(w, g, j)]]
           pos == [j \in D |-> j]
<1>1. Len(w) \in Nat
  BY LenProperties
<1>2. ASSUME NEW g \in [D -> Chunks], NEW j \in D PROVE ChunkStep(w, g, j) \in Chunks
  <2> SUFFICES ASSUME NEW ln \in SizeAt(w, j)
               PROVE  ChunksBy(w, g, ln.next, ln.text[1].n) \in Chunks
    BY Zenon DEF ChunkStep, Chunks
  <2> DEFINE i == ln.next
             size == ln.text[1].n
  <2>1. i \in D /\ size \in Nat
    BY SizeTyped
  <2> SUFFICES ChunksBy(w, g, i, size) \in Chunks
    OBVIOUS
  <2> HIDE DEF i, size
  <2>2. CASE size = 0
    <3>1. ASSUME NEW t \in TrailerAt(w, i)
          PROVE  [body |-> << >>, next |-> t.next] \in [body : Seq(Bytes), next : Nat]
      <4>1. t \in BlockAt(w, i)
        BY DEF TrailerAt
      <4>2. t.next \in 1 .. Len(w) + 1
        BY <2>1, <4>1, BlockTyped DEF IsBlock
      <4>3. t.next \in Nat /\ << >> \in Seq(Bytes)
        BY <1>1, <4>2, EmptySeq, SMT
      <4> QED
        BY <4>3
    <3>2. ChunksBy(w, g, i, size) = {[body |-> << >>, next |-> t.next] : t \in TrailerAt(w, i)}
      BY <2>2, Zenon DEF ChunksBy
    <3> QED
      BY <3>1, <3>2 DEF Chunks
  <2>3. CASE size # 0 /\ IsChunk(w, i, size)
    <3>1. g[i + size + 2] \in Chunks /\ SubSeq(w, i, i + size - 1) \in Seq(Bytes)
      BY <2>1, <2>3, ChunkPlace
    <3>2. \A r \in g[i + size + 2] :
            [body |-> SubSeq(w, i, i + size - 1) \o r.body, next |-> r.next]
              \in [body : Seq(Bytes), next : Nat]
      <4> SUFFICES ASSUME NEW r \in g[i + size + 2]
                   PROVE  /\ SubSeq(w, i, i + size - 1) \o r.body \in Seq(Bytes)
                          /\ r.next \in Nat
        OBVIOUS
      <4>1. r.body \in Seq(Bytes) /\ r.next \in Nat
        BY <3>1 DEF Chunks
      <4> QED
        BY <3>1, <4>1, ConcatProperties
    <3>3. ChunksBy(w, g, i, size) =
            {[body |-> SubSeq(w, i, i + size - 1) \o r.body, next |-> r.next] :
               r \in g[i + size + 2]}
      BY <2>3, Zenon DEF ChunksBy
    <3> QED
      BY <3>2, <3>3 DEF Chunks
  <2>4. CASE size # 0 /\ ~IsChunk(w, i, size)
    <3>1. ChunksBy(w, g, i, size) = {}
      BY <2>4, Zenon DEF ChunksBy
    <3> QED
      BY <3>1 DEF Chunks
  <2> QED
    BY <2>2, <2>3, <2>4
<1>3. F \in [[D -> Chunks] -> [D -> Chunks]]
  BY <1>2
<1>4. ASSUME NEW g \in [D -> Chunks], NEW h \in [D -> Chunks], NEW j \in D,
             \A e \in D : pos[e] > pos[j] => g[e] = h[e]
      PROVE  F[g][j] = F[h][j]
  <2>1. ASSUME NEW ln \in SizeAt(w, j)
        PROVE  ChunksBy(w, g, ln.next, ln.text[1].n)
                 = ChunksBy(w, h, ln.next, ln.text[1].n)
    <3> DEFINE i == ln.next
               size == ln.text[1].n
    <3>1. i \in D /\ i > j /\ size \in Nat
      BY SizeTyped
    <3> HIDE DEF i, size
    <3>2. ASSUME IsChunk(w, i, size) PROVE g[i + size + 2] = h[i + size + 2]
      <4>1. i + size + 2 \in D /\ i + size + 2 > i
        BY <3>1, <3>2, ChunkPlace
      <4>2. i + size + 2 > j
        BY <3>1, <4>1, SMT
      <4> QED
        BY <1>4, <4>1, <4>2
    <3>3. ChunksBy(w, g, i, size) = ChunksBy(w, h, i, size)
      BY <3>2, Zenon DEF ChunksBy
    <3> QED
      BY <3>3 DEF i, size
  <2>2. ChunkStep(w, g, j) = ChunkStep(w, h, j)
    BY <2>1, Zenon DEF ChunkStep
  <2> QED
    BY <2>2
<1>5. LooksAhead(F, D, Chunks, Len(w) + 1, pos)
  <2>1. pos \in [D -> 0 .. Len(w) + 1] /\ Len(w) + 1 \in Nat
    BY <1>1, SMT
  <2>2. \A g, h \in [D -> Chunks], j \in D :
          (\A e \in D : pos[e] > pos[j] => g[e] = h[e]) => F[g][j] = F[h][j]
    BY <1>4
  <2> HIDE DEF F, pos, D
  <2> QED
    BY <1>3, <2>1, <2>2 DEF LooksAhead
<1>6. PICK f \in [D -> Chunks] : F[f] = f
  <2>1. Chunks # {}
    BY DEF Chunks
  <2> HIDE DEF F, pos, D
  <2>2. HasFixedPoint(F, D, Chunks)
    BY <1>5, <2>1, FixedPoint
  <2> QED
    BY <2>2 DEF HasFixedPoint
<1>7. f = [j \in D |-> ChunkStep(w, f, j)]
  BY <1>6 DEF F
<1> DEFINE b == CHOOSE chunks : chunks = [j \in D |-> ChunkStep(w, chunks, j)]
<1>8. b = [j \in D |-> ChunkStep(w, b, j)]
  BY <1>7, Zenon
<1>9. \A i : ChunksFrom(w, i) = b[i]
  BY Zenon DEF ChunksFrom, ChunkStep, ChunksBy
<1> QED
  BY <1>8, <1>9, Zenon

-----------------------------------------------------------------------------
(* Messages *)

\* What follows the head at i, after k informational ones.
AfterHead(w, sem, g, head, k) ==
  IF Status(head) \notin 100 .. 199 THEN FinalOf(w, head, sem)
  ELSE IF Status(head) = 101 \/ IsFramed(head) \/ k = MaxInformational
    THEN {} ELSE g[head.next][k + 1]
MessageStep(w, sem, g, i) ==
  [k \in 0 .. MaxInformational |->
     UNION {AfterHead(w, sem, g, head, k) : head \in HeadAt(w, i)}]

\* Every final response that can begin at i, and anywhere.
FinalsAt(w, sem, i) == UNION {FinalOf(w, head, sem) : head \in HeadAt(w, i)}
Finals(w, sem) == UNION {FinalsAt(w, sem, i) : i \in 1 .. Len(w) + 1}

\* The messages of the grammar are the values of such a function, on places and
\* counts of informational responses.
LEMMA MessageIs ==
  ASSUME NEW w \in Seq(Bytes), NEW sem
  PROVE  \E g : /\ g = [i \in 1 .. Len(w) + 1 |-> MessageStep(w, sem, g, i)]
                /\ \A i, k : MessageFrom(w, sem, i, k) = g[i][k]
<1> DEFINE D == 1 .. Len(w) + 1
           V == [0 .. MaxInformational -> SUBSET Finals(w, sem)]
           F == [g \in [D -> V] |-> [i \in D |-> MessageStep(w, sem, g, i)]]
           pos == [i \in D |-> i]
<1>1. Len(w) \in Nat /\ MaxInformational \in Nat
  BY LenProperties, LimitsAssumption
<1>2. ASSUME NEW g \in [D -> V], NEW i \in D PROVE MessageStep(w, sem, g, i) \in V
  <2> SUFFICES ASSUME NEW k \in 0 .. MaxInformational, NEW head \in HeadAt(w, i)
               PROVE  AfterHead(w, sem, g, head, k) \in SUBSET Finals(w, sem)
    BY Zenon DEF MessageStep
  <2>1. head.next \in D
    BY BlockTyped DEF HeadAt, IsBlock
  <2>2. FinalOf(w, head, sem) \in SUBSET Finals(w, sem)
    <3>1. \A x : x \in FinalOf(w, head, sem) => x \in Finals(w, sem)
      <4>1. \A x : x \in FinalOf(w, head, sem) => x \in FinalsAt(w, sem, i)
        BY Zenon DEF FinalsAt
      <4> QED
        BY <4>1, Zenon DEF Finals
    <3> QED
      BY <3>1
  <2>3. k # MaxInformational => k + 1 \in 0 .. MaxInformational
    BY <1>1, SMT
  <2>4. k # MaxInformational => g[head.next][k + 1] \in SUBSET Finals(w, sem)
    BY <2>1, <2>3
  <2> QED
    BY <2>2, <2>4 DEF AfterHead
<1>3. F \in [[D -> V] -> [D -> V]]
  <2> HIDE DEF V
  <2> QED
    BY <1>2
<1>4. ASSUME NEW g \in [D -> V], NEW h \in [D -> V], NEW i \in D,
             \A e \in D : pos[e] > pos[i] => g[e] = h[e]
      PROVE  F[g][i] = F[h][i]
  <2>1. \A head \in HeadAt(w, i) : g[head.next] = h[head.next]
    BY <1>4, BlockTyped DEF HeadAt, IsBlock
  <2>2. \A head \in HeadAt(w, i) : \A k :
          AfterHead(w, sem, g, head, k) = AfterHead(w, sem, h, head, k)
    BY <2>1, Zenon DEF AfterHead
  <2>3. MessageStep(w, sem, g, i) = MessageStep(w, sem, h, i)
    <3>1. \A k : UNION {AfterHead(w, sem, g, head, k) : head \in HeadAt(w, i)}
                   = UNION {AfterHead(w, sem, h, head, k) : head \in HeadAt(w, i)}
      BY <2>2, Zenon
    <3> QED
      BY <3>1, Zenon DEF MessageStep
  <2> HIDE DEF V
  <2> QED
    BY <2>3
<1>5. LooksAhead(F, D, V, Len(w) + 1, pos)
  <2>1. pos \in [D -> 0 .. Len(w) + 1] /\ Len(w) + 1 \in Nat
    BY <1>1, SMT
  <2>2. \A g, h \in [D -> V], i \in D :
          (\A e \in D : pos[e] > pos[i] => g[e] = h[e]) => F[g][i] = F[h][i]
    BY <1>4
  <2> HIDE DEF F, pos, D, V
  <2> QED
    BY <1>3, <2>1, <2>2 DEF LooksAhead
<1>6. PICK f \in [D -> V] : F[f] = f
  <2>1. V # {}
    <3>1. [k \in 0 .. MaxInformational |-> {}] \in V
      OBVIOUS
    <3> QED
      BY <3>1
  <2> HIDE DEF F, pos, D, V
  <2>2. HasFixedPoint(F, D, V)
    BY <1>5, <2>1, FixedPoint
  <2> QED
    BY <2>2 DEF HasFixedPoint
<1>7. f = [i \in D |-> MessageStep(w, sem, f, i)]
  <2> HIDE DEF V
  <2> QED
    BY <1>6 DEF F
<1> DEFINE b == CHOOSE from : from = [i \in D |-> MessageStep(w, sem, from, i)]
<1>8. b = [i \in D |-> MessageStep(w, sem, b, i)]
  BY <1>7, Zenon
<1>9. \A i, k : MessageFrom(w, sem, i, k) = b[i][k]
  BY Zenon DEF MessageFrom, MessageStep, AfterHead
<1> QED
  BY <1>8, <1>9, Zenon

-----------------------------------------------------------------------------
(* Lines *)

\* From p to before q there is no line ending.
Plain(w, p, q) == \A k \in p .. q - 1 : w[k] \notin {CR, LF}

\* The two characters of a line ending are not the same.
LEMMA Endings == CR # LF
  BY SMT DEF CR, LF, Byte

\* The line at p is the text there, up to the first line ending.
LEMMA LineIs ==
  ASSUME NEW w \in Seq(Bytes), NEW p \in 1 .. Len(w) + 1, NEW e \in p .. Len(w) - 1,
         Plain(w, p, e), w[e] = CR, w[e + 1] = LF, e - p <= MaxLine
  PROVE  LineAt(w, p) = {[text |-> SubSeq(w, p, e - 1), next |-> e + 2]}
<1>1. Len(w) \in Nat
  BY LenProperties
<1>2. IsLine(w, p, e)
  BY DEF IsLine, Plain
<1>3. ASSUME NEW k \in p .. Len(w) - 1, IsLine(w, p, k) PROVE k = e
  <2>1. CASE k < e
    <3>1. k \in p .. e - 1
      BY <1>1, <2>1, SMT
    <3> QED
      BY <1>3, <3>1 DEF IsLine, Plain
  <2>2. CASE e < k
    <3>1. e \in p .. k - 1
      BY <1>1, <2>2, SMT
    <3> QED
      BY <1>3, <3>1 DEF IsLine
  <2> QED
    BY <1>1, <2>1, <2>2, SMT
<1>4. \A k : k \in {m \in p .. Len(w) - 1 : IsLine(w, p, m)} <=> k = e
  BY <1>2, <1>3
<1> QED
  BY <1>4 DEF LineAt

\* Where there is none: the text is cut off by the end of w, or ends otherwise
\* than with both characters of a line ending, or is too long.
LEMMA NoLine ==
  ASSUME NEW w \in Seq(Bytes), NEW p \in 1 .. Len(w) + 1, NEW q \in p .. Len(w) + 1,
         Plain(w, p, q),
         \/ q = Len(w) + 1
         \/ q = Len(w) /\ w[q] = CR
         \/ w[q] = LF
         \/ w[q] = CR /\ w[q + 1] # LF
         \/ q - p > MaxLine
  PROVE  LineAt(w, p) = {}
<1>1. Len(w) \in Nat /\ MaxLine \in Nat
  BY LenProperties, LimitsAssumption
<1> SUFFICES ASSUME NEW e \in p .. Len(w) - 1, IsLine(w, p, e) PROVE FALSE
  BY DEF LineAt
<1>2. ~(e < q)
  <2> SUFFICES ASSUME e < q PROVE FALSE
    OBVIOUS
  <2>1. e \in p .. q - 1
    BY <1>1, SMT
  <2> QED
    BY <2>1 DEF IsLine, Plain
<1>3. CASE q < e
  <2>1. q \in p .. e - 1
    BY <1>1, <1>3, SMT
  <2>2. w[q] \notin {CR, LF}
    BY <2>1 DEF IsLine
  <2>3. q # Len(w) + 1 /\ q # Len(w) /\ e - p <= MaxLine
    BY <1>1, <1>3, SMT DEF IsLine
  <2>4. ~(q - p > MaxLine)
    BY <1>1, <1>3, <2>3, SMT
  <2> QED
    BY <2>2, <2>3, <2>4
<1>4. CASE q = e
  <2>1. q # Len(w) + 1 /\ q # Len(w) /\ ~(q - p > MaxLine)
    BY <1>1, <1>4, SMT DEF IsLine
  <2> QED
    BY <1>4, <2>1, Endings DEF IsLine
<1> QED
  BY <1>1, <1>2, <1>3, <1>4, SMT

\* A line ends after all that is plain.
LEMMA LinePast ==
  ASSUME NEW w \in Seq(Bytes), NEW p \in 1 .. Len(w) + 1, NEW q \in p .. Len(w) + 1,
         Plain(w, p, q), NEW ln \in LineAt(w, p)
  PROVE  ln.next >= q + 2
<1>1. PICK e \in p .. Len(w) - 1 : IsLine(w, p, e) /\ ln.next = e + 2
  <2>1. PICK e \in {k \in p .. Len(w) - 1 : IsLine(w, p, k)} :
          ln = [text |-> SubSeq(w, p, e - 1), next |-> e + 2]
    BY Zenon DEF LineAt
  <2> QED
    BY <2>1
<1>2. Len(w) \in Nat
  BY LenProperties
<1>3. ~(e < q)
  <2> SUFFICES ASSUME e < q PROVE FALSE
    OBVIOUS
  <2>1. e \in p .. q - 1
    BY <1>2, SMT
  <2> QED
    BY <1>1, <2>1 DEF IsLine, Plain
<1> QED
  BY <1>1, <1>2, <1>3, SMT

-----------------------------------------------------------------------------
(* Blocks, line by line *)

\* The blocks that begin with lines, and go on with one of these.
Prefixed(lines, blocks) ==
  {[lines |-> lines \o rest.lines, next |-> rest.next] : rest \in blocks}

\* A block goes on, after no line of it, with itself.
LEMMA BlockBegins ==
  ASSUME NEW w \in Seq(Bytes), NEW i \in 1 .. Len(w) + 1
  PROVE  BlockAt(w, i) = Prefixed(<< >>, BlockAt(w, i))
<1>1. ASSUME NEW b \in BlockAt(w, i)
      PROVE  b = [lines |-> << >> \o b.lines, next |-> b.next]
  <2>1. b.lines \in Seq(Seq(Bytes)) /\ b = [lines |-> b.lines, next |-> b.next]
    BY BlockTyped DEF IsBlock
  <2>2. << >> \o b.lines = b.lines
    BY <2>1, ConcatEmptySeq
  <2> QED
    BY <2>1, <2>2
<1> QED
  BY <1>1 DEF Prefixed

\* No block where there is no line.
LEMMA BlockWithoutLine ==
  ASSUME NEW w \in Seq(Bytes), NEW i \in 1 .. Len(w) + 1, LineAt(w, i) = {}
  PROVE  BlockAt(w, i) = {}
<1>1. BlockAt(w, i) = UNION {BlocksAfter(w, ln) : ln \in LineAt(w, i)}
  BY BlockEquation
<1> QED
  BY <1>1

\* A block by the line it begins with.
LEMMA LineBlocks ==
  ASSUME NEW w \in Seq(Bytes), NEW i \in 1 .. Len(w) + 1, NEW ln, LineAt(w, i) = {ln}
  PROVE  BlockAt(w, i) = BlocksAfter(w, ln)
<1>1. BlockAt(w, i) = UNION {BlocksAfter(w, l) : l \in LineAt(w, i)}
  BY BlockEquation
<1> QED
  BY <1>1

LEMMA BlockOfLine ==
  ASSUME NEW w \in Seq(Bytes), NEW i \in 1 .. Len(w) + 1, NEW text, NEW q,
         LineAt(w, i) = {[text |-> text, next |-> q]}
  PROVE  BlockAt(w, i) = IF text = << >> THEN {[lines |-> << >>, next |-> q]}
                         ELSE Prefixed(<< text >>, BlockAt(w, q))
<1> DEFINE ln == [text |-> text, next |-> q]
<1>1. ln.text = text /\ ln.next = q
  OBVIOUS
<1> HIDE DEF ln
<1>2. LineAt(w, i) = {ln}
  BY DEF ln
<1>3. BlockAt(w, i) = BlocksAfter(w, ln)
  BY <1>2, LineBlocks
<1> QED
  BY <1>1, <1>3, Zenon DEF BlocksAfter, Prefixed

\* Concatenation is associative.
LEMMA Regrouped ==
  ASSUME NEW S, NEW s \in Seq(S), NEW t \in Seq(S), NEW u \in Seq(S)
  PROVE  s \o (t \o u) = (s \o t) \o u
  BY ConcatAssociative, SMT

LEMMA LinesRegrouped ==
  \A s, t, u \in Seq(Seq(Bytes)) : s \o (t \o u) = (s \o t) \o u
  BY Regrouped

\* The lines so far, with what follows the next one.
LEMMA BlockGoesOn ==
  ASSUME NEW w \in Seq(Bytes), NEW h \in 1 .. Len(w) + 1, NEW p \in 1 .. Len(w) + 1,
         NEW lines \in Seq(Seq(Bytes)), NEW text \in Seq(Bytes),
         NEW q \in 1 .. Len(w) + 1,
         BlockAt(w, h) = Prefixed(lines, BlockAt(w, p)),
         LineAt(w, p) = {[text |-> text, next |-> q]}
  PROVE  BlockAt(w, h) = IF text = << >> THEN {[lines |-> lines, next |-> q]}
                         ELSE Prefixed(Append(lines, text), BlockAt(w, q))
<1>0. BlockAt(w, p) = IF text = << >> THEN {[lines |-> << >>, next |-> q]}
                      ELSE Prefixed(<< text >>, BlockAt(w, q))
  <2> DEFINE ln == [text |-> text, next |-> q]
  <2>1. ln.text = text /\ ln.next = q
    OBVIOUS
  <2> HIDE DEF ln
  <2>2. LineAt(w, p) = {ln}
    BY DEF ln
  <2>3. BlockAt(w, p) = BlocksAfter(w, ln)
    BY <2>2, LineBlocks
  <2> QED
    BY <2>1, <2>3 DEF BlocksAfter, Prefixed
<1>1. CASE text = << >>
  <2>1. BlockAt(w, p) = {[lines |-> << >>, next |-> q]}
    BY <1>0, <1>1
  <2> DEFINE r == [lines |-> << >>, next |-> q]
  <2>2. r.lines = << >> /\ r.next = q
    OBVIOUS
  <2>3. BlockAt(w, p) = {r}
    BY <2>1
  <2> HIDE DEF r
  <2>4. lines \o r.lines = lines
    BY <2>2, ConcatEmptySeq
  <2>5. Prefixed(lines, {r}) = {[lines |-> lines \o r.lines, next |-> r.next]}
    BY DEF Prefixed
  <2>6. BlockAt(w, h) = {[lines |-> lines, next |-> q]}
    BY <2>2, <2>3, <2>4, <2>5
  <2> QED
    BY <1>1, <2>6, Zenon
<1>2. CASE text # << >>
  <2>1. BlockAt(w, p) = Prefixed(<< text >>, BlockAt(w, q))
    BY <1>0, <1>2
  <2>2. ASSUME NEW r \in BlockAt(w, q)
        PROVE  lines \o (<< text >> \o r.lines) = Append(lines, text) \o r.lines
    <3>1. r.lines \in Seq(Seq(Bytes)) /\ << text >> \in Seq(Seq(Bytes))
      BY BlockTyped DEF IsBlock
    <3>2. lines \o << text >> = Append(lines, text)
      BY AppendIsConcat
    <3>3. lines \o (<< text >> \o r.lines) = (lines \o << text >>) \o r.lines
      <4> DEFINE S == Seq(Bytes)
                 one == << text >>
                 after == r.lines
      <4>1. lines \in Seq(S) /\ one \in Seq(S) /\ after \in Seq(S)
        BY <3>1
      <4> HIDE DEF S, one, after
      <4>2. \A s, t, u \in Seq(S) : s \o (t \o u) = (s \o t) \o u
        BY LinesRegrouped DEF S
      <4>3. lines \o (one \o after) = (lines \o one) \o after
        BY <4>1, <4>2, Zenon
      <4> QED
        BY <4>3 DEF one, after
    <3> QED
      BY <3>2, <3>3
  <2>3. ASSUME NEW b
        PROVE  b \in Prefixed(lines, Prefixed(<< text >>, BlockAt(w, q)))
                 <=> b \in Prefixed(Append(lines, text), BlockAt(w, q))
    <3> DEFINE Short(r) == [lines |-> << text >> \o r.lines, next |-> r.next]
               Long(r) == [lines |-> Append(lines, text) \o r.lines, next |-> r.next]
    <3>1. ASSUME NEW r \in BlockAt(w, q)
          PROVE  [lines |-> lines \o Short(r).lines, next |-> Short(r).next] = Long(r)
      BY <2>2
    <3>2. Prefixed(<< text >>, BlockAt(w, q)) = {Short(r) : r \in BlockAt(w, q)}
      BY DEF Prefixed
    <3>3. Prefixed(Append(lines, text), BlockAt(w, q)) = {Long(r) : r \in BlockAt(w, q)}
      BY DEF Prefixed
    <3> HIDE DEF Short, Long
    <3>4. b \in Prefixed(lines, {Short(r) : r \in BlockAt(w, q)})
            <=> \E r \in BlockAt(w, q) :
                  b = [lines |-> lines \o Short(r).lines, next |-> Short(r).next]
      BY Zenon DEF Prefixed
    <3>5. b \in {Long(r) : r \in BlockAt(w, q)} <=> \E r \in BlockAt(w, q) : b = Long(r)
      OBVIOUS
    <3> QED
      BY <3>1, <3>2, <3>3, <3>4, <3>5
  <2>4. Prefixed(lines, Prefixed(<< text >>, BlockAt(w, q)))
          = Prefixed(Append(lines, text), BlockAt(w, q))
    <3> DEFINE A == Prefixed(lines, Prefixed(<< text >>, BlockAt(w, q)))
               B == Prefixed(Append(lines, text), BlockAt(w, q))
    <3>1. \A b : b \in A <=> b \in B
      BY <2>3
    <3> HIDE DEF A, B
    <3>2. A = B
      BY <3>1
    <3> QED
      BY <3>2 DEF A, B
  <2> QED
    BY <1>2, <2>1, <2>4, Zenon
<1> QED
  BY <1>1, <1>2

\* Whatever the block, it begins with the lines so far and ends after the next.
LEMMA BlockPast ==
  ASSUME NEW w \in Seq(Bytes), NEW h \in 1 .. Len(w) + 1, NEW p \in 1 .. Len(w) + 1,
         NEW q \in p .. Len(w) + 1, NEW lines,
         BlockAt(w, h) = Prefixed(lines, BlockAt(w, p)), Plain(w, p, q)
  PROVE  \A b \in BlockAt(w, h) : b.next \in Nat /\ b.next >= q + 2
<1>1. Len(w) \in Nat
  BY LenProperties
<1> TAKE b \in BlockAt(w, h)
<1>2. PICK r \in BlockAt(w, p) : b.next = r.next
  BY DEF Prefixed
<1>3. PICK ln \in LineAt(w, p) : r \in BlocksAfter(w, ln)
  BY BlockEquation
<1>4. ln.next >= q + 2 /\ ln.next \in 1 .. Len(w) + 1
  BY LinePast, LineTyped
<1>5. CASE ln.text = << >>
  <2>1. r.next = ln.next
    BY <1>3, <1>5 DEF BlocksAfter
  <2> QED
    BY <1>1, <1>2, <1>4, <2>1, SMT
<1>6. CASE ln.text # << >>
  <2>1. PICK s \in BlockAt(w, ln.next) : r.next = s.next
    BY <1>3, <1>6 DEF BlocksAfter
  <2>2. s.next > ln.next /\ s.next \in 1 .. Len(w) + 1
    BY <1>4, BlockTyped DEF IsBlock
  <2> QED
    BY <1>1, <1>2, <1>4, <2>1, <2>2, SMT
<1> QED
  BY <1>5, <1>6

-----------------------------------------------------------------------------
(* The equations of chunks and of messages *)

\* The chunks of which the first, after its size line, begins at i.
ChunksOf(w, i, size) ==
  IF size = 0 THEN {[body |-> << >>, next |-> t.next] : t \in TrailerAt(w, i)}
  ELSE IF IsChunk(w, i, size)
    THEN {[body |-> SubSeq(w, i, i + size - 1) \o r.body, next |-> r.next] :
            r \in ChunksFrom(w, i + size + 2)}
  ELSE {}

\* Chunks are a size line and what it announces.
LEMMA ChunkEquation ==
  ASSUME NEW w \in Seq(Bytes), NEW i \in 1 .. Len(w) + 1
  PROVE  ChunksFrom(w, i)
           = UNION {ChunksOf(w, ln.next, ln.text[1].n) : ln \in SizeAt(w, i)}
<1>1. PICK g : /\ g = [j \in 1 .. Len(w) + 1 |-> ChunkStep(w, g, j)]
               /\ \A j : ChunksFrom(w, j) = g[j]
  BY ChunkIs
<1>2. g[i] = ChunkStep(w, g, i)
  BY <1>1
<1>3. \A j, size : ChunksBy(w, g, j, size) = ChunksOf(w, j, size)
  BY <1>1, Zenon DEF ChunksBy, ChunksOf
<1>4. ChunkStep(w, g, i)
        = UNION {ChunksOf(w, ln.next, ln.text[1].n) : ln \in SizeAt(w, i)}
  BY <1>3, Zenon DEF ChunkStep
<1> QED
  BY <1>1, <1>2, <1>4

\* A part of a body, as the grammar has it.
IsPart(c) == c.body \in Seq(Bytes) /\ c = [body |-> c.body, next |-> c.next]

\* Every body in chunks is bytes, with where what follows it begins.
LEMMA ChunkTyped ==
  ASSUME NEW w \in Seq(Bytes)
  PROVE  \A i \in 1 .. Len(w) + 1 : \A c \in ChunksFrom(w, i) : IsPart(c)
<1> DEFINE S == {i \in 1 .. Len(w) + 1 : \A c \in ChunksFrom(w, i) : IsPart(c)}
<1>1. Len(w) + 1 \in Nat
  BY LenProperties
<1>2. ASSUME NEW i \in 1 .. Len(w) + 1, \A j \in 1 .. Len(w) + 1 : j > i => j \in S
      PROVE  i \in S
  <2> SUFFICES ASSUME NEW c \in ChunksFrom(w, i) PROVE IsPart(c)
    OBVIOUS
  <2>1. PICK ln \in SizeAt(w, i) : c \in ChunksOf(w, ln.next, ln.text[1].n)
    BY ChunkEquation
  <2>2. ln.next \in 1 .. Len(w) + 1 /\ ln.next > i /\ ln.text[1].n \in Nat
    BY SizeTyped
  <2>3. PICK j, size : j = ln.next /\ size = ln.text[1].n
    OBVIOUS
  <2>4. CASE size = 0
    <3>1. PICK t \in TrailerAt(w, j) : c = [body |-> << >>, next |-> t.next]
      BY <2>1, <2>3, <2>4 DEF ChunksOf
    <3>2. << >> \in Seq(Bytes)
      BY EmptySeq
    <3> QED
      BY <3>1, <3>2 DEF IsPart
  <2>5. CASE size # 0
    <3>1. IsChunk(w, j, size)
      BY <2>1, <2>3, <2>5 DEF ChunksOf
    <3>2. PICK r \in ChunksFrom(w, j + size + 2) :
            c = [body |-> SubSeq(w, j, j + size - 1) \o r.body, next |-> r.next]
      BY <2>1, <2>3, <2>5, <3>1 DEF ChunksOf
    <3>3. /\ j + size + 2 \in 1 .. Len(w) + 1 /\ j + size + 2 > j
          /\ SubSeq(w, j, j + size - 1) \in Seq(Bytes)
      BY <2>2, <2>3, <3>1, ChunkPlace
    <3>4. j + size + 2 > i
      BY <1>1, <2>2, <2>3, <3>3, SMT
    <3>5. r.body \in Seq(Bytes)
      BY <1>2, <3>2, <3>3, <3>4 DEF IsPart
    <3>6. c.body = SubSeq(w, j, j + size - 1) \o r.body /\ c.next = r.next
      BY <3>2
    <3>7. c.body \in Seq(Bytes)
      BY <3>3, <3>5, <3>6, ConcatProperties
    <3> QED
      BY <3>2, <3>6, <3>7 DEF IsPart
  <2> QED
    BY <2>4, <2>5
<1> HIDE DEF S
<1>3. \A i \in 1 .. Len(w) + 1 : i \in S
  BY <1>1, <1>2, Backwards
<1> QED
  BY <1>3 DEF S

\* What follows the head, after k informational ones.
After(w, sem, head, k) ==
  IF Status(head) \notin 100 .. 199 THEN FinalOf(w, head, sem)
  ELSE IF Status(head) = 101 \/ IsFramed(head) \/ k = MaxInformational
    THEN {} ELSE MessageFrom(w, sem, head.next, k + 1)

\* A message is a head and what follows it.
LEMMA MessageEquation ==
  ASSUME NEW w \in Seq(Bytes), NEW sem, NEW i \in 1 .. Len(w) + 1,
         NEW k \in 0 .. MaxInformational
  PROVE  MessageFrom(w, sem, i, k)
           = UNION {After(w, sem, head, k) : head \in HeadAt(w, i)}
<1>1. PICK g : /\ g = [j \in 1 .. Len(w) + 1 |-> MessageStep(w, sem, g, j)]
               /\ \A j, m : MessageFrom(w, sem, j, m) = g[j][m]
  BY MessageIs
<1>2. g[i] = MessageStep(w, sem, g, i)
  BY <1>1
<1>3. MessageStep(w, sem, g, i)[k]
        = UNION {AfterHead(w, sem, g, head, k) : head \in HeadAt(w, i)}
  BY DEF MessageStep
<1>4. \A head : AfterHead(w, sem, g, head, k) = After(w, sem, head, k)
  BY <1>1, Zenon DEF AfterHead, After
<1>5. UNION {AfterHead(w, sem, g, head, k) : head \in HeadAt(w, i)}
        = UNION {After(w, sem, head, k) : head \in HeadAt(w, i)}
  BY <1>4, Zenon
<1> QED
  BY <1>1, <1>2, <1>3, <1>5

\* No message where there is no head.
LEMMA WithoutHead ==
  ASSUME NEW w \in Seq(Bytes), NEW sem, NEW i \in 1 .. Len(w) + 1,
         NEW k \in 0 .. MaxInformational,
         \A block \in BlockAt(w, i) : ~IsHead(w, i, block)
  PROVE  MessageFrom(w, sem, i, k) = {}
<1>1. HeadAt(w, i) = {}
  BY DEF HeadAt
<1>2. MessageFrom(w, sem, i, k)
        = UNION {After(w, sem, head, k) : head \in HeadAt(w, i)}
  BY MessageEquation
<1> QED
  BY <1>1, <1>2

\* A message by the head it begins with.
LEMMA WithHead ==
  ASSUME NEW w \in Seq(Bytes), NEW sem, NEW i \in 1 .. Len(w) + 1,
         NEW k \in 0 .. MaxInformational, NEW head,
         BlockAt(w, i) = {head}, IsHead(w, i, head)
  PROVE  MessageFrom(w, sem, i, k) = After(w, sem, head, k)
<1>1. HeadAt(w, i) = {head}
  BY DEF HeadAt
<1>2. MessageFrom(w, sem, i, k)
        = UNION {After(w, sem, h, k) : h \in HeadAt(w, i)}
  BY MessageEquation
<1> QED
  BY <1>1, <1>2

-----------------------------------------------------------------------------
(* Heads, by their lines *)

\* Some field of these lines of a head is of this kind; no two of them disagree
\* on the length; no two say that the body is in chunks.
IsOf(lines, kind) == \E k \in 2 .. Len(lines) : lines[k][1].is = kind
SameLength(lines) ==
  \A j, k \in 2 .. Len(lines) :
    lines[j][1].is = "content-length" /\ lines[k][1].is = "content-length"
      => lines[j][1].n = lines[k][1].n
OneCoding(lines) ==
  \A j, k \in 2 .. Len(lines) :
    lines[j][1].is = "chunked" /\ lines[k][1].is = "chunked" => j = k

\* Lines of a head without a fault.
HeadLines(lines) ==
  /\ IsStatus(lines[1]) /\ Len(lines) - 1 <= MaxHeaders
  /\ \A k \in 2 .. Len(lines) : IsField(lines[k])
  /\ SameLength(lines) /\ OneCoding(lines)
  /\ ~(IsOf(lines, "chunked") /\ IsOf(lines, "content-length"))
  /\ IsOf(lines, "chunked") => lines[1][1].is = "HTTP/1.1"

\* A set has at most one element where any two are the same.
LEMMA AtMostOne ==
  ASSUME NEW S, IsFiniteSet(S)
  PROVE  Cardinality(S) <= 1 <=> \A a, b \in S : a = b
<1>1. Cardinality(S) \in Nat
  BY FS_CardinalityType
<1>2. ASSUME Cardinality(S) <= 1, NEW a \in S, NEW b \in S PROVE a = b
  <2>1. Cardinality(S) # 0
    BY FS_EmptySet
  <2>2. Cardinality(S) = 1
    BY <1>1, <1>2, <2>1, SMT
  <2>3. \E x : S = {x}
    BY <2>2, FS_Singleton
  <2> QED
    BY <2>3
<1>3. ASSUME \A a, b \in S : a = b PROVE Cardinality(S) <= 1
  <2>1. CASE S = {}
    BY <2>1, FS_EmptySet, SMT
  <2>2. CASE S # {}
    <3>1. PICK a : a \in S
      BY <2>2
    <3>2. S = {a}
      BY <1>3, <3>1
    <3>3. Cardinality({a}) = 1
      BY FS_Singleton
    <3> QED
      BY <3>2, <3>3, SMT
  <2> QED
    BY <2>1, <2>2
<1> QED
  BY <1>2, <1>3

\* A property of a head's fields is one of its lines after the first.
LEMMA FieldsAre ==
  ASSUME NEW b, b.lines \in Seq(Seq(Bytes)), b.lines # << >>
  PROVE  /\ Len(Fields(b)) = Len(b.lines) - 1
         /\ DOMAIN Fields(b) = 1 .. Len(b.lines) - 1
         /\ \A k \in 1 .. Len(b.lines) - 1 : Fields(b)[k] = b.lines[k + 1]
         /\ \A k \in 1 .. Len(b.lines) - 1 : k \in Int /\ k + 1 \in 2 .. Len(b.lines)
         /\ \A k \in 2 .. Len(b.lines) : /\ k - 1 \in 1 .. Len(b.lines) - 1
                                         /\ Fields(b)[k - 1] = b.lines[k]
<1>1. /\ Tail(b.lines) \in Seq(Seq(Bytes)) /\ Len(Tail(b.lines)) = Len(b.lines) - 1
      /\ \A i \in 1 .. Len(Tail(b.lines)) : Tail(b.lines)[i] = b.lines[i + 1]
  BY HeadTailProperties
<1>2. DOMAIN Tail(b.lines) = 1 .. Len(Tail(b.lines)) /\ Len(b.lines) \in Nat
  BY <1>1, LenProperties
<1>3. \A k \in 1 .. Len(b.lines) - 1 : k \in Int /\ k + 1 \in 2 .. Len(b.lines)
  BY <1>2, SMT
<1>4. \A k \in 2 .. Len(b.lines) : k - 1 \in 1 .. Len(b.lines) - 1 /\ (k - 1) + 1 = k
  BY <1>2, SMT
<1>5. \A k \in 1 .. Len(b.lines) - 1 : Fields(b)[k] = b.lines[k + 1]
  BY <1>1, Zenon DEF Fields
<1>6. \A k \in 2 .. Len(b.lines) : Fields(b)[k - 1] = b.lines[(k - 1) + 1]
  BY <1>4, <1>5
<1>7. \A k \in 2 .. Len(b.lines) : Fields(b)[k - 1] = b.lines[k]
  BY <1>4, <1>6
<1> QED
  BY <1>1, <1>2, <1>3, <1>4, <1>5, <1>7, Zenon DEF Fields

\* The grammar's properties of a head, by its lines: the kinds of its fields,
LEMMA HasIs ==
  ASSUME NEW b, b.lines \in Seq(Seq(Bytes)), b.lines # << >>, NEW kind
  PROVE  Has(b, kind) <=> IsOf(b.lines, kind)
<1>1. ASSUME Has(b, kind) PROVE IsOf(b.lines, kind)
  <2>1. PICK k \in DOMAIN Fields(b) : Fields(b)[k][1].is = kind
    BY <1>1 DEF Has
  <2>2. k \in 1 .. Len(b.lines) - 1
    BY FieldsAre
  <2>3. k + 1 \in 2 .. Len(b.lines) /\ Fields(b)[k] = b.lines[k + 1]
    BY <2>2, FieldsAre
  <2> QED
    BY <2>1, <2>3, Zenon DEF IsOf
<1>2. ASSUME IsOf(b.lines, kind) PROVE Has(b, kind)
  <2>1. PICK k \in 2 .. Len(b.lines) : b.lines[k][1].is = kind
    BY <1>2 DEF IsOf
  <2>2. k - 1 \in DOMAIN Fields(b) /\ Fields(b)[k - 1][1].is = kind
    BY <2>1, FieldsAre
  <2> QED
    BY <2>2 DEF Has
<1> QED
  BY <1>1, <1>2

\* the lengths that they say,
LEMMA LengthIs ==
  ASSUME NEW b, b.lines \in Seq(Seq(Bytes)), b.lines # << >>, NEW n
  PROVE  n \in LengthsOf(b) <=>
           \E k \in 2 .. Len(b.lines) :
             b.lines[k][1].is = "content-length" /\ n = b.lines[k][1].n
<1>1. ASSUME n \in LengthsOf(b)
      PROVE  \E k \in 2 .. Len(b.lines) :
               b.lines[k][1].is = "content-length" /\ n = b.lines[k][1].n
  <2>1. PICK k \in DOMAIN Fields(b) :
          Fields(b)[k][1].is = "content-length" /\ n = Fields(b)[k][1].n
    BY <1>1 DEF LengthsOf
  <2>2. k + 1 \in 2 .. Len(b.lines) /\ b.lines[k + 1] = Fields(b)[k]
    BY <2>1, FieldsAre
  <2> QED
    BY <2>1, <2>2
<1>2. ASSUME NEW k \in 2 .. Len(b.lines),
             b.lines[k][1].is = "content-length" /\ n = b.lines[k][1].n
      PROVE  n \in LengthsOf(b)
  <2>1. k - 1 \in DOMAIN Fields(b) /\ Fields(b)[k - 1] = b.lines[k]
    BY <1>2, FieldsAre
  <2> QED
    BY <1>2, <2>1 DEF LengthsOf
<1> QED
  BY <1>1, <1>2

\* of which there are finitely many,
LEMMA FieldsFinite ==
  ASSUME NEW b, b.lines \in Seq(Seq(Bytes)), b.lines # << >>, NEW kind
  PROVE  IsFiniteSet({k \in DOMAIN Fields(b) : Fields(b)[k][1].is = kind})
<1>1. Len(b.lines) - 1 \in Int
  BY LenProperties
<1>2. IsFiniteSet(1 .. Len(b.lines) - 1)
  BY <1>1, FS_Interval
<1>3. DOMAIN Fields(b) = 1 .. Len(b.lines) - 1
  BY FieldsAre
<1>4. {k \in DOMAIN Fields(b) : Fields(b)[k][1].is = kind} \in SUBSET (1 .. Len(b.lines) - 1)
  BY <1>3
<1> QED
  BY <1>2, <1>4, FS_Subset

\* at most one,
LEMMA SameLengthIs ==
  ASSUME NEW b, b.lines \in Seq(Seq(Bytes)), b.lines # << >>
  PROVE  Cardinality(LengthsOf(b)) <= 1 <=> SameLength(b.lines)
<1> DEFINE I == {k \in DOMAIN Fields(b) : Fields(b)[k][1].is = "content-length"}
           f == [k \in I |-> Fields(b)[k][1].n]
<1>1. IsFiniteSet(I)
  BY FieldsFinite
<1>2. f \in Surjection(I, LengthsOf(b))
  <2>1. f \in [I -> LengthsOf(b)]
    BY DEF LengthsOf
  <2>2. \A n \in LengthsOf(b) : \E k \in I : f[k] = n
    BY DEF LengthsOf
  <2> HIDE DEF I, f
  <2> QED
    BY <2>1, <2>2 DEF Surjection
<1> HIDE DEF I, f
<1>3. IsFiniteSet(LengthsOf(b))
  BY <1>1, <1>2, FS_Surjection
<1>4. Cardinality(LengthsOf(b)) <= 1 <=> \A x, y \in LengthsOf(b) : x = y
  BY <1>3, AtMostOne
<1>5. (\A x, y \in LengthsOf(b) : x = y) <=> SameLength(b.lines)
  <2> DEFINE says(k, n) == b.lines[k][1].is = "content-length" /\ n = b.lines[k][1].n
  <2>1. \A n : n \in LengthsOf(b) <=> \E k \in 2 .. Len(b.lines) : says(k, n)
    BY LengthIs
  <2>2. SameLength(b.lines) <=>
          \A j, k \in 2 .. Len(b.lines) : \A m, n : says(j, m) /\ says(k, n) => m = n
    <3>1. ASSUME SameLength(b.lines), NEW j \in 2 .. Len(b.lines),
                 NEW k \in 2 .. Len(b.lines), NEW m, NEW n, says(j, m), says(k, n)
          PROVE  m = n
      BY <3>1 DEF SameLength
    <3>2. ASSUME \A j, k \in 2 .. Len(b.lines) :
                   \A m, n : says(j, m) /\ says(k, n) => m = n
          PROVE  SameLength(b.lines)
      <4>1. ASSUME NEW j \in 2 .. Len(b.lines), NEW k \in 2 .. Len(b.lines),
                   b.lines[j][1].is = "content-length", b.lines[k][1].is = "content-length"
            PROVE  b.lines[j][1].n = b.lines[k][1].n
        <5>1. says(j, b.lines[j][1].n) /\ says(k, b.lines[k][1].n)
          BY <4>1
        <5> HIDE DEF says
        <5> QED
          BY <3>2, <5>1, Zenon
      <4> QED
        BY <4>1, Zenon DEF SameLength
    <3> HIDE DEF says
    <3> QED
      BY <3>1, <3>2
  <2> HIDE DEF says
  <2>3. (\A x, y \in LengthsOf(b) : x = y) <=>
          \A m, n : m \in LengthsOf(b) /\ n \in LengthsOf(b) => m = n
    BY Zenon
  <2> QED
    BY <2>1, <2>2, <2>3, Zenon
<1> QED
  BY <1>4, <1>5

\* and at most one coding.
LEMMA OneCodingIs ==
  ASSUME NEW b, b.lines \in Seq(Seq(Bytes)), b.lines # << >>
  PROVE  Cardinality({k \in DOMAIN Fields(b) : Fields(b)[k][1].is = "chunked"}) <= 1
           <=> OneCoding(b.lines)
<1> DEFINE I == {k \in DOMAIN Fields(b) : Fields(b)[k][1].is = "chunked"}
<1>1. IsFiniteSet(I)
  BY FieldsFinite
<1>2. ASSUME \A x, y \in I : x = y PROVE OneCoding(b.lines)
  <2> SUFFICES ASSUME NEW j \in 2 .. Len(b.lines), NEW k \in 2 .. Len(b.lines),
                      b.lines[j][1].is = "chunked", b.lines[k][1].is = "chunked"
               PROVE  j = k
    BY DEF OneCoding
  <2>1. j - 1 \in I /\ k - 1 \in I
    BY FieldsAre
  <2>2. j - 1 = k - 1
    BY <1>2, <2>1
  <2> QED
    BY <2>2, SMT
<1>3. ASSUME OneCoding(b.lines), NEW x \in I, NEW y \in I PROVE x = y
  <2>1. ASSUME NEW k \in I
        PROVE  k + 1 \in 2 .. Len(b.lines) /\ b.lines[k + 1][1].is = "chunked" /\ k \in Int
    <3>1. k \in 1 .. Len(b.lines) - 1 /\ Fields(b)[k][1].is = "chunked"
      BY FieldsAre
    <3>2. k \in Int /\ k + 1 \in 2 .. Len(b.lines) /\ Fields(b)[k] = b.lines[k + 1]
      BY <3>1, FieldsAre
    <3> QED
      BY <3>1, <3>2, Zenon
  <2> HIDE DEF I
  <2>2. x + 1 = y + 1
    BY <1>3, <2>1 DEF OneCoding
  <2> QED
    BY <2>1, <2>2, SMT
<1> HIDE DEF I
<1>4. Cardinality(I) <= 1 <=> \A x, y \in I : x = y
  BY <1>1, AtMostOne
<1> QED
  BY <1>2, <1>3, <1>4 DEF I

\* A block is a head if it is short enough and its lines have no fault.
LEMMA HeadIs ==
  ASSUME NEW w, NEW i, NEW b, b.lines \in Seq(Seq(Bytes)), b.lines # << >>
  PROVE  IsHead(w, i, b) <=> b.next - i <= MaxHead /\ HeadLines(b.lines)
<1>1. Len(Fields(b)) = Len(b.lines) - 1
  BY FieldsAre
<1>2. (\A k \in DOMAIN Fields(b) : IsField(Fields(b)[k]))
        <=> \A k \in 2 .. Len(b.lines) : IsField(b.lines[k])
  <2>1. ASSUME \A k \in DOMAIN Fields(b) : IsField(Fields(b)[k]), NEW k \in 2 .. Len(b.lines)
        PROVE  IsField(b.lines[k])
    BY <2>1, FieldsAre
  <2>2. ASSUME \A k \in 2 .. Len(b.lines) : IsField(b.lines[k]), NEW k \in DOMAIN Fields(b)
        PROVE  IsField(Fields(b)[k])
    <3>1. k \in 1 .. Len(b.lines) - 1
      BY FieldsAre
    <3>2. k + 1 \in 2 .. Len(b.lines) /\ Fields(b)[k] = b.lines[k + 1]
      BY <3>1, FieldsAre
    <3> QED
      BY <2>2, <3>2
  <2> QED
    BY <2>1, <2>2
<1>3. LengthsOf(b) # {} <=> IsOf(b.lines, "content-length")
  BY LengthIs, Zenon DEF IsOf
<1>4. Has(b, "chunked") <=> IsOf(b.lines, "chunked")
  BY HasIs
<1>5. Cardinality(LengthsOf(b)) <= 1 <=> SameLength(b.lines)
  BY SameLengthIs
<1>6. Cardinality({k \in DOMAIN Fields(b) : Fields(b)[k][1].is = "chunked"}) <= 1
        <=> OneCoding(b.lines)
  BY OneCodingIs
<1> QED
  BY <1>1, <1>2, <1>3, <1>4, <1>5, <1>6, Zenon DEF IsHead, HeadLines, Version

\* What a head begins with has no fault either.
LEMMA HeadPrefix ==
  ASSUME NEW lines \in Seq(Seq(Bytes)), lines # << >>, NEW rest \in Seq(Seq(Bytes)),
         HeadLines(lines \o rest)
  PROVE  HeadLines(lines)
<1> DEFINE all == lines \o rest
<1>1. /\ Len(lines) \in Nat /\ Len(rest) \in Nat
  BY LenProperties
<1>2. /\ Len(all) = Len(lines) + Len(rest)
      /\ \A k \in 1 .. Len(all) : all[k] = IF k <= Len(lines) THEN lines[k]
                                           ELSE rest[k - Len(lines)]
  BY ConcatProperties
<1>3. HeadLines(all)
  OBVIOUS
<1> HIDE DEF all
<1>4. \A k \in 1 .. Len(lines) : k \in 1 .. Len(all) /\ all[k] = lines[k]
  BY <1>1, <1>2, SMT
<1>5. \A k \in 2 .. Len(lines) : k \in 2 .. Len(all) /\ all[k] = lines[k]
  <2>1. \A k \in 2 .. Len(lines) : k \in 2 .. Len(all) /\ k \in 1 .. Len(lines)
    BY <1>1, <1>2, SMT
  <2> QED
    BY <1>4, <2>1
<1>6. 1 \in 1 .. Len(lines)
  BY <1>1, EmptySeq, SMT
<1>7. all[1] = lines[1]
  BY <1>4, <1>6
<1>8. Len(lines) - 1 <= MaxHeaders
  <2>1. Len(all) - 1 <= MaxHeaders /\ MaxHeaders \in Nat
    BY <1>3, LimitsAssumption DEF HeadLines
  <2> QED
    BY <1>1, <1>2, <2>1, SMT
<1>9. \A kind : IsOf(lines, kind) => IsOf(all, kind)
  BY <1>5, Zenon DEF IsOf
<1>10. SameLength(lines) /\ OneCoding(lines)
  <2>1. SameLength(all) /\ OneCoding(all)
    BY <1>3 DEF HeadLines
  <2>2. SameLength(lines)
    <3> SUFFICES ASSUME NEW j \in 2 .. Len(lines), NEW k \in 2 .. Len(lines),
                        lines[j][1].is = "content-length", lines[k][1].is = "content-length"
                 PROVE  lines[j][1].n = lines[k][1].n
      BY DEF SameLength
    <3>1. j \in 2 .. Len(all) /\ all[j] = lines[j] /\ k \in 2 .. Len(all) /\ all[k] = lines[k]
      BY <1>5
    <3>2. all[j][1].n = all[k][1].n
      BY <2>1, <3>1 DEF SameLength
    <3> QED
      BY <3>1, <3>2
  <2>3. OneCoding(lines)
    BY <1>5, <2>1 DEF OneCoding
  <2> QED
    BY <2>2, <2>3
<1>11. \A k \in 2 .. Len(lines) : IsField(lines[k])
  BY <1>3, <1>5, Zenon DEF HeadLines
<1> QED
  BY <1>3, <1>7, <1>8, <1>9, <1>10, <1>11, Zenon DEF HeadLines

\* Lines with a fault are the beginning of no head.
LEMMA FaultyHead ==
  ASSUME NEW w \in Seq(Bytes), NEW h \in 1 .. Len(w) + 1, NEW p \in 1 .. Len(w) + 1,
         NEW lines \in Seq(Seq(Bytes)), lines # << >>, ~HeadLines(lines),
         BlockAt(w, h) = Prefixed(lines, BlockAt(w, p))
  PROVE  \A block \in BlockAt(w, h) : ~IsHead(w, h, block)
<1> TAKE block \in BlockAt(w, h)
<1>1. PICK r \in BlockAt(w, p) : block.lines = lines \o r.lines
  <2>1. PICK r \in BlockAt(w, p) : block = [lines |-> lines \o r.lines, next |-> r.next]
    BY Zenon DEF Prefixed
  <2>2. block.lines = lines \o r.lines
    BY <2>1
  <2> QED
    BY <2>2
<1>2. r.lines \in Seq(Seq(Bytes)) /\ block.lines \in Seq(Seq(Bytes))
  BY BlockTyped DEF IsBlock
<1>3. CASE block.lines = << >>
  BY <1>3 DEF IsHead
<1>4. CASE block.lines # << >>
  <2>1. ~HeadLines(block.lines)
    BY <1>1, <1>2, HeadPrefix
  <2> QED
    BY <1>2, <1>4, <2>1, HeadIs
<1> QED
  BY <1>3, <1>4

-----------------------------------------------------------------------------
(* What the head in hand says *)

\* cur is what these lines of a head say, and none of them has a fault; how many
\* they are, and what HTTP/1.0 forbids, is looked at elsewhere.
Told(lines, cur) ==
  /\ IsStatus(lines[1])
  /\ cur.version = lines[1][1].is /\ cur.status = lines[1][1].n
  /\ cur.headers = Len(lines) - 1
  /\ \A k \in 2 .. Len(lines) : IsField(lines[k])
  /\ cur.chunked <=> IsOf(lines, "chunked")
  /\ cur.close <=> IsOf(lines, "close")
  /\ cur.keep_alive <=> IsOf(lines, "keep-alive")
  /\ cur.content_length # NoLength <=> IsOf(lines, "content-length")
  /\ \A k \in 2 .. Len(lines) :
       lines[k][1].is = "content-length" => lines[k][1].n = cur.content_length
  /\ OneCoding(lines)
  /\ ~(cur.chunked /\ cur.content_length # NoLength)

\* With one more line.
LEMMA OneMoreLine ==
  ASSUME NEW lines \in Seq(Seq(Bytes)), lines # << >>, NEW text \in Seq(Bytes)
  PROVE  /\ Append(lines, text) \in Seq(Seq(Bytes)) /\ Append(lines, text) # << >>
         /\ Len(Append(lines, text)) = Len(lines) + 1 /\ Len(lines) \in Nat \ {0}
         /\ Append(lines, text)[1] = lines[1]
         /\ Append(lines, text)[Len(lines) + 1] = text
         /\ 2 .. Len(lines) + 1 = (2 .. Len(lines)) \cup {Len(lines) + 1}
         /\ \A k \in 2 .. Len(lines) : Append(lines, text)[k] = lines[k] /\ k # Len(lines) + 1
<1>1. Len(lines) \in Nat \ {0}
  BY LenProperties, EmptySeq, SMT
<1>2. /\ Append(lines, text) \in Seq(Seq(Bytes)) /\ Append(lines, text) # << >>
      /\ Len(Append(lines, text)) = Len(lines) + 1
      /\ \A k \in 1 .. Len(lines) : Append(lines, text)[k] = lines[k]
      /\ Append(lines, text)[Len(lines) + 1] = text
  BY AppendProperties
<1>3. 1 \in 1 .. Len(lines) /\ \A k \in 2 .. Len(lines) : k \in 1 .. Len(lines) /\ k # Len(lines) + 1
  BY <1>1, SMT
<1>4. 2 .. Len(lines) + 1 = (2 .. Len(lines)) \cup {Len(lines) + 1}
  BY <1>1, SMT
<1> QED
  BY <1>1, <1>2, <1>3, <1>4

\* The kinds of field with one more line.
LEMMA IsOfMore ==
  ASSUME NEW lines \in Seq(Seq(Bytes)), lines # << >>, NEW text \in Seq(Bytes), NEW kind
  PROVE  IsOf(Append(lines, text), kind) <=> IsOf(lines, kind) \/ text[1].is = kind
<1> DEFINE all == Append(lines, text)
<1>1. /\ Len(all) = Len(lines) + 1 /\ all[Len(lines) + 1] = text
      /\ 2 .. Len(lines) + 1 = (2 .. Len(lines)) \cup {Len(lines) + 1}
      /\ \A k \in 2 .. Len(lines) : all[k] = lines[k]
  BY OneMoreLine
<1> HIDE DEF all
<1>2. IsOf(all, kind) <=> \E k \in (2 .. Len(lines)) \cup {Len(lines) + 1} : all[k][1].is = kind
  BY <1>1 DEF IsOf
<1>3. IsOf(all, kind) <=> (\E k \in 2 .. Len(lines) : all[k][1].is = kind)
                          \/ all[Len(lines) + 1][1].is = kind
  BY <1>2
<1>4. (\E k \in 2 .. Len(lines) : all[k][1].is = kind) <=> IsOf(lines, kind)
  BY <1>1 DEF IsOf
<1> QED
  BY <1>1, <1>3, <1>4 DEF all

\* What parse_field() asks of the line in hand, in one formula.
FieldFits ==
  /\ IsField(line) /\ ~(current.headers >= MaxHeaders)
  /\ line[1].is = "content-length" =>
       current.content_length \in {NoLength, line[1].n} /\ ~current.chunked
  /\ line[1].is = "chunked" => ~current.chunked /\ current.content_length = NoLength

\* It refuses a line that does not fit, and no other.
LEMMA FieldFitsIs ==
  ASSUME line \in Seq(Bytes), line # << >>
  PROVE  FieldError = "none" <=> FieldFits
<1> DEFINE kind == line[1].is
           known == Len(line) = 1
           one == OneKind(line)
<1>1. known => one
  BY SMT DEF OneKind
<1>2. IsField(line) <=> (kind = "field" /\ one) \/ (kind \in Framing \cup Tokens /\ known)
  BY DEF IsField
<1>3. kind \in FieldKinds <=> kind \in {"content-length", "chunked", "close", "keep-alive",
                                        "field", "other-coding"}
  BY DEF FieldKinds, Framing, Tokens
<1>4. kind \in Framing \cup Tokens <=> kind \in {"content-length", "chunked", "close", "keep-alive"}
  BY DEF Framing, Tokens
<1>5. kind \in Tokens <=> kind \in {"close", "keep-alive"}
  BY DEF Tokens
<1>6. FieldError = "none" <=>
        /\ kind # "fold" /\ kind \in FieldKinds /\ one /\ ~(current.headers >= MaxHeaders)
        /\ kind = "content-length" => /\ known
                                      /\ current.content_length \in {NoLength, line[1].n}
                                      /\ ~current.chunked
        /\ kind \in {"chunked", "other-coding"} =>
             /\ ~current.chunked /\ kind # "other-coding" /\ known
             /\ current.content_length = NoLength
        /\ kind \in Tokens => known
  <2> USE DEF FieldError
  <2>1. CASE kind = "fold"
    BY <2>1
  <2>2. CASE kind # "fold" /\ kind \notin FieldKinds
    BY <2>2
  <2>3. CASE kind # "fold" /\ kind \in FieldKinds /\ ~one
    BY <2>3
  <2>4. CASE kind # "fold" /\ kind \in FieldKinds /\ one /\ current.headers >= MaxHeaders
    BY <2>4
  <2>5. CASE kind # "fold" /\ kind \in FieldKinds /\ one /\ ~(current.headers >= MaxHeaders)
    <3>1. CASE kind = "content-length"
      BY <1>5, <2>5, <3>1
    <3>2. CASE kind \in {"chunked", "other-coding"}
      BY <1>5, <2>5, <3>2
    <3>3. CASE kind # "content-length" /\ kind \notin {"chunked", "other-coding"}
      BY <2>5, <3>3
    <3> QED
      BY <3>1, <3>2, <3>3
  <2> QED
    BY <2>1, <2>2, <2>3, <2>4, <2>5
<1> HIDE DEF known, one
<1>7. FieldFits <=>
        /\ IsField(line) /\ ~(current.headers >= MaxHeaders)
        /\ kind = "content-length" =>
             current.content_length \in {NoLength, line[1].n} /\ ~current.chunked
        /\ kind = "chunked" => ~current.chunked /\ current.content_length = NoLength
  BY DEF FieldFits
<1> HIDE DEF kind
<1> QED
  BY <1>1, <1>2, <1>3, <1>4, <1>5, <1>6, <1>7

\* What parse_field() makes of the head with a line that fits.
LEMMA AppliedIs ==
  ASSUME current \in Heads
  PROVE  /\ Applied.version = current.version /\ Applied.status = current.status
         /\ Applied.headers = current.headers + 1
         /\ Applied.content_length = IF line[1].is = "content-length" THEN line[1].n
                                     ELSE current.content_length
         /\ Applied.chunked <=> current.chunked \/ line[1].is = "chunked"
         /\ Applied.close <=> current.close \/ line[1].is = "close"
         /\ Applied.keep_alive <=> current.keep_alive \/ line[1].is = "keep-alive"
<1>1. /\ Applied.version = current.version /\ Applied.status = current.status
      /\ Applied.headers = current.headers + 1
  BY DEF Applied, Heads
<1>2. Applied.content_length = IF line[1].is = "content-length" THEN line[1].n
                               ELSE current.content_length
  BY DEF Applied, Heads
<1>3. Applied.chunked <=> current.chunked \/ line[1].is = "chunked"
  BY DEF Applied, Heads
<1>4. Applied.close <=> current.close \/ line[1].is = "close"
  BY DEF Applied, Heads
<1>5. Applied.keep_alive <=> current.keep_alive \/ line[1].is = "keep-alive"
  BY DEF Applied, Heads
<1> QED
  BY <1>1, <1>2, <1>3, <1>4, <1>5

\* One coding, with one more line.
LEMMA OneCodingMore ==
  ASSUME NEW lines \in Seq(Seq(Bytes)), lines # << >>, NEW text \in Seq(Bytes),
         OneCoding(lines)
  PROVE  OneCoding(Append(lines, text))
           <=> ~(IsOf(lines, "chunked") /\ text[1].is = "chunked")
<1> DEFINE all == Append(lines, text)
           last == Len(lines) + 1
<1>1. /\ Len(all) = last /\ all[last] = text
      /\ 2 .. last = (2 .. Len(lines)) \cup {last}
      /\ \A k \in 2 .. Len(lines) : all[k] = lines[k] /\ k # last
  BY OneMoreLine
<1>2. OneCoding(all) <=>
        \A j, k \in (2 .. Len(lines)) \cup {last} :
          all[j][1].is = "chunked" /\ all[k][1].is = "chunked" => j = k
  <2> HIDE DEF all, last
  <2> QED
    BY <1>1 DEF OneCoding
<1>3. \A j, k \in 2 .. Len(lines) :
        all[j][1].is = "chunked" /\ all[k][1].is = "chunked" => j = k
  <2> HIDE DEF all, last
  <2> QED
    BY <1>1 DEF OneCoding
<1> HIDE DEF all, last
<1>4. (\A j, k \in (2 .. Len(lines)) \cup {last} :
         all[j][1].is = "chunked" /\ all[k][1].is = "chunked" => j = k)
        <=> \A j \in 2 .. Len(lines) : ~(all[j][1].is = "chunked" /\ all[last][1].is = "chunked")
  BY <1>1, <1>3
<1>5. (\E j \in 2 .. Len(lines) : all[j][1].is = "chunked") <=> IsOf(lines, "chunked")
  BY <1>1 DEF IsOf
<1> QED
  BY <1>1, <1>2, <1>4, <1>5 DEF all

\* What the parser keeps of a head stays what its lines say with one more, when
\* parse_field() accepts that line.
LEMMA ToldGoesOn ==
  ASSUME current \in Heads, line \in Seq(Bytes), line # << >>, FieldError = "none",
         NEW lines \in Seq(Seq(Bytes)), lines # << >>, Told(lines, current)
  PROVE  Told(Append(lines, line), Applied)
<1> DEFINE all == Append(lines, line)
           last == Len(lines) + 1
<1>1. /\ Len(all) = last /\ all[1] = lines[1] /\ all[last] = line
      /\ Len(lines) \in Nat
      /\ 2 .. last = (2 .. Len(lines)) \cup {last}
      /\ \A k \in 2 .. Len(lines) : all[k] = lines[k]
  BY OneMoreLine
<1>2. \A kind : IsOf(all, kind) <=> IsOf(lines, kind) \/ line[1].is = kind
  BY IsOfMore
<1>3. FieldFits
  BY FieldFitsIs
<1>4. line[1].n \in Nat
  <2>1. 1 \in 1 .. Len(line)
    BY EmptySeq, LenProperties, SMT
  <2>2. line[1] \in Bytes
    BY <2>1, ElementOfSeq
  <2> QED
    BY <2>2, SMT DEF Bytes
<1>5. line[1].n # NoLength
  BY <1>4, SMT DEF NoLength
<1>6. OneCoding(all)
  BY <1>3, OneCodingMore DEF Told, FieldFits
<1> HIDE DEF all, last
<1>7. \A k \in 2 .. Len(all) : IsField(all[k])
  BY <1>1, <1>3 DEF Told, FieldFits
<1>8. ASSUME NEW k \in 2 .. Len(all), all[k][1].is = "content-length"
      PROVE  all[k][1].n = Applied.content_length
  <2>1. CASE k = last
    BY <1>1, <1>8, <2>1, AppliedIs
  <2>2. CASE k \in 2 .. Len(lines)
    <3>1. lines[k][1].is = "content-length" /\ lines[k][1].n = current.content_length
      BY <1>1, <1>8, <2>2 DEF Told
    <3>2. current.content_length # NoLength
      BY <2>2, <3>1 DEF Told, IsOf
    <3>3. line[1].is = "content-length" => line[1].n = current.content_length
      BY <1>3, <3>2 DEF FieldFits
    <3> QED
      BY <1>1, <2>2, <3>1, <3>3, AppliedIs
  <2> QED
    BY <1>1, <2>1, <2>2
<1>9. /\ Applied.chunked <=> IsOf(all, "chunked")
      /\ Applied.close <=> IsOf(all, "close")
      /\ Applied.keep_alive <=> IsOf(all, "keep-alive")
  BY <1>2, AppliedIs DEF Told
<1>10. Applied.content_length # NoLength <=> IsOf(all, "content-length")
  BY <1>2, <1>5, AppliedIs DEF Told
<1>11. ~(Applied.chunked /\ Applied.content_length # NoLength)
  BY <1>3, AppliedIs DEF Told, FieldFits
<1>12. Applied.headers = Len(all) - 1
  BY <1>1, AppliedIs, SMT DEF Told, last
<1>13. IsStatus(all[1]) /\ Applied.version = all[1][1].is /\ Applied.status = all[1][1].n
  BY <1>1, AppliedIs DEF Told
<1>14. Told(all, Applied)
  BY <1>6, <1>7, <1>8, <1>9, <1>10, <1>11, <1>12, <1>13 DEF Told
<1> QED
  BY <1>14 DEF all

\* The line that parse_field() refuses is a fault of the head.
LEMMA ToldFault ==
  ASSUME current \in Heads, line \in Seq(Bytes), line # << >>, FieldError # "none",
         NEW lines \in Seq(Seq(Bytes)), lines # << >>, Told(lines, current)
  PROVE  ~HeadLines(Append(lines, line))
<1> DEFINE all == Append(lines, line)
           last == Len(lines) + 1
<1>1. /\ Len(all) = last /\ all[last] = line
      /\ Len(lines) \in Nat /\ last \in 2 .. Len(all)
      /\ \A k \in 2 .. Len(lines) : all[k] = lines[k]
      /\ \A k \in 2 .. Len(lines) : k \in 2 .. Len(all)
  <2>1. Len(lines) \in Nat \ {0}
    BY OneMoreLine
  <2>2. last \in 2 .. last /\ \A k \in 2 .. Len(lines) : k \in 2 .. last
    BY <2>1, SMT
  <2> QED
    BY <2>1, <2>2, OneMoreLine
<1>2. \A kind : IsOf(all, kind) <=> IsOf(lines, kind) \/ line[1].is = kind
  BY IsOfMore
<1>3. ~FieldFits
  BY FieldFitsIs
<1>4. OneCoding(all) <=> ~(IsOf(lines, "chunked") /\ line[1].is = "chunked")
  BY OneCodingMore DEF Told
<1> HIDE DEF all
<1> SUFFICES ASSUME HeadLines(all) PROVE FALSE
  BY DEF all
<1>5. IsField(line)
  BY <1>1 DEF HeadLines
<1>6. ~(current.headers >= MaxHeaders)
  <2>1. current.headers = Len(lines) - 1 /\ Len(all) - 1 <= MaxHeaders
    BY DEF Told, HeadLines
  <2> QED
    BY <1>1, <2>1, LimitsAssumption, SMT
<1>7. line[1].is = "content-length" => ~current.chunked
  BY <1>2 DEF HeadLines, Told
<1>8. line[1].is = "chunked" => ~current.chunked /\ current.content_length = NoLength
  BY <1>2, <1>4 DEF HeadLines, Told
<1>9. ASSUME line[1].is = "content-length", current.content_length # NoLength
      PROVE  line[1].n = current.content_length
  <2>1. PICK k \in 2 .. Len(lines) : lines[k][1].is = "content-length"
    BY <1>9 DEF Told, IsOf
  <2>2. lines[k][1].n = current.content_length
    BY <2>1 DEF Told
  <2>3. all[k] = lines[k] /\ k \in 2 .. Len(all)
    BY <1>1
  <2>4. SameLength(all)
    BY DEF HeadLines
  <2>5. all[k][1].n = all[last][1].n
    BY <1>1, <1>9, <2>1, <2>3, <2>4 DEF SameLength
  <2> QED
    BY <1>1, <2>2, <2>3, <2>5
<1> QED
  BY <1>3, <1>5, <1>6, <1>7, <1>8, <1>9 DEF FieldFits

\* Lines that have been told have no fault, when they are few enough and nothing
\* that HTTP/1.0 forbids.
LEMMA ToldHead ==
  ASSUME NEW lines, Told(lines, current), current.headers <= MaxHeaders,
         ~(current.version = "HTTP/1.0" /\ current.chunked)
  PROVE  HeadLines(lines)
<1>1. SameLength(lines)
  BY DEF Told, SameLength
<1>2. Len(lines) - 1 <= MaxHeaders
  BY DEF Told
<1>3. lines[1][1].is \in {"HTTP/1.0", "HTTP/1.1"}
  BY DEF Told, IsStatus, Versions
<1>4. IsOf(lines, "chunked") => lines[1][1].is = "HTTP/1.1"
  BY <1>3 DEF Told
<1> QED
  BY <1>1, <1>2, <1>4, Zenon DEF Told, HeadLines

\* What a complete head says is what the parser has kept of it.
LEMMA BlockSays ==
  ASSUME NEW b, b.lines \in Seq(Seq(Bytes)), b.lines # << >>, current \in Heads,
         Told(b.lines, current)
  PROVE  /\ Status(b) = current.status /\ Version(b) = current.version
         /\ Has(b, "chunked") <=> current.chunked
         /\ LengthsOf(b) = IF current.content_length = NoLength THEN {}
                           ELSE {current.content_length}
         /\ IsFramed(b) <=> HasFraming
         /\ ClosesAfter(b) = Closes
<1>1. Status(b) = current.status /\ Version(b) = current.version
  BY DEF Status, Version, Told
<1>2. /\ Has(b, "chunked") <=> current.chunked
      /\ Has(b, "close") <=> current.close
      /\ Has(b, "keep-alive") <=> current.keep_alive
  BY HasIs DEF Told
<1>3. \A n : n \in LengthsOf(b) <=> n = current.content_length /\ n # NoLength
  <2> SUFFICES ASSUME NEW n
               PROVE  n \in LengthsOf(b) <=> n = current.content_length /\ n # NoLength
    OBVIOUS
  <2>1. ASSUME n \in LengthsOf(b) PROVE n = current.content_length /\ n # NoLength
    <3>1. PICK k \in 2 .. Len(b.lines) :
            b.lines[k][1].is = "content-length" /\ n = b.lines[k][1].n
      BY <2>1, LengthIs
    <3> QED
      BY <3>1 DEF Told, IsOf
  <2>2. ASSUME n = current.content_length, n # NoLength PROVE n \in LengthsOf(b)
    <3>1. PICK k \in 2 .. Len(b.lines) : b.lines[k][1].is = "content-length"
      BY <2>2 DEF Told, IsOf
    <3>2. n = b.lines[k][1].n
      BY <2>2, <3>1 DEF Told
    <3> QED
      BY <3>1, <3>2, LengthIs
  <2> QED
    BY <2>1, <2>2
<1>4. LengthsOf(b) = IF current.content_length = NoLength THEN {}
                     ELSE {current.content_length}
  <2>1. CASE current.content_length = NoLength
    <3>1. \A n : n \notin LengthsOf(b)
      BY <1>3, <2>1
    <3>2. LengthsOf(b) = {}
      BY <3>1
    <3> QED
      BY <2>1, <3>2
  <2>2. CASE current.content_length # NoLength
    <3>1. \A n : n \in LengthsOf(b) <=> n = current.content_length
      BY <1>3, <2>2
    <3>2. LengthsOf(b) = {current.content_length}
      BY <3>1
    <3> QED
      BY <2>2, <3>2
  <2> QED
    BY <2>1, <2>2
<1>5. IsFramed(b) <=> HasFraming
  <2>1. LengthsOf(b) # {} <=> current.content_length # NoLength
    BY <1>4
  <2> QED
    BY <1>2, <2>1 DEF IsFramed, HasFraming
<1>6. ClosesAfter(b) <=> Closes
  BY <1>1, <1>2 DEF ClosesAfter, Closes
<1>7. ClosesAfter(b) \in BOOLEAN /\ Closes \in BOOLEAN
  <2>1. ClosesAfter(b) \in BOOLEAN
    BY DEF ClosesAfter, Has
  <2>2. Closes \in BOOLEAN
    BY DEF Closes, Heads
  <2> QED
    BY <2>1, <2>2
<1>8. ClosesAfter(b) = Closes
  BY <1>6, <1>7
<1> QED
  BY <1>1, <1>2, <1>4, <1>5, <1>8

\* When complete_headers() refuses a head, in one formula.
LEMMA HeadErrorIs ==
  HeadError = "none" <=>
    /\ ~(current.version = "HTTP/1.0" /\ current.chunked)
    /\ current.status # 101
    /\ ~((IsInformational \/ current.status = 204) /\ HasFraming)
    /\ ~(current.status = 205 /\ (current.chunked \/ current.content_length \notin {NoLength, 0}))
    /\ ~(IsInformational /\ informational >= MaxInformational)
    /\ ~(/\ ~IsInformational /\ ~EndsAtHead /\ ~current.chunked
         /\ current.content_length > MaxBody)
<1> HIDE DEF IsInformational, HasFraming, EndsAtHead
<1> QED
  BY DEF HeadError

-----------------------------------------------------------------------------
(* What follows a head *)

\* The messages of these bodies, framed or open to the end of the wire.
FramedBy(bodies, closing) ==
  {[framed |-> TRUE, end |-> b.next - 1, body |-> b.body, close |-> closing] : b \in bodies}
OpenBy(bodies) ==
  {[framed |-> FALSE, end |-> b.next - 1, body |-> b.body, close |-> TRUE] : b \in bodies}

\* The final responses of a head, in these terms.
LEMMA FinalIs ==
  ASSUME NEW w, NEW b
  PROVE  FinalOf(w, b, semantics) = FramedBy(FramedBodies(w, b, semantics), ClosesAfter(b))
                                      \cup OpenBy(OpenBodies(w, b, semantics))
  BY Zenon DEF FinalOf, FramedBy, OpenBy

\* No body, no message.
LEMMA NoBodies == \A closing : FramedBy({}, closing) = {} /\ OpenBy({}) = {}
  BY DEF FramedBy, OpenBy

\* The head of the lines in hand, as a block of w.
IsHeadBlock(w, b) ==
  /\ b.lines \in Seq(Seq(Bytes)) /\ b.lines # << >> /\ Told(b.lines, current)
  /\ current \in Heads /\ semantics \in {"Normal", "HEAD"}

\* A final head that complete_headers() refuses has no body the grammar accepts,
LEMMA RefusedBodies ==
  ASSUME NEW w, NEW b, IsHeadBlock(w, b), HeadError # "none", ~IsInformational,
         ~(current.version = "HTTP/1.0" /\ current.chunked)
  PROVE  FinalOf(w, b, semantics) = {}
<1>1. /\ Status(b) = current.status
      /\ Has(b, "chunked") <=> current.chunked
      /\ LengthsOf(b) = IF current.content_length = NoLength THEN {}
                        ELSE {current.content_length}
      /\ IsFramed(b) <=> HasFraming
  BY BlockSays DEF IsHeadBlock
<1>2. IsBodiless(b, semantics) <=> EndsAtHead
  BY <1>1 DEF IsBodiless, EndsAtHead
<1>3. current.status # 101
  BY SMT DEF IsInformational
<1> SUFFICES FramedBodies(w, b, semantics) = {} /\ OpenBodies(w, b, semantics) = {}
  BY FinalIs, NoBodies
<1>4. CASE current.status = 204 /\ HasFraming
  <2>1. IsRefused(b) /\ IsBodiless(b, semantics)
    BY <1>1, <1>4 DEF IsRefused, IsBodiless
  <2> QED
    BY <2>1 DEF FramedBodies, OpenBodies
<1>5. CASE /\ current.status = 205
           /\ current.chunked \/ current.content_length \notin {NoLength, 0}
  <2>1. current.content_length \notin {NoLength, 0} => ~(LengthsOf(b) \subseteq {0})
    BY <1>1
  <2>2. IsRefused(b) /\ IsBodiless(b, semantics)
    BY <1>1, <1>5, <2>1 DEF IsRefused, IsBodiless
  <2> QED
    BY <2>2 DEF FramedBodies, OpenBodies
<1>6. CASE ~EndsAtHead /\ ~current.chunked /\ current.content_length > MaxBody
  <2>1. current.content_length # NoLength
    BY <1>6, LimitsAssumption, SMT DEF NoLength
  <2>2. IsFramed(b) /\ LengthsOf(b) = {current.content_length}
    BY <1>1, <2>1 DEF HasFraming
  <2>3. ~(current.content_length <= MaxBody)
    <3>1. current.content_length \in Int
      BY SMT DEF IsHeadBlock, Heads, NoLength
    <3> QED
      BY <1>6, <3>1, LimitsAssumption, SMT
  <2>4. SizedAt(w, b.next, {current.content_length}) = {}
    BY <2>3 DEF SizedAt
  <2>5. FramedBodies(w, b, semantics) = {}
    BY <1>1, <1>2, <1>6, <2>2, <2>4 DEF FramedBodies
  <2> QED
    BY <2>2, <2>5 DEF OpenBodies
<1> QED
  BY <1>3, <1>4, <1>5, <1>6, HeadErrorIs

\* so that no message begins with a head that it refuses.
LEMMA RefusedHead ==
  ASSUME NEW w \in Seq(Bytes), NEW h \in 1 .. Len(w) + 1, NEW b, IsHeadBlock(w, b),
         BlockAt(w, h) = {b}, HeadError # "none", informational \in 0 .. MaxInformational
  PROVE  MessageFrom(w, semantics, h, informational) = {}
<1>1. CASE ~IsHead(w, h, b)
  BY <1>1, WithoutHead
<1>2. CASE IsHead(w, h, b)
  <2>1. /\ Status(b) = current.status /\ Version(b) = current.version
        /\ Has(b, "chunked") <=> current.chunked
        /\ IsFramed(b) <=> HasFraming
    BY BlockSays DEF IsHeadBlock
  <2>2. ~(current.version = "HTTP/1.0" /\ current.chunked)
    BY <1>2, <2>1 DEF IsHead
  <2>3. MessageFrom(w, semantics, h, informational) = After(w, semantics, b, informational)
    BY <1>2, WithHead
  <2>4. CASE ~IsInformational
    <3>1. FinalOf(w, b, semantics) = {}
      BY <2>2, <2>4, RefusedBodies
    <3>2. Status(b) \notin 100 .. 199
      BY <2>1, <2>4 DEF IsInformational
    <3> QED
      BY <2>3, <3>1, <3>2 DEF After
  <2>5. CASE IsInformational
    <3>1. Status(b) \in 100 .. 199 /\ current.status # 204 /\ current.status # 205
      <4>1. \A n \in 100 .. 199 : n # 204 /\ n # 205
        BY SMT
      <4>2. current.status \in 100 .. 199
        BY <2>5 DEF IsInformational
      <4>3. Status(b) = current.status
        BY <2>1
      <4>4. Status(b) \in 100 .. 199
        BY <4>2, <4>3, Zenon
      <4>5. current.status # 204 /\ current.status # 205
        BY <4>1, <4>2
      <4> QED
        BY <4>4, <4>5
    <3>2. current.status = 101 \/ HasFraming \/ informational >= MaxInformational
      BY <2>2, <2>5, <3>1, HeadErrorIs
    <3>3. Status(b) = 101 \/ IsFramed(b) \/ informational = MaxInformational
      BY <2>1, <3>2, LimitsAssumption, SMT
    <3> QED
      BY <2>3, <3>1, <3>3 DEF After
  <2> QED
    BY <2>4, <2>5
<1> QED
  BY <1>1, <1>2

\* After an informational head that it accepts the message begins anew.
LEMMA InformationalHead ==
  ASSUME NEW w \in Seq(Bytes), NEW h \in 1 .. Len(w) + 1, NEW b, IsHeadBlock(w, b),
         BlockAt(w, h) = {b}, HeadError = "none", informational \in 0 .. MaxInformational,
         IsInformational, b.next - h <= MaxHead, current.headers <= MaxHeaders
  PROVE  /\ MessageFrom(w, semantics, h, informational)
              = MessageFrom(w, semantics, b.next, informational + 1)
         /\ informational + 1 \in 0 .. MaxInformational
<1>1. /\ Status(b) = current.status
      /\ IsFramed(b) <=> HasFraming
  BY BlockSays DEF IsHeadBlock
<1>2. HeadLines(b.lines)
  BY ToldHead, HeadErrorIs DEF IsHeadBlock
<1>3. IsHead(w, h, b)
  BY <1>2, HeadIs DEF IsHeadBlock
<1>4. /\ current.status # 101 /\ ~HasFraming /\ ~(informational >= MaxInformational)
  BY HeadErrorIs
<1>5. informational # MaxInformational /\ informational + 1 \in 0 .. MaxInformational
  BY <1>4, LimitsAssumption, SMT
<1>6. MessageFrom(w, semantics, h, informational) = After(w, semantics, b, informational)
  BY <1>3, WithHead
<1> QED
  BY <1>1, <1>4, <1>5, <1>6 DEF After, IsInformational

\* After a final head that it accepts the body is framed as the parser reads it.
LEMMA FinalHead ==
  ASSUME NEW w \in Seq(Bytes), NEW h \in 1 .. Len(w) + 1, NEW b, IsHeadBlock(w, b),
         BlockAt(w, h) = {b}, HeadError = "none", informational \in 0 .. MaxInformational,
         ~IsInformational, b.next - h <= MaxHead, current.headers <= MaxHeaders
  PROVE  MessageFrom(w, semantics, h, informational) =
           IF EndsAtHead THEN FramedBy({[body |-> << >>, next |-> b.next]}, Closes)
           ELSE IF current.chunked THEN FramedBy(ChunksAt(w, b.next), Closes)
           ELSE IF HasFraming
             THEN FramedBy(SizedAt(w, b.next, {current.content_length}), Closes)
           ELSE IF Len(w) - b.next + 1 > MaxBody THEN {}
           ELSE OpenBy({[body |-> SubSeq(w, b.next, Len(w)), next |-> Len(w) + 1]})
<1>1. /\ Status(b) = current.status
      /\ Has(b, "chunked") <=> current.chunked
      /\ LengthsOf(b) = IF current.content_length = NoLength THEN {}
                        ELSE {current.content_length}
      /\ IsFramed(b) <=> HasFraming
      /\ ClosesAfter(b) = Closes
  BY BlockSays DEF IsHeadBlock
<1>2. HeadLines(b.lines)
  BY ToldHead, HeadErrorIs DEF IsHeadBlock
<1>3. IsHead(w, h, b)
  BY <1>2, HeadIs DEF IsHeadBlock
<1>4. MessageFrom(w, semantics, h, informational) = FinalOf(w, b, semantics)
  <2>1. MessageFrom(w, semantics, h, informational) = After(w, semantics, b, informational)
    BY <1>3, WithHead
  <2> QED
    BY <1>1, <2>1 DEF After, IsInformational
<1>5. IsBodiless(b, semantics) <=> EndsAtHead
  BY <1>1 DEF IsBodiless, EndsAtHead
<1>6. ~IsRefused(b)
  <2>1. /\ ~(current.status = 204 /\ HasFraming)
        /\ ~(current.status = 205
             /\ (current.chunked \/ current.content_length \notin {NoLength, 0}))
    BY HeadErrorIs
  <2>2. current.content_length \in {NoLength, 0} => LengthsOf(b) \subseteq {0}
    BY <1>1
  <2> QED
    BY <1>1, <2>1, <2>2 DEF IsRefused
<1>7. FinalOf(w, b, semantics) = FramedBy(FramedBodies(w, b, semantics), Closes)
                                   \cup OpenBy(OpenBodies(w, b, semantics))
  BY <1>1, FinalIs
<1>8. CASE EndsAtHead
  <2>1. FramedBodies(w, b, semantics) = {[body |-> << >>, next |-> b.next]}
        /\ OpenBodies(w, b, semantics) = {}
    BY <1>5, <1>6, <1>8 DEF FramedBodies, OpenBodies
  <2> QED
    BY <1>4, <1>7, <1>8, <2>1, NoBodies
<1>9. CASE ~EndsAtHead /\ current.chunked
  <2>1. FramedBodies(w, b, semantics) = ChunksAt(w, b.next)
    BY <1>1, <1>5, <1>6, <1>9, Zenon DEF FramedBodies
  <2>2. OpenBodies(w, b, semantics) = {}
    BY <1>1, <1>9 DEF OpenBodies, HasFraming
  <2> QED
    BY <1>4, <1>7, <1>9, <2>1, <2>2, NoBodies
<1>10. CASE ~EndsAtHead /\ ~current.chunked /\ HasFraming
  <2>1. LengthsOf(b) = {current.content_length}
    BY <1>1, <1>10 DEF HasFraming
  <2>2. FramedBodies(w, b, semantics) = SizedAt(w, b.next, {current.content_length})
    BY <1>1, <1>5, <1>6, <1>10, <2>1, Zenon DEF FramedBodies
  <2>3. OpenBodies(w, b, semantics) = {}
    BY <1>1, <1>10 DEF OpenBodies
  <2> QED
    BY <1>4, <1>7, <1>10, <2>2, <2>3, NoBodies
<1>11. CASE ~EndsAtHead /\ ~current.chunked /\ ~HasFraming
  <2>1. LengthsOf(b) = {}
    BY <1>1, <1>11 DEF HasFraming
  <2>2. FramedBodies(w, b, semantics) = SizedAt(w, b.next, {})
    BY <1>1, <1>5, <1>6, <1>11, <2>1, Zenon DEF FramedBodies
  <2>3. SizedAt(w, b.next, {}) = {}
    BY DEF SizedAt
  <2>4. OpenBodies(w, b, semantics) =
          IF Len(w) - b.next + 1 > MaxBody THEN {}
          ELSE {[body |-> SubSeq(w, b.next, Len(w)), next |-> Len(w) + 1]}
    BY <1>1, <1>5, <1>11, Zenon DEF OpenBodies
  <2> QED
    BY <1>4, <1>7, <1>11, <2>2, <2>3, <2>4, NoBodies
<1> QED
  BY <1>8, <1>9, <1>10, <1>11

-----------------------------------------------------------------------------
(* The bytes so far *)

\* The first n bytes of the wire.
Cut(n) == SubSeq(wire, 1, n)

\* What the wire may be cut down to.
IsCut(w) ==
  /\ w \in Seq(Bytes) /\ Len(w) \in 0 .. Len(wire)
  /\ \A k \in 1 .. Len(w) : w[k] = wire[k]

\* It is a cut of the wire, of that length.
LEMMA CutIs ==
  ASSUME TypeOK, NEW n \in 0 .. Len(wire)
  PROVE  IsCut(Cut(n)) /\ Len(Cut(n)) = n
<1>1. wire \in Seq(Bytes) /\ Len(wire) \in Nat
  BY LenProperties DEF TypeOK, PositionOK
<1>2. n \in Int /\ n <= Len(wire) /\ 1 \in Nat \ {0}
  BY <1>1, SMT
<1>3. Cut(n) \in Seq(Bytes)
  BY <1>1, <1>2, PieceTyped DEF Cut
<1>4. \A k \in 1 .. n : wire[k] \in Bytes
  BY <1>1, ElementOfSeq, SMT
<1>5. /\ Len(Cut(n)) = IF 1 <= n THEN n - 1 + 1 ELSE 0
      /\ \A k \in 1 .. n - 1 + 1 : Cut(n)[k] = wire[1 + k - 1]
  BY <1>2, <1>4, SubSeqProperties DEF Cut
<1>6. Len(Cut(n)) = n
  BY <1>1, <1>5, SMT
<1>7. \A k \in 1 .. n : Cut(n)[k] = wire[k]
  <2> SUFFICES ASSUME NEW k \in 1 .. n PROVE Cut(n)[k] = wire[k]
    OBVIOUS
  <2>1. k \in 1 .. n - 1 + 1 /\ 1 + k - 1 = k
    BY <1>1, SMT
  <2> QED
    BY <1>5, <2>1
<1> QED
  BY <1>3, <1>6, <1>7 DEF IsCut

-----------------------------------------------------------------------------
(* The line in hand *)

\* Where it begins.
Here == offset + 1 - Len(line) - (IF pending_cr THEN 1 ELSE 0)

\* What the parser has in hand is the text of w from there.
InHand(w) ==
  /\ offset \in 0 .. Len(w) /\ Here \in 1 .. Len(w) + 1
  /\ \A k \in 1 .. Len(line) : w[Here + k - 1] = line[k] /\ line[k] \notin {CR, LF}
  /\ pending_cr => w[offset] = CR

\* Where the text in hand ends.
LEMMA HandPlace ==
  ASSUME IInv, NEW w, IsCut(w), InHand(w)
  PROVE  /\ Len(line) \in Nat /\ Len(w) \in Nat /\ offset \in Nat /\ Here \in Nat \ {0}
         /\ Plain(w, Here, Here + Len(line))
         /\ Here + Len(line) = IF pending_cr THEN offset ELSE offset + 1
         /\ Here + Len(line) \in Here .. Len(w) + 1
         /\ pending_cr => Here + Len(line) \in Here .. Len(w) /\ w[Here + Len(line)] = CR
<1>1. Len(line) \in Nat /\ Len(w) \in Nat /\ offset \in Nat /\ pending_cr \in BOOLEAN
  BY LenProperties, SMT DEF IInv, TypeOK, KeptOK, PositionOK, IsCut
<1>2. Here \in 1 .. Len(w) + 1 /\ offset <= Len(w)
  BY <1>1, SMT DEF InHand
<1>3. Here + Len(line) = IF pending_cr THEN offset ELSE offset + 1
  BY <1>1, SMT DEF Here
<1>4. Plain(w, Here, Here + Len(line))
  <2>1. ASSUME NEW k \in Here .. (Here + Len(line)) - 1 PROVE w[k] \notin {CR, LF}
    <3>1. k - Here + 1 \in 1 .. Len(line) /\ Here + (k - Here + 1) - 1 = k
      BY <1>1, <1>2, SMT
    <3>2. w[Here + (k - Here + 1) - 1] = line[k - Here + 1] /\ line[k - Here + 1] \notin {CR, LF}
      BY <3>1 DEF InHand
    <3> QED
      BY <3>1, <3>2
  <2> QED
    BY <2>1 DEF Plain
<1>5. Here + Len(line) \in Here .. Len(w) + 1
  BY <1>1, <1>2, <1>3, SMT
<1>6. pending_cr => Here + Len(line) \in Here .. Len(w) /\ w[Here + Len(line)] = CR
  <2>1. pending_cr => Here + Len(line) = offset
    BY <1>3
  <2>2. pending_cr => Here + Len(line) \in Here .. Len(w)
    BY <1>1, <1>2, <2>1, SMT
  <2> QED
    BY <2>1, <2>2 DEF InHand
<1> QED
  BY <1>1, <1>2, <1>3, <1>4, <1>5, <1>6, SMT

\* It is what the bytes from there are.
LEMMA HandText ==
  ASSUME IInv, NEW w, IsCut(w), InHand(w)
  PROVE  SubSeq(w, Here, Here + Len(line) - 1) = line
<1> DEFINE a == Here
           n == Len(line)
           m == a + n - 1
           s == SubSeq(w, a, m)
<1>1. n \in Nat /\ a \in Nat \ {0} /\ Len(w) \in Nat /\ a + n \in a .. Len(w) + 1
  BY HandPlace
<1>2. line \in Seq(Bytes) /\ w \in Seq(Bytes)
  BY DEF IInv, TypeOK, KeptOK, IsCut
<1>3. \A k \in 1 .. n : w[a + k - 1] = line[k]
  BY DEF InHand
<1>4. m = a + n - 1
  OBVIOUS
<1> HIDE DEF a, n, m
<1>5. m \in Int /\ a \in Int /\ \A k \in a .. m : k \in 1 .. Len(w)
  BY <1>1, <1>4, SMT
<1>6. \A k \in a .. m : w[k] \in Bytes
  BY <1>2, <1>5, ElementOfSeq
<1>7. /\ s \in Seq(Bytes) /\ Len(s) = IF a <= m THEN m - a + 1 ELSE 0
      /\ \A k \in 1 .. m - a + 1 : s[k] = w[a + k - 1]
  BY <1>5, <1>6, SubSeqProperties
<1>8. Len(s) = n /\ m - a + 1 = n
  BY <1>1, <1>4, <1>7, SMT
<1>9. \A k \in 1 .. n : s[k] = line[k]
  BY <1>3, <1>7, <1>8
<1> HIDE DEF s
<1>10. s = line
  BY <1>2, <1>7, <1>8, <1>9, SeqEqual DEF n
<1> QED
  BY <1>10 DEF s, a, n, m

\* With a line feed after its carriage return it is a line.
LEMMA LineComplete ==
  ASSUME IInv, NEW w, IsCut(w), InHand(w), pending_cr, Len(w) >= offset + 1,
         w[offset + 1] = LF
  PROVE  LineAt(w, Here) = {[text |-> line, next |-> offset + 2]}
<1>1. /\ Len(line) \in Nat /\ Len(w) \in Nat /\ offset \in Nat /\ Here \in Nat \ {0}
      /\ Plain(w, Here, offset) /\ Here + Len(line) = offset /\ w[offset] = CR
  BY HandPlace
<1>2. Here \in 1 .. Len(w) + 1 /\ offset \in Here .. Len(w) - 1
  BY <1>1, SMT
<1>3. offset - Here <= MaxLine
  <2>1. Len(line) <= MaxLine
    BY DEF IInv, WithinLimits
  <2> QED
    BY <1>1, <2>1, LimitsAssumption, SMT
<1>4. w \in Seq(Bytes)
  BY DEF IsCut
<1>5. LineAt(w, Here) = {[text |-> SubSeq(w, Here, offset - 1), next |-> offset + 2]}
  BY <1>1, <1>2, <1>3, <1>4, LineIs
<1>6. SubSeq(w, Here, offset - 1) = line
  BY <1>1, HandText
<1> QED
  BY <1>5, <1>6

\* The bytes end within the line.
LEMMA LineCutOff ==
  ASSUME IInv, NEW w, IsCut(w), InHand(w), Len(w) = offset
  PROVE  LineAt(w, Here) = {}
<1>1. /\ Here \in 1 .. Len(w) + 1 /\ w \in Seq(Bytes)
      /\ Plain(w, Here, Here + Len(line)) /\ Here + Len(line) \in Here .. Len(w) + 1
      /\ Here + Len(line) = IF pending_cr THEN offset ELSE offset + 1
      /\ pending_cr => w[Here + Len(line)] = CR
  BY HandPlace DEF InHand, IsCut
<1>2. \/ Here + Len(line) = Len(w) + 1
      \/ Here + Len(line) = Len(w) /\ w[Here + Len(line)] = CR
  BY <1>1
<1> QED
  BY <1>1, <1>2, NoLine

\* The byte that follows can not.
LEMMA LineRefused ==
  ASSUME IInv, NEW w, IsCut(w), InHand(w), Len(w) >= offset + 1,
         \/ ~pending_cr /\ w[offset + 1] = LF
         \/ pending_cr /\ w[offset + 1] # LF
  PROVE  LineAt(w, Here) = {}
<1>1. /\ Here \in 1 .. Len(w) + 1 /\ w \in Seq(Bytes)
      /\ Plain(w, Here, Here + Len(line)) /\ Here + Len(line) \in Here .. Len(w) + 1
      /\ Here + Len(line) = IF pending_cr THEN offset ELSE offset + 1
      /\ pending_cr => w[Here + Len(line)] = CR
  BY HandPlace DEF InHand, IsCut
<1>2. \/ w[Here + Len(line)] = LF
      \/ w[Here + Len(line)] = CR /\ w[Here + Len(line) + 1] # LF
  BY <1>1
<1> QED
  BY <1>1, <1>2, NoLine

\* A byte more that belongs to the text: how far it is plain.
LEMMA LineLonger ==
  ASSUME IInv, NEW w, IsCut(w), InHand(w), ~pending_cr, Len(w) >= offset + 1,
         w[offset + 1] \notin {CR, LF}
  PROVE  /\ Plain(w, Here, offset + 2) /\ offset + 2 \in Here .. Len(w) + 1
         /\ offset + 2 = Here + Len(line) + 1
<1>1. /\ Len(line) \in Nat /\ Len(w) \in Nat /\ offset \in Nat /\ Here \in Nat \ {0}
      /\ Plain(w, Here, offset + 1) /\ Here + Len(line) = offset + 1
  BY HandPlace
<1>2. Plain(w, Here, offset + 2)
  <2>1. ASSUME NEW k \in Here .. (offset + 2) - 1 PROVE w[k] \notin {CR, LF}
    <3>1. k = offset + 1 \/ k \in Here .. offset + 1 - 1
      BY <1>1, SMT
    <3> QED
      BY <1>1, <3>1 DEF Plain
  <2> QED
    BY <2>1 DEF Plain
<1> QED
  BY <1>1, <1>2, SMT

\* A byte of a line has been taken.
LEMMA HandGoesOn ==
  ASSUME IInv, ReadByte, outcome' = "none", NEW w, IsCut(w), Len(w) >= offset', InHand(w)
  PROVE  InHand(w)' /\ Here' = Here
<1>1. /\ Len(line) \in Nat /\ Len(w) \in Nat /\ offset \in Nat /\ Here \in Nat \ {0}
      /\ Here + Len(line) = IF pending_cr THEN offset ELSE offset + 1
  BY HandPlace
<1>2. ~pending_cr /\ Feeding /\ offset + 1 \in 1 .. Len(wire) /\ line \in Seq(Bytes)
      /\ wire[offset + 1] \in Bytes
  BY NextByte DEF ReadByte, IInv, TypeOK, KeptOK
<1> DEFINE byte == wire[offset + 1]
<1>3. offset' = offset + 1
  BY SMT DEF ReadByte, Fails, LimitError, Feeding
<1>4. offset + 1 \in 1 .. Len(w) /\ w[offset + 1] = byte
  <2>1. offset + 1 \in 1 .. Len(w)
    BY <1>1, <1>3, SMT
  <2> QED
    BY <2>1 DEF IsCut
<1>5. CASE byte = CR /\ pending_cr' = TRUE /\ UNCHANGED line
  <2>1. Here' = Here
    BY <1>1, <1>2, <1>3, <1>5, SMT DEF Here
  <2>2. offset' \in 0 .. Len(w)
    BY <1>1, <1>3, <1>4, SMT
  <2> QED
    BY <1>3, <1>4, <1>5, <2>1, <2>2 DEF InHand
<1>6. CASE byte \notin {CR, LF} /\ line' = Append(line, byte) /\ UNCHANGED pending_cr
  <2>1. /\ Len(line') = Len(line) + 1 /\ line'[Len(line) + 1] = byte
        /\ \A k \in 1 .. Len(line) : line'[k] = line[k]
    BY <1>2, <1>6, AppendProperties
  <2>2. Here' = Here
    BY <1>1, <1>2, <1>3, <1>6, <2>1, SMT DEF Here
  <2>3. offset' \in 0 .. Len(w)
    BY <1>1, <1>3, <1>4, SMT
  <2>4. ASSUME NEW k \in 1 .. Len(line) + 1
        PROVE  w[Here + k - 1] = line'[k] /\ line'[k] \notin {CR, LF}
    <3>1. CASE k \in 1 .. Len(line)
      BY <2>1, <3>1 DEF InHand
    <3>2. CASE k = Len(line) + 1
      <4>1. Here + k - 1 = offset + 1
        BY <1>1, <1>2, <3>2, SMT
      <4> QED
        BY <1>4, <1>6, <2>1, <3>2, <4>1
    <3> QED
      BY <1>1, <3>1, <3>2, SMT
  <2>5. ~pending_cr'
    BY <1>2, <1>6
  <2>6. Here \in 1 .. Len(w) + 1
    BY DEF InHand
  <2> HIDE DEF byte
  <2> QED
    BY <2>1, <2>2, <2>3, <2>4, <2>5, <2>6, Zenon DEF InHand
<1>7. \/ byte = CR /\ pending_cr' = TRUE /\ UNCHANGED line
      \/ byte \notin {CR, LF} /\ line' = Append(line, byte) /\ UNCHANGED pending_cr
  <2>1. "BareLineFeed" # "none" /\ LimitError # "none"
    BY DEF LimitError
  <2> QED
    BY <2>1, Zenon DEF ReadByte, Fails
<1> QED
  BY <1>5, <1>6, <1>7

\* A line is complete, and what begins next is the line after it.
LEMMA HandBegins ==
  ASSUME IInv, NEW s, LineOf(s), LineRead, NEW w, IsCut(w), Len(w) >= offset', InHand(w)
  PROVE  /\ InHand(w)' /\ Here' = offset + 2 /\ Here' = Here + Len(line) + 2
         /\ Here' \in 1 .. Len(w) + 1
         /\ LineAt(w, Here) = {[text |-> line, next |-> offset + 2]}
<1>1. /\ Len(line) \in Nat /\ Len(w) \in Nat /\ offset \in Nat /\ Here \in Nat \ {0}
      /\ Here + Len(line) = offset
  BY HandPlace DEF LineOf
<1>2. offset' = offset + 1 /\ line' = << >> /\ pending_cr' = FALSE /\ Len(<< >>) = 0
  BY DEF LineRead
<1>3. offset + 1 \in 1 .. Len(w)
  BY <1>1, <1>2, SMT
<1>4. w[offset + 1] = LF
  BY <1>3 DEF IsCut, LineOf
<1>5. LineAt(w, Here) = {[text |-> line, next |-> offset + 2]}
  BY <1>1, <1>2, <1>4, LineComplete DEF LineOf
<1>6. Here' = offset + 2 /\ Here' = Here + Len(line) + 2
  BY <1>1, <1>2, SMT DEF Here
<1>7. Here' \in 1 .. Len(w) + 1 /\ offset' \in 0 .. Len(w)
  BY <1>1, <1>2, <1>3, <1>6, SMT
<1>8. 1 .. Len(line') = {}
  BY <1>2, SMT
<1> QED
  BY <1>2, <1>5, <1>6, <1>7, <1>8, Zenon DEF InHand

\* No line ends there.
LEMMA LineEndsNowhere ==
  ASSUME IInv, WrongEnding \/ (ReadByte /\ wire[offset + 1] = LF),
         NEW w, IsCut(w), Len(w) >= upto, InHand(w)
  PROVE  LineAt(w, Here) = {}
<1>1. Feeding /\ offset + 1 <= upto /\ upto \in Nat /\ offset \in Nat
  <2>1. Feeding
    BY DEF WrongEnding, ReadByte
  <2> QED
    BY <2>1, NextByte, SMT DEF IInv, TypeOK, PositionOK
<1>2. Len(w) \in Nat
  BY HandPlace
<1>3. Len(w) >= offset + 1 /\ offset + 1 \in 1 .. Len(w)
  BY <1>1, <1>2, SMT
<1>4. w[offset + 1] = wire[offset + 1]
  BY <1>3 DEF IsCut
<1> QED
  BY <1>3, <1>4, LineRefused DEF WrongEnding, ReadByte

\* A line that does not fit: it is too long, or ends too late for its section.
LEMMA LineTooLong ==
  ASSUME IInv, ReadByte, outcome' = LimitError, NEW w, IsCut(w), Len(w) >= upto, InHand(w)
  PROVE  \E q \in Here .. Len(w) + 1 :
           /\ Plain(w, Here, q)
           /\ ~Fits(q - Here)
<1>1. /\ Len(line) \in Nat /\ Len(w) \in Nat /\ offset \in Nat /\ Here \in Nat \ {0}
      /\ Plain(w, Here, Here + Len(line)) /\ Here + Len(line) \in Here .. Len(w) + 1
      /\ Here + Len(line) = offset + 1
  BY HandPlace DEF ReadByte
<1>2. Feeding /\ offset + 1 <= upto /\ upto \in Nat
  <2>1. Feeding
    BY DEF ReadByte
  <2> QED
    BY <2>1, NextByte, SMT DEF IInv, TypeOK, PositionOK
<1>3. Len(w) >= offset + 1 /\ offset + 1 \in 1 .. Len(w)
  BY <1>1, <1>2, SMT
<1>4. w[offset + 1] = wire[offset + 1]
  BY <1>3 DEF IsCut
<1>5. \/ wire[offset + 1] = CR /\ ~Fits(Len(line))
      \/ wire[offset + 1] \notin {CR, LF} /\ ~Fits(Len(line) + 1)
  <2>1. LimitError # "BareLineFeed" /\ LimitError # "none"
    BY DEF LimitError
  <2>2. outcome = "none"
    BY DEF ReadByte, Feeding
  <2> QED
    BY <2>1, <2>2, Zenon DEF ReadByte, Fails
<1>6. CASE ~Fits(Len(line))
  <2>1. (offset + 1) - Here = Len(line)
    BY <1>1, SMT
  <2> QED
    BY <1>1, <1>6, <2>1
<1>7. CASE wire[offset + 1] \notin {CR, LF} /\ ~Fits(Len(line) + 1)
  <2>1. Plain(w, Here, offset + 2) /\ offset + 2 \in Here .. Len(w) + 1
    BY <1>3, <1>4, <1>7, LineLonger DEF ReadByte
  <2>2. (offset + 2) - Here = Len(line) + 1
    BY <1>1, SMT
  <2> QED
    BY <1>7, <2>1, <2>2
<1> QED
  BY <1>5, <1>6, <1>7

-----------------------------------------------------------------------------
(* Within a head *)

\* Where the head begins.
HeadBegins == Here - head_bytes

\* The lines of it so far.
HeadGathered(w, lines) ==
  /\ lines \in Seq(Seq(Bytes))
  /\ lines # << >> => Told(lines, current)
  /\ BlockAt(w, HeadBegins) = Prefixed(lines, BlockAt(w, Here))

\* The message of w is what begins with this head, of which the lines so far and
\* the line in hand have been read.
InHead(w) ==
  /\ InHand(w) /\ HeadBegins \in 1 .. Len(w) + 1
  /\ MessageOf(w, semantics) = MessageFrom(w, semantics, HeadBegins, informational)
  /\ \E lines : HeadGathered(w, lines) /\ (state = "StatusLine" <=> lines = << >>)

\* The numbers involved are places of w.
LEMMA HeadPlace ==
  ASSUME IInv, NEW w, IsCut(w), InHead(w)
  PROVE  /\ w \in Seq(Bytes) /\ Len(w) \in Nat
         /\ HeadBegins \in 1 .. Len(w) + 1 /\ Here \in 1 .. Len(w) + 1
         /\ Here = HeadBegins + head_bytes /\ head_bytes \in Nat
         /\ informational \in 0 .. MaxInformational
<1>1. w \in Seq(Bytes) /\ head_bytes \in Nat /\ informational \in Nat
      /\ informational <= MaxInformational
  BY DEF IsCut, IInv, TypeOK, KeptOK, WithinLimits
<1>2. HeadBegins \in 1 .. Len(w) + 1 /\ Here \in 1 .. Len(w) + 1
  BY DEF InHead, InHand
<1>3. Len(w) \in Nat
  BY <1>1, LenProperties
<1>4. Here = HeadBegins + head_bytes
  BY <1>1, <1>2, <1>3, SMT DEF HeadBegins
<1> QED
  BY <1>1, <1>2, <1>3, <1>4, LimitsAssumption, SMT

\* No head, no message.
LEMMA HeadWithout ==
  ASSUME IInv, NEW w, IsCut(w), InHead(w),
         \A block \in BlockAt(w, HeadBegins) : ~IsHead(w, HeadBegins, block)
  PROVE  MessageOf(w, semantics) = {}
<1>1. MessageFrom(w, semantics, HeadBegins, informational) = {}
  BY HeadPlace, WithoutHead
<1> QED
  BY <1>1 DEF InHead

\* A head that is cut off is none,
LEMMA HeadWithoutLine ==
  ASSUME IInv, NEW w, IsCut(w), InHead(w), LineAt(w, Here) = {}
  PROVE  MessageOf(w, semantics) = {}
<1>1. BlockAt(w, Here) = {}
  BY HeadPlace, BlockWithoutLine
<1>2. PICK lines : BlockAt(w, HeadBegins) = Prefixed(lines, BlockAt(w, Here))
  BY DEF InHead, HeadGathered
<1>3. BlockAt(w, HeadBegins) = {}
  BY <1>1, <1>2 DEF Prefixed
<1> QED
  BY <1>3, HeadWithout

\* and neither is one that is too long.
LEMMA HeadTooLong ==
  ASSUME IInv, NEW w, IsCut(w), InHead(w), Section = "head",
         NEW q \in Here .. Len(w) + 1, Plain(w, Here, q), ~Fits(q - Here)
  PROVE  MessageOf(w, semantics) = {}
<1>1. /\ w \in Seq(Bytes) /\ Len(w) \in Nat
      /\ HeadBegins \in 1 .. Len(w) + 1 /\ Here \in 1 .. Len(w) + 1
      /\ Here = HeadBegins + head_bytes /\ head_bytes \in Nat
  BY HeadPlace
<1>2. MaxLine \in Nat /\ MaxHead \in Nat
  BY LimitsAssumption
<1>3. q - Here > MaxLine \/ head_bytes + (q - Here) + 2 > MaxHead
  <2>1. q - Here \in Int
    BY <1>1, SMT
  <2> QED
    BY <1>1, <1>2, <2>1, SMT DEF Fits
<1>4. CASE q - Here > MaxLine
  <2>1. LineAt(w, Here) = {}
    BY <1>1, <1>4, NoLine
  <2> QED
    BY <2>1, HeadWithoutLine
<1>5. CASE head_bytes + (q - Here) + 2 > MaxHead
  <2>1. PICK lines : BlockAt(w, HeadBegins) = Prefixed(lines, BlockAt(w, Here))
    BY DEF InHead, HeadGathered
  <2>2. \A b \in BlockAt(w, HeadBegins) : b.next \in Nat /\ b.next >= q + 2
    BY <1>1, <2>1, BlockPast
  <2>3. \A n \in Nat : n >= q + 2 => ~(n - HeadBegins <= MaxHead)
    BY <1>1, <1>2, <1>5, SMT
  <2>4. \A b \in BlockAt(w, HeadBegins) : ~IsHead(w, HeadBegins, b)
    BY <2>2, <2>3 DEF IsHead
  <2> QED
    BY <2>4, HeadWithout
<1> QED
  BY <1>3, <1>4, <1>5

\* The lines so far, with the one in hand.
LEMMA HeadOneMore ==
  ASSUME IInv, NEW s, LineOf(s), LineRead, NEW w, IsCut(w), Len(w) >= offset', InHead(w),
         NEW lines, HeadGathered(w, lines)
  PROVE  /\ Here' \in 1 .. Len(w) + 1 /\ lines \in Seq(Seq(Bytes)) /\ line \in Seq(Bytes)
         /\ BlockAt(w, HeadBegins) =
              IF line = << >> THEN {[lines |-> lines, next |-> Here']}
              ELSE Prefixed(Append(lines, line), BlockAt(w, Here'))
<1>1. /\ w \in Seq(Bytes) /\ HeadBegins \in 1 .. Len(w) + 1 /\ Here \in 1 .. Len(w) + 1
  BY HeadPlace
<1>2. /\ Here' \in 1 .. Len(w) + 1
      /\ LineAt(w, Here) = {[text |-> line, next |-> Here']}
  BY HandBegins DEF InHead
<1>3. lines \in Seq(Seq(Bytes)) /\ line \in Seq(Bytes)
      /\ BlockAt(w, HeadBegins) = Prefixed(lines, BlockAt(w, Here))
  BY DEF HeadGathered, IInv, TypeOK, KeptOK
<1> QED
  BY <1>1, <1>2, <1>3, BlockGoesOn

\* A good line.
LEMMA HeadGoesOnIn ==
  ASSUME IInv, NEW s, LineOf(s), LineRead, HeadRead, line # << >>,
         UNCHANGED << semantics, informational >>, state' = "Headers",
         NEW w, IsCut(w), Len(w) >= offset', InHead(w),
         NEW lines, HeadGathered(w, lines),
         NEW all, all = Append(lines, line), Told(all, current')
  PROVE  InHead(w)'
<1>1. /\ Here' \in 1 .. Len(w) + 1 /\ lines \in Seq(Seq(Bytes)) /\ line \in Seq(Bytes)
      /\ BlockAt(w, HeadBegins) = Prefixed(Append(lines, line), BlockAt(w, Here'))
  BY HeadOneMore
<1>2. InHand(w)' /\ Here' = Here + Len(line) + 2
  BY HandBegins DEF InHead
<1>3. head_bytes' = head_bytes + Len(line) + 2
  BY DEF HeadRead
<1>4. HeadBegins' = HeadBegins
  <2>1. Here \in Nat /\ Len(line) \in Nat /\ head_bytes \in Nat
    BY HandPlace, HeadPlace DEF InHead
  <2> QED
    BY <1>2, <1>3, <2>1, SMT DEF HeadBegins
<1>5. all \in Seq(Seq(Bytes)) /\ all # << >>
  BY <1>1, AppendProperties
<1>6. HeadGathered(w, all)'
  BY <1>1, <1>4, <1>5 DEF HeadGathered
<1>7. HeadBegins' \in 1 .. Len(w) + 1
      /\ MessageOf(w, semantics') = MessageFrom(w, semantics', HeadBegins', informational')
  BY <1>4 DEF InHead
<1>8. (\E some : HeadGathered(w, some) /\ (state = "StatusLine" <=> some = << >>))'
  BY <1>5, <1>6
<1> QED
  BY <1>2, <1>7, <1>8 DEF InHead

\* A head begins, after no line of it.
LEMMA HeadStarts ==
  ASSUME NEW w \in Seq(Bytes), Here \in 1 .. Len(w) + 1, head_bytes = 0
  PROVE  HeadBegins = Here /\ HeadGathered(w, << >>)
<1>1. HeadBegins = Here
  BY LenProperties, SMT DEF HeadBegins
<1>2. << >> \in Seq(Seq(Bytes))
  BY EmptySeq
<1> QED
  BY <1>1, <1>2, BlockBegins DEF HeadGathered

\* A bad line.
LEMMA HeadFault ==
  ASSUME IInv, NEW s, LineOf(s), NEW w, IsCut(w), Len(w) >= upto, InHead(w),
         NEW lines, HeadGathered(w, lines), line # << >>, ~HeadLines(Append(lines, line))
  PROVE  MessageOf(w, semantics) = {}
<1>1. /\ w \in Seq(Bytes) /\ Len(w) \in Nat
      /\ HeadBegins \in 1 .. Len(w) + 1 /\ Here \in 1 .. Len(w) + 1
  BY HeadPlace
<1>2. offset + 1 <= upto /\ upto \in Nat /\ offset \in Nat
  BY NextByte, SMT DEF LineOf, IInv, TypeOK, PositionOK
<1>3. Len(w) >= offset + 1 /\ offset + 1 \in 1 .. Len(w) /\ offset + 2 \in 1 .. Len(w) + 1
  BY <1>1, <1>2, SMT
<1>4. LineAt(w, Here) = {[text |-> line, next |-> offset + 2]}
  BY <1>3, LineComplete DEF LineOf, IsCut, InHead
<1>5. lines \in Seq(Seq(Bytes)) /\ line \in Seq(Bytes)
      /\ BlockAt(w, HeadBegins) = Prefixed(lines, BlockAt(w, Here))
  BY DEF HeadGathered, IInv, TypeOK, KeptOK
<1>6. BlockAt(w, HeadBegins) = Prefixed(Append(lines, line), BlockAt(w, offset + 2))
  BY <1>1, <1>3, <1>4, <1>5, BlockGoesOn, SMTT(30)
<1>7. Append(lines, line) \in Seq(Seq(Bytes)) /\ Append(lines, line) # << >>
  BY <1>5, AppendProperties
<1>8. \A block \in BlockAt(w, HeadBegins) : ~IsHead(w, HeadBegins, block)
  BY <1>1, <1>3, <1>6, <1>7, FaultyHead
<1> QED
  BY <1>8, HeadWithout

-----------------------------------------------------------------------------
(* What the bytes mean, by what the parser has kept of them *)

\* Chunks after a part of the body.
Joined(part, chunks) == {[body |-> part \o c.body, next |-> c.next] : c \in chunks}
Chunked(part, chunks) == {c \in Joined(part, chunks) : Len(c.body) <= MaxBody}

\* The message of w is the body so far and the chunks from the line in hand.
InChunkSize(w) ==
  /\ InHand(w)
  /\ MessageOf(w, semantics)
       = FramedBy(Chunked(body, ChunksFrom(w, Here)), final_connection_close)

\* Within a chunk, after which the body will be this part, with its end at i.
Ended(w, i) == i \in 1 .. Len(w) - 1 /\ w[i] = CR /\ w[i + 1] = LF
InChunk(w, part, i) ==
  MessageOf(w, semantics) =
    IF Ended(w, i) THEN FramedBy(Chunked(part, ChunksFrom(w, i + 2)), final_connection_close)
    ELSE {}

\* The body with the bytes that it is still due.
Rest(w) == SubSeq(w, offset + 1, offset + remaining)

\* Where the trailer begins, the lines of it so far, and the message of w as the
\* body with this trailer.
TrailerBegins == Here - trailer_bytes
TrailerGathered(w, lines) ==
  /\ lines \in Seq(Seq(Bytes)) /\ Len(lines) = trailers
  /\ \A k \in 1 .. Len(lines) : lines[k][1].is = "field" /\ OneKind(lines[k])
  /\ BlockAt(w, TrailerBegins) = Prefixed(lines, BlockAt(w, Here))
InTrailers(w) ==
  /\ InHand(w) /\ TrailerBegins \in 1 .. Len(w) + 1
  /\ MessageOf(w, semantics)
       = FramedBy({[body |-> body, next |-> t.next] : t \in TrailerAt(w, TrailerBegins)},
                  final_connection_close)
  /\ \E lines : TrailerGathered(w, lines)

\* The message of w is the body so far with the bytes that it is still due, if
\* they are there.
InFixedBody(w) ==
  MessageOf(w, semantics) =
    IF offset + remaining <= Len(w)
      THEN FramedBy({[body |-> body \o Rest(w), next |-> offset + remaining + 1]},
                    final_connection_close)
    ELSE {}

\* The message of w is the body so far with all that w still has, if it fits.
InCloseBody(w) ==
  MessageOf(w, semantics) =
    IF Len(body) + (Len(w) - offset) <= MaxBody
      THEN OpenBy({[body |-> body \o SubSeq(w, offset + 1, Len(w)), next |-> Len(w) + 1]})
    ELSE {}

\* What the bytes of w mean, in each state of the parser.
Expected(w) ==
  /\ state \in {"StatusLine", "Headers"} => InHead(w)
  /\ state = "ChunkSize" => InChunkSize(w)
  /\ state = "ChunkData" => InChunk(w, body \o Rest(w), offset + 1 + remaining)
  /\ state = "ChunkTerminator" => /\ InChunk(w, body, offset + remaining - 1)
                                  /\ remaining = 1 => offset > 0 /\ w[offset] = CR
  /\ state = "Trailers" => InTrailers(w)
  /\ state = "FixedBody" => InFixedBody(w)
  /\ state = "CloseBody" => InCloseBody(w)

\* What the parser has not begun to count or keep.
CountInv ==
  /\ state # "Trailers" => trailer_bytes = 0 /\ trailers = 0
  /\ state = "StatusLine" => head_bytes = 0 /\ current = DefaultHead
  /\ state = "CloseBody" => final_connection_close
  /\ state \notin LineStates => line = << >> /\ ~pending_cr
  /\ state # "Done"

-----------------------------------------------------------------------------
(* The actions of the head *)

\* What parse_status_line() keeps is what the line says.
LEMMA StatusIsTold ==
  ASSUME IInv, current = DefaultHead, line # << >>, IsStatus(line),
         current' = [current EXCEPT !.version = line[1].is, !.status = line[1].n]
  PROVE  Told(<< line >>, current')
<1>1. Len(<< line >>) = 1 /\ << line >>[1] = line
  OBVIOUS
<1>2. PICK lines : lines = << line >>
  OBVIOUS
<1>3. Len(lines) = 1 /\ lines[1] = line
  BY <1>1, <1>2
<1>4. 2 .. Len(lines) = {}
  BY <1>3, SMT
<1>5. /\ current'.version = line[1].is /\ current'.status = line[1].n
      /\ current'.headers = 0 /\ current'.content_length = NoLength
      /\ ~current'.chunked /\ ~current'.close /\ ~current'.keep_alive
  BY DEF DefaultHead
<1>6. \A kind : ~IsOf(lines, kind)
  BY <1>4 DEF IsOf
<1>7. OneCoding(lines)
  BY <1>4 DEF OneCoding
<1>8. current'.headers = Len(lines) - 1
  BY <1>3, <1>5, SMT
<1>9. Told(lines, current')
  BY <1>3, <1>4, <1>5, <1>6, <1>7, <1>8, Zenon DEF Told
<1> QED
  BY <1>2, <1>9

\* Of every cut of the wire: while the parser goes on, what the cut means is
\* again what it has kept; and when it gives up, no cut with the bytes it has been
\* fed is a message. The lemmas of the other actions say the same.
LEMMA ParseStatusLineMeans ==
  ASSUME IInv, CountInv, ParseStatusLine, NEW w, IsCut(w), Expected(w)
  PROVE  /\ outcome' = "none" /\ Len(w) >= offset' => Expected(w)'
         /\ outcome' # "none" /\ Len(w) >= upto => MessageOf(w, semantics) = {}
<1>1. LineOf("StatusLine") /\ state = "StatusLine" /\ outcome = "none" /\ UNCHANGED semantics
  BY DEF ParseStatusLine, LineOf, Feeding
<1>2. InHead(w) /\ current = DefaultHead /\ head_bytes = 0
  BY <1>1, Zenon DEF Expected, CountInv
<1>3. HeadGathered(w, << >>)
  BY <1>1, <1>2 DEF InHead
<1>4. line \in Seq(Bytes)
  BY DEF IInv, TypeOK, KeptOK
<1>5. CASE /\ line # << >> /\ IsStatus(line) /\ LineRead /\ HeadRead
           /\ state' = "Headers"
           /\ current' = [current EXCEPT !.version = line[1].is, !.status = line[1].n]
           /\ UNCHANGED << informational, outcome >>
  <2> SUFFICES ASSUME Len(w) >= offset' PROVE Expected(w)'
    BY <1>1, <1>5
  <2>1. PICK all : all = Append(<< >>, line)
    OBVIOUS
  <2>2. all = << line >>
    BY <2>1
  <2>3. Told(all, current')
    BY <1>2, <1>5, <2>2, StatusIsTold
  <2>4. InHead(w)'
    BY <1>1, <1>2, <1>3, <1>5, <2>1, <2>3, HeadGoesOnIn
  <2> QED
    BY <1>5, <2>4 DEF Expected
<1>6. CASE ~(line # << >> /\ IsStatus(line)) /\ outcome' # "none"
  <2> SUFFICES ASSUME Len(w) >= upto PROVE MessageOf(w, semantics) = {}
    BY <1>6
  <2>1. CASE line = << >>
    <3>1. /\ w \in Seq(Bytes) /\ Len(w) \in Nat
          /\ HeadBegins \in 1 .. Len(w) + 1 /\ Here \in 1 .. Len(w) + 1
      BY <1>2, HeadPlace
    <3>2. offset + 1 <= upto /\ upto \in Nat /\ offset \in Nat
      BY <1>1, NextByte, SMT DEF LineOf, IInv, TypeOK, PositionOK
    <3>3. Len(w) >= offset + 1 /\ offset + 1 \in 1 .. Len(w) /\ offset + 2 \in 1 .. Len(w) + 1
      BY <3>1, <3>2, SMT
    <3>4. LineAt(w, Here) = {[text |-> line, next |-> offset + 2]}
      BY <1>1, <1>2, <3>3, LineComplete DEF LineOf, IsCut, InHead
    <3>5. BlockAt(w, HeadBegins) = {[lines |-> << >>, next |-> offset + 2]}
      <4>1. BlockAt(w, HeadBegins) = BlockAt(w, Here)
        BY <3>1, <1>2, SMT DEF HeadBegins
      <4> QED
        BY <2>1, <3>1, <3>4, <4>1, BlockOfLine
    <3>6. \A block \in BlockAt(w, HeadBegins) : ~IsHead(w, HeadBegins, block)
      BY <3>5 DEF IsHead
    <3> QED
      BY <1>2, <3>6, HeadWithout
  <2>2. CASE line # << >> /\ ~IsStatus(line)
    <3>1. Append(<< >>, line)[1] = line
      OBVIOUS
    <3>2. ~HeadLines(Append(<< >>, line))
      BY <2>2, <3>1 DEF HeadLines
    <3> QED
      BY <1>1, <1>2, <1>3, <2>2, <3>2, HeadFault
  <2> QED
    BY <1>6, <2>1, <2>2
<1>7. StatusError # "none"
  BY DEF StatusError
<1>8. Fails(StatusError) => outcome' # "none"
  BY <1>7 DEF Fails
<1> QED
  BY <1>5, <1>6, <1>8, Zenon DEF ParseStatusLine

LEMMA ParseFieldMeans ==
  ASSUME IInv, CountInv, ParseField, NEW w, IsCut(w), Expected(w)
  PROVE  /\ outcome' = "none" /\ Len(w) >= offset' => Expected(w)'
         /\ outcome' # "none" /\ Len(w) >= upto => MessageOf(w, semantics) = {}
<1>1. LineOf("Headers") /\ state = "Headers" /\ outcome = "none" /\ line # << >>
      /\ UNCHANGED semantics
  BY DEF ParseField, LineOf, Feeding
<1>2. InHead(w)
  BY <1>1, Zenon DEF Expected
<1>3. PICK lines : HeadGathered(w, lines) /\ lines # << >>
  BY <1>1, <1>2 DEF InHead
<1>4. /\ line \in Seq(Bytes) /\ current \in Heads
      /\ lines \in Seq(Seq(Bytes)) /\ Told(lines, current)
  BY <1>3 DEF IInv, TypeOK, KeptOK, HeadGathered
<1>5. CASE /\ FieldError = "none" /\ LineRead /\ HeadRead /\ current' = Applied
           /\ UNCHANGED << state, informational, outcome >>
  <2> SUFFICES ASSUME Len(w) >= offset' PROVE Expected(w)'
    BY <1>1, <1>5
  <2>1. PICK all : all = Append(lines, line)
    OBVIOUS
  <2>2. Told(all, current')
    BY <1>1, <1>3, <1>4, <1>5, <2>1, ToldGoesOn
  <2>3. InHead(w)'
    BY <1>1, <1>2, <1>3, <1>5, <2>1, <2>2, HeadGoesOnIn
  <2>4. state' = "Headers"
    BY <1>1, <1>5
  <2> QED
    BY <2>3, <2>4 DEF Expected
<1>6. CASE FieldError # "none" /\ Fails(FieldError)
  <2>1. outcome' # "none"
    BY <1>6 DEF Fails
  <2> SUFFICES ASSUME Len(w) >= upto PROVE MessageOf(w, semantics) = {}
    BY <2>1
  <2>2. ~HeadLines(Append(lines, line))
    BY <1>1, <1>3, <1>4, <1>6, ToldFault
  <2> QED
    BY <1>1, <1>2, <1>3, <2>2, HeadFault
<1> QED
  BY <1>5, <1>6, Zenon DEF ParseField

\* At the empty line the head is one block of the grammar.
LEMMA HeadIsWhole ==
  ASSUME IInv, CountInv, LineOf("Headers"), line = << >>, NEW w, IsCut(w), Expected(w),
         Len(w) >= offset + 1
  PROVE  /\ InHead(w) /\ w \in Seq(Bytes) /\ HeadBegins \in 1 .. Len(w) + 1
         /\ informational \in 0 .. MaxInformational
         /\ current.headers <= MaxHeaders
         /\ MessageOf(w, semantics) = MessageFrom(w, semantics, HeadBegins, informational)
         /\ offset + 2 \in 1 .. Len(w) + 1 /\ Len(w) \in Nat /\ offset \in Nat
         /\ \E b : /\ BlockAt(w, HeadBegins) = {b} /\ IsHeadBlock(w, b)
                   /\ b.next = offset + 2 /\ b.next - HeadBegins <= MaxHead
<1>1. state = "Headers" /\ pending_cr /\ wire[offset + 1] = LF
  BY DEF LineOf
<1>2. InHead(w)
  BY <1>1, Zenon DEF Expected
<1>3. /\ w \in Seq(Bytes) /\ Len(w) \in Nat
      /\ HeadBegins \in 1 .. Len(w) + 1 /\ Here \in 1 .. Len(w) + 1
      /\ Here = HeadBegins + head_bytes /\ head_bytes \in Nat
      /\ informational \in 0 .. MaxInformational
  BY <1>2, HeadPlace
<1>4. offset \in Nat /\ Here + Len(line) = offset /\ Len(line) = 0
  BY <1>1, <1>2, HandPlace DEF InHead
<1>5. offset + 1 \in 1 .. Len(w) /\ offset + 2 \in 1 .. Len(w) + 1
  BY <1>3, <1>4, SMT
<1>6. LineAt(w, Here) = {[text |-> line, next |-> offset + 2]}
  BY <1>1, <1>2, <1>5, LineComplete DEF IsCut, InHead
<1>7. PICK lines : HeadGathered(w, lines) /\ lines # << >>
  BY <1>1, <1>2 DEF InHead
<1>8. lines \in Seq(Seq(Bytes)) /\ Told(lines, current)
      /\ BlockAt(w, HeadBegins) = Prefixed(lines, BlockAt(w, Here))
  BY <1>7 DEF HeadGathered
<1>9. BlockAt(w, HeadBegins) = {[lines |-> lines, next |-> offset + 2]}
  <2>1. line \in Seq(Bytes)
    BY DEF IInv, TypeOK, KeptOK
  <2>2. PICK q, h, p, text : q = offset + 2 /\ h = HeadBegins /\ p = Here /\ text = line
    OBVIOUS
  <2>3. /\ q \in 1 .. Len(w) + 1 /\ h \in 1 .. Len(w) + 1 /\ p \in 1 .. Len(w) + 1
        /\ BlockAt(w, h) = Prefixed(lines, BlockAt(w, p))
        /\ LineAt(w, p) = {[text |-> text, next |-> q]} /\ text \in Seq(Bytes)
    BY <1>3, <1>5, <1>6, <1>8, <2>1, <2>2
  <2>4. BlockAt(w, h) = IF text = << >> THEN {[lines |-> lines, next |-> q]}
                        ELSE Prefixed(Append(lines, text), BlockAt(w, q))
    BY <1>3, <1>8, <2>3, BlockGoesOn
  <2>5. BlockAt(w, h) = {[lines |-> lines, next |-> q]}
    BY <2>2, <2>4
  <2> QED
    BY <2>2, <2>5
<1> DEFINE b == [lines |-> lines, next |-> offset + 2]
<1>10. b.lines = lines /\ b.next = offset + 2
  OBVIOUS
<1>11. BlockAt(w, HeadBegins) = {b}
  BY <1>9
<1> HIDE DEF b
<1>12. IsHeadBlock(w, b)
  BY <1>7, <1>8, <1>10 DEF IsHeadBlock, IInv, TypeOK, KeptOK, PositionOK
<1>13. b.next - HeadBegins <= MaxHead
  <2>1. Section = "head"
    BY <1>1 DEF Section
  <2>2. head_bytes + Len(line) + 2 <= MaxHead
    BY <1>1, <2>1 DEF IInv, LineInv, Fits
  <2> QED
    BY <1>3, <1>4, <1>10, <2>2, LimitsAssumption, SMT
<1>14. current.headers <= MaxHeaders
  BY DEF IInv, WithinLimits
<1> QED
  BY <1>2, <1>3, <1>4, <1>5, <1>10, <1>11, <1>12, <1>13, <1>14 DEF InHead

LEMMA RefuseHeadMeans ==
  ASSUME IInv, CountInv, RefuseHead, NEW w, IsCut(w), Expected(w), Len(w) >= upto
  PROVE  MessageOf(w, semantics) = {}
<1>1. LineOf("Headers") /\ line = << >> /\ HeadError # "none" /\ Feeding
  BY DEF RefuseHead, LineOf
<1>2. Len(w) >= offset + 1
  <2>1. offset + 1 <= upto /\ offset \in Nat /\ upto \in Nat /\ Len(w) \in Nat
    BY <1>1, NextByte, SMT DEF IInv, TypeOK, PositionOK, IsCut
  <2> QED
    BY <2>1, SMT
<1> QED
  BY <1>1, <1>2, HeadIsWhole, RefusedHead

LEMMA InformationalMeans ==
  ASSUME IInv, CountInv, Informational, NEW w, IsCut(w), Expected(w), Len(w) >= offset'
  PROVE  Expected(w)'
<1>1. /\ LineOf("Headers") /\ line = << >> /\ HeadError = "none" /\ LineRead /\ IsInformational
      /\ informational' = informational + 1 /\ current' = DefaultHead /\ head_bytes' = 0
      /\ state' = "StatusLine" /\ UNCHANGED semantics /\ offset' = offset + 1
  BY DEF Informational, HeadLine, LineOf, LineRead
<1>2. /\ InHead(w) /\ w \in Seq(Bytes) /\ HeadBegins \in 1 .. Len(w) + 1
      /\ informational \in 0 .. MaxInformational
      /\ current.headers <= MaxHeaders
      /\ MessageOf(w, semantics) = MessageFrom(w, semantics, HeadBegins, informational)
      /\ \E b : /\ BlockAt(w, HeadBegins) = {b} /\ IsHeadBlock(w, b)
                /\ b.next = offset + 2 /\ b.next - HeadBegins <= MaxHead
  BY <1>1, HeadIsWhole
<1>3. MessageOf(w, semantics) = MessageFrom(w, semantics, offset + 2, informational + 1)
  BY <1>1, <1>2, InformationalHead
<1>4. InHand(w)' /\ Here' = offset + 2 /\ Here' \in 1 .. Len(w) + 1
  BY <1>1, <1>2, HandBegins DEF InHead
<1>5. (HeadBegins = Here /\ HeadGathered(w, << >>))'
  <2>1. HeadBegins' = Here'
    <3>1. HeadBegins' = Here' - head_bytes'
      BY DEF HeadBegins
    <3>2. offset \in Nat
      BY DEF IInv, TypeOK, PositionOK
    <3> QED
      BY <1>1, <1>4, <3>1, <3>2, SMT
  <2>2. << >> \in Seq(Seq(Bytes))
    BY EmptySeq
  <2>3. BlockAt(w, Here') = Prefixed(<< >>, BlockAt(w, Here'))
    BY <1>2, <1>4, BlockBegins
  <2> QED
    BY <2>1, <2>2, <2>3 DEF HeadGathered
<1>6. (\E some : HeadGathered(w, some) /\ (state = "StatusLine" <=> some = << >>))'
  BY <1>1, <1>5
<1>7. MessageOf(w, semantics') = MessageFrom(w, semantics', HeadBegins', informational')
  BY <1>1, <1>3, <1>4, <1>5
<1>8. InHead(w)'
  BY <1>4, <1>5, <1>6, <1>7 DEF InHead
<1> QED
  BY <1>1, <1>8 DEF Expected

\* What follows a head that is neither refused nor informational.
LEMMA HeadIsFinal ==
  ASSUME IInv, CountInv, HeadLine, ~IsInformational, NEW w, IsCut(w), Expected(w),
         Len(w) >= offset + 1
  PROVE  MessageOf(w, semantics) =
           IF EndsAtHead THEN FramedBy({[body |-> << >>, next |-> offset + 2]}, Closes)
           ELSE IF current.chunked THEN FramedBy(ChunksAt(w, offset + 2), Closes)
           ELSE IF HasFraming
             THEN FramedBy(SizedAt(w, offset + 2, {current.content_length}), Closes)
           ELSE IF Len(w) - (offset + 2) + 1 > MaxBody THEN {}
           ELSE OpenBy({[body |-> SubSeq(w, offset + 2, Len(w)), next |-> Len(w) + 1]})
<1>1. LineOf("Headers") /\ line = << >> /\ HeadError = "none"
  BY DEF HeadLine
<1>2. /\ w \in Seq(Bytes) /\ HeadBegins \in 1 .. Len(w) + 1
      /\ informational \in 0 .. MaxInformational
      /\ current.headers <= MaxHeaders
      /\ MessageOf(w, semantics) = MessageFrom(w, semantics, HeadBegins, informational)
      /\ \E b : /\ BlockAt(w, HeadBegins) = {b} /\ IsHeadBlock(w, b)
                /\ b.next = offset + 2 /\ b.next - HeadBegins <= MaxHead
  BY <1>1, HeadIsWhole
<1>3. PICK b : /\ BlockAt(w, HeadBegins) = {b} /\ IsHeadBlock(w, b)
               /\ b.next = offset + 2 /\ b.next - HeadBegins <= MaxHead
  BY <1>2
<1>4. MessageFrom(w, semantics, HeadBegins, informational) =
           IF EndsAtHead THEN FramedBy({[body |-> << >>, next |-> b.next]}, Closes)
           ELSE IF current.chunked THEN FramedBy(ChunksAt(w, b.next), Closes)
           ELSE IF HasFraming
             THEN FramedBy(SizedAt(w, b.next, {current.content_length}), Closes)
           ELSE IF Len(w) - b.next + 1 > MaxBody THEN {}
           ELSE OpenBy({[body |-> SubSeq(w, b.next, Len(w)), next |-> Len(w) + 1]})
  BY <1>1, <1>2, <1>3, FinalHead
<1> QED
  BY <1>2, <1>3, <1>4

\* A body of a known length.
LEMMA SizedIs ==
  ASSUME NEW w, NEW i \in Nat, NEW n \in Nat, n <= MaxBody
  PROVE  SizedAt(w, i, {n}) = IF i + n - 1 <= Len(w)
                                THEN {[body |-> SubSeq(w, i, i + n - 1), next |-> i + n]}
                              ELSE {}
<1>1. {m \in {n} : m <= MaxBody /\ i + m - 1 <= Len(w)}
        = IF i + n - 1 <= Len(w) THEN {n} ELSE {}
  OBVIOUS
<1>2. CASE i + n - 1 <= Len(w)
  BY <1>1, <1>2 DEF SizedAt
<1>3. CASE ~(i + n - 1 <= Len(w))
  BY <1>1, <1>3 DEF SizedAt
<1> QED
  BY <1>2, <1>3

\* A body in chunks, of which no part has been read.
LEMMA ChunksAtIs ==
  ASSUME NEW w \in Seq(Bytes), NEW i \in 1 .. Len(w) + 1
  PROVE  ChunksAt(w, i) = Chunked(<< >>, ChunksFrom(w, i))
<1>1. ASSUME NEW c \in ChunksFrom(w, i)
      PROVE  c = [body |-> << >> \o c.body, next |-> c.next]
  <2>1. IsPart(c)
    BY ChunkTyped
  <2>2. << >> \o c.body = c.body
    BY <2>1, ConcatEmptySeq DEF IsPart
  <2> QED
    BY <2>1, <2>2 DEF IsPart
<1>2. ChunksFrom(w, i) = Joined(<< >>, ChunksFrom(w, i))
  BY <1>1 DEF Joined
<1> QED
  BY <1>2 DEF Chunked, ChunksAt

\* A length that the head says frames its body.
LEMMA HeadLength ==
  ASSUME IInv
  PROVE  /\ current.content_length \in Int
         /\ current.content_length # NoLength => current.content_length \in Nat
         /\ current.content_length = 0 => HasFraming
         /\ current.content_length > 0 => HasFraming
  BY SMT DEF IInv, TypeOK, KeptOK, Heads, NoLength, HasFraming

\* A response that is complete with its head is the message of the bytes so far.
LEMMA HeadCompletesMeans ==
  ASSUME IInv, CountInv, HeadCompletes, NEW w, IsCut(w), Expected(w), Len(w) = offset'
  PROVE  MessageOf(w, semantics)
           = FramedBy({[body |-> body', next |-> offset' + 1]}, final_connection_close')
<1>1. /\ HeadLine /\ ~IsInformational /\ offset' = offset + 1 /\ state = "Headers"
      /\ EndsAtHead \/ (~current.chunked /\ current.content_length = 0)
      /\ final_connection_close' = Closes /\ body' = body
  BY DEF HeadCompletes, HeadLine, LineRead, LineOf
<1>2. offset \in Nat /\ Len(w) = offset + 1
  BY <1>1 DEF IInv, TypeOK, PositionOK
<1>3. body = << >>
  BY <1>1 DEF IInv, LineInv
<1>4. MessageOf(w, semantics) =
           IF EndsAtHead THEN FramedBy({[body |-> << >>, next |-> offset + 2]}, Closes)
           ELSE IF current.chunked THEN FramedBy(ChunksAt(w, offset + 2), Closes)
           ELSE IF HasFraming
             THEN FramedBy(SizedAt(w, offset + 2, {current.content_length}), Closes)
           ELSE IF Len(w) - (offset + 2) + 1 > MaxBody THEN {}
           ELSE OpenBy({[body |-> SubSeq(w, offset + 2, Len(w)), next |-> Len(w) + 1]})
  <2>1. Len(w) >= offset + 1
    BY <1>2, SMT
  <2> QED
    BY <1>1, <2>1, HeadIsFinal
<1>5. offset + 2 = offset' + 1
  BY <1>1, <1>2, SMT
<1>6. CASE EndsAtHead
  BY <1>1, <1>3, <1>4, <1>5, <1>6
<1>7. CASE ~EndsAtHead
  <2>1. MessageOf(w, semantics) = FramedBy(SizedAt(w, offset + 2, {0}), Closes)
    BY <1>1, <1>4, <1>7, HeadLength
  <2>2. SubSeq(w, offset + 2, offset + 2 + 0 - 1) = << >>
    BY <1>2, SubSeqEmpty, SMT
  <2>3. SizedAt(w, offset + 2, {0}) = {[body |-> << >>, next |-> offset + 2]}
    <3>1. 0 <= MaxBody /\ offset + 2 + 0 - 1 <= Len(w) /\ offset + 2 \in Nat
          /\ offset + 2 + 0 = offset + 2
      BY <1>2, LimitsAssumption, SMT
    <3> QED
      BY <2>2, <3>1, SizedIs
  <2> QED
    BY <1>1, <1>3, <1>5, <2>1, <2>3
<1> QED
  BY <1>6, <1>7

LEMMA BodyFollowsMeans ==
  ASSUME IInv, CountInv, BodyFollows, NEW w, IsCut(w), Expected(w), Len(w) >= offset'
  PROVE  Expected(w)'
<1>1. /\ HeadLine /\ ~IsInformational /\ ~EndsAtHead /\ offset' = offset + 1
      /\ LineOf("Headers") /\ LineRead /\ HeadError = "none" /\ state = "Headers"
      /\ body' = body /\ semantics' = semantics
  BY DEF BodyFollows, HeadLine, LineRead, LineOf
<1>2. offset \in Nat /\ Len(w) \in Nat /\ w \in Seq(Bytes) /\ Len(w) >= offset + 1
  BY <1>1, LenProperties, SMT DEF IInv, TypeOK, PositionOK, IsCut
<1>3. body = << >> /\ body' = << >>
  BY <1>1 DEF IInv, LineInv
<1>4. MessageOf(w, semantics) =
           IF current.chunked THEN FramedBy(ChunksAt(w, offset + 2), Closes)
           ELSE IF HasFraming
             THEN FramedBy(SizedAt(w, offset + 2, {current.content_length}), Closes)
           ELSE IF Len(w) - (offset + 2) + 1 > MaxBody THEN {}
           ELSE OpenBy({[body |-> SubSeq(w, offset + 2, Len(w)), next |-> Len(w) + 1]})
  BY <1>1, <1>2, HeadIsFinal
<1>5. InHead(w)
  BY <1>1, Zenon DEF Expected
<1>6. InHand(w)' /\ Here' = offset + 2 /\ Here' \in 1 .. Len(w) + 1
  BY <1>1, <1>5, HandBegins DEF InHead
<1>7. CASE /\ current.chunked
           /\ state' = "ChunkSize" /\ final_connection_close' = Closes
  <2>1. ChunksAt(w, Here') = Chunked(<< >>, ChunksFrom(w, Here'))
    BY <1>2, <1>6, ChunksAtIs
  <2>2. MessageOf(w, semantics') = FramedBy(Chunked(body', ChunksFrom(w, Here')),
                                            final_connection_close')
    BY <1>1, <1>3, <1>4, <1>6, <1>7, <2>1
  <2>3. InChunkSize(w)'
    BY <1>6, <2>2 DEF InChunkSize
  <2> QED
    BY <1>7, <2>3 DEF Expected
<1>8. CASE /\ ~current.chunked /\ current.content_length > 0
           /\ state' = "FixedBody" /\ remaining' = current.content_length
           /\ final_connection_close' = Closes
  <2>1. PICK n : n = current.content_length
    OBVIOUS
  <2>2. n \in Nat /\ n <= MaxBody
    <3>1. n \in Int /\ n > 0 /\ ~(n > MaxBody)
      BY <1>1, <1>8, <2>1, HeadLength, HeadErrorIs
    <3> QED
      BY <3>1, LimitsAssumption, SMT
  <2>3. MessageOf(w, semantics) = FramedBy(SizedAt(w, offset + 2, {n}), Closes)
    BY <1>4, <1>8, <2>1, HeadLength
  <2>4. SizedAt(w, offset + 2, {n}) =
          IF offset + 2 + n - 1 <= Len(w)
            THEN {[body |-> SubSeq(w, offset + 2, offset + 2 + n - 1), next |-> offset + 2 + n]}
          ELSE {}
    <3>1. offset + 2 \in Nat
      BY <1>2
    <3> QED
      BY <2>2, <3>1, SizedIs
  <2>5. /\ offset' + 1 = offset + 2 /\ offset' + remaining' = offset + 2 + n - 1
        /\ offset' + remaining' + 1 = offset + 2 + n
    BY <1>1, <1>2, <1>8, <2>1, <2>2, SMT
  <2>6. Rest(w)' = SubSeq(w, offset + 2, offset + 2 + n - 1)
    BY <2>5 DEF Rest
  <2>7. offset' + remaining' <= Len(w) =>
          body' \o Rest(w)' = SubSeq(w, offset + 2, offset + 2 + n - 1)
    <3> SUFFICES ASSUME offset' + remaining' <= Len(w)
                 PROVE  << >> \o Rest(w)' = Rest(w)'
      BY <1>3, <2>6
    <3>1. offset + 2 \in Nat \ {0} /\ offset + 2 + n - 1 \in Int /\ offset + 2 + n - 1 <= Len(w)
      BY <1>2, <2>2, <2>5, SMT
    <3>2. Rest(w)' \in Seq(Bytes)
      BY <1>2, <2>6, <3>1, PieceTyped
    <3> QED
      BY <3>2, ConcatEmptySeq
  <2>8. InFixedBody(w)'
    <3>1. CASE offset' + remaining' <= Len(w)
      BY <1>1, <1>8, <2>3, <2>4, <2>5, <2>7, <3>1 DEF InFixedBody
    <3>2. CASE ~(offset' + remaining' <= Len(w))
      BY <1>1, <1>8, <2>3, <2>4, <2>5, <3>2, NoBodies DEF InFixedBody
    <3> QED
      BY <3>1, <3>2
  <2> QED
    BY <1>8, <2>8 DEF Expected
<1>9. CASE ~HasFraming /\ state' = "CloseBody"
  <2>1. MessageOf(w, semantics) =
          IF Len(w) - (offset + 2) + 1 > MaxBody THEN {}
          ELSE OpenBy({[body |-> SubSeq(w, offset + 2, Len(w)), next |-> Len(w) + 1]})
    BY <1>4, <1>9 DEF HasFraming
  <2>2. ~(Len(w) - (offset + 2) + 1 > MaxBody) <=> Len(body') + (Len(w) - offset') <= MaxBody
    <3>1. Len(body') = 0
      BY <1>3
    <3> QED
      BY <1>1, <1>2, <3>1, LimitsAssumption, SMT
  <2>3. SubSeq(w, offset + 2, Len(w)) = body' \o SubSeq(w, offset' + 1, Len(w))
    <3>1. offset' + 1 = offset + 2 /\ offset + 2 \in Nat \ {0} /\ Len(w) \in Int /\ Len(w) <= Len(w)
      BY <1>1, <1>2, SMT
    <3>2. SubSeq(w, offset + 2, Len(w)) \in Seq(Bytes)
      BY <1>2, <3>1, PieceTyped
    <3> QED
      BY <1>3, <3>1, <3>2, ConcatEmptySeq
  <2>4. InCloseBody(w)'
    BY <1>1, <2>1, <2>2, <2>3 DEF InCloseBody
  <2> QED
    BY <1>9, <2>4 DEF Expected
<1> QED
  BY <1>7, <1>8, <1>9 DEF BodyFollows

-----------------------------------------------------------------------------
(* The actions of the body *)

\* What is taken of a body, in what the wire is cut down to.
LEMMA TakenIs ==
  ASSUME IInv, NEW w, IsCut(w), NEW amount \in Nat, offset + amount <= Len(w),
         TakeBody(amount)
  PROVE  /\ body' = body \o SubSeq(w, offset + 1, offset + amount)
         /\ offset' = offset + amount
<1>1. /\ wire \in Seq(Bytes) /\ w \in Seq(Bytes) /\ offset \in Nat
      /\ Len(w) \in Nat /\ Len(wire) \in Nat /\ Len(w) <= Len(wire)
      /\ \A k \in 1 .. Len(w) : w[k] = wire[k]
  BY LenProperties, SMT DEF IInv, TypeOK, PositionOK, IsCut
<1>2. PICK m, n : m = offset + 1 /\ n = offset + amount
  OBVIOUS
<1>3. /\ m \in Nat \ {0} /\ n \in Int /\ n <= Len(w) /\ n <= Len(wire)
      /\ \A k \in m .. n : k \in 1 .. Len(w)
  BY <1>1, <1>2, SMT
<1>4. \A k \in m .. n : w[k] \in Bytes /\ wire[k] = w[k]
  BY <1>1, <1>3, ElementOfSeq
<1>5. /\ SubSeq(w, m, n) \in Seq(Bytes)
      /\ Len(SubSeq(w, m, n)) = IF m <= n THEN n - m + 1 ELSE 0
      /\ \A i \in 1 .. n - m + 1 : SubSeq(w, m, n)[i] = w[m + i - 1]
  BY <1>3, <1>4, SubSeqProperties
<1>6. /\ SubSeq(wire, m, n) \in Seq(Bytes)
      /\ Len(SubSeq(wire, m, n)) = IF m <= n THEN n - m + 1 ELSE 0
      /\ \A i \in 1 .. n - m + 1 : SubSeq(wire, m, n)[i] = wire[m + i - 1]
  BY <1>3, <1>4, SubSeqProperties
<1>7. \A i \in 1 .. n - m + 1 : m + i - 1 \in m .. n
  BY <1>3, SMT
<1>8. \A i \in 1 .. n - m + 1 : SubSeq(wire, m, n)[i] = SubSeq(w, m, n)[i]
  BY <1>4, <1>5, <1>6, <1>7
<1>9. \A i \in 1 .. Len(SubSeq(w, m, n)) : i \in 1 .. n - m + 1
  BY <1>3, <1>5, SMT
<1>10. SubSeq(wire, m, n) = SubSeq(w, m, n)
  BY <1>5, <1>6, <1>8, <1>9, SeqEqual
<1> QED
  BY <1>2, <1>10 DEF TakeBody

\* The body, with what is due of it then, is what it was.
LEMMA BodyResumes ==
  ASSUME IInv, NEW w, IsCut(w), NEW amount \in Nat, TakeBody(amount),
         NEW e \in offset + amount .. Len(w)
  PROVE  body' \o SubSeq(w, offset' + 1, e) = body \o SubSeq(w, offset + 1, e)
<1>1. /\ w \in Seq(Bytes) /\ body \in Seq(Bytes) /\ offset \in Nat /\ Len(w) \in Nat
  BY LenProperties DEF IInv, TypeOK, PositionOK, KeptOK, IsCut
<1>2. PICK m, n : m = offset + 1 /\ n = offset + amount
  OBVIOUS
<1>3. /\ m \in 1 .. Len(w) + 1 /\ n \in m - 1 .. Len(w) /\ e \in n .. Len(w)
      /\ offset + amount <= Len(w) /\ m \in Nat \ {0} /\ n + 1 \in Nat \ {0}
      /\ n \in Int /\ e \in Int /\ n <= Len(w) /\ e <= Len(w)
  BY <1>1, <1>2, SMT
<1>4. body' = body \o SubSeq(w, m, n) /\ offset' = n
  BY <1>2, <1>3, TakenIs
<1>5. SubSeq(w, m, n) \o SubSeq(w, n + 1, e) = SubSeq(w, m, e)
  BY <1>1, <1>3, ConcatAdjacentSubSeq
<1>6. SubSeq(w, m, n) \in Seq(Bytes) /\ SubSeq(w, n + 1, e) \in Seq(Bytes)
  BY <1>1, <1>3, PieceTyped
<1>7. (body \o SubSeq(w, m, n)) \o SubSeq(w, n + 1, e)
        = body \o (SubSeq(w, m, n) \o SubSeq(w, n + 1, e))
  <2>1. PICK mid, after : mid = SubSeq(w, m, n) /\ after = SubSeq(w, n + 1, e)
    OBVIOUS
  <2>2. mid \in Seq(Bytes) /\ after \in Seq(Bytes) /\ body \in Seq(Bytes)
    BY <1>1, <1>6, <2>1
  <2>3. body \o (mid \o after) = (body \o mid) \o after
    BY <2>2, Regrouped
  <2> QED
    BY <2>1, <2>3
<1> QED
  BY <1>2, <1>4, <1>5, <1>7

LEMMA FixedBodyMeans ==
  ASSUME IInv, CountInv, FixedBody, NEW w, IsCut(w), Expected(w)
  PROVE  /\ outcome' = "none" /\ Len(w) >= offset' => Expected(w)'
         /\ outcome' # "none" /\ Len(w) = offset' =>
              MessageOf(w, semantics)
                = FramedBy({[body |-> body', next |-> offset' + 1]}, final_connection_close')
<1>1. /\ Feeding /\ state = "FixedBody" /\ TakeBody(Taken)
      /\ remaining' = remaining - Taken /\ outcome = "none"
      /\ semantics' = semantics /\ final_connection_close' = final_connection_close
  BY DEF FixedBody, Feeding
<1>2. /\ Taken \in Nat /\ Taken <= remaining /\ remaining \in Nat
  BY <1>1, TakenFits
<1>3. offset \in Nat /\ Len(w) \in Nat /\ offset' = offset + Taken
  BY <1>1, LenProperties DEF IInv, TypeOK, PositionOK, IsCut, TakeBody
<1>4. InFixedBody(w)
  BY <1>1, Zenon DEF Expected
<1>5. offset' + remaining' = offset + remaining
  BY <1>1, <1>2, <1>3, SMT
<1>6. ASSUME outcome' = "none", Len(w) >= offset' PROVE Expected(w)'
  <2>1. state' = "FixedBody"
    BY <1>1, <1>6 DEF FixedBody, Completes
  <2>2. CASE offset + remaining <= Len(w)
    <3>1. offset + remaining \in offset + Taken .. Len(w)
      BY <1>2, <1>3, <2>2, SMT
    <3>2. body' \o SubSeq(w, offset' + 1, offset + remaining)
            = body \o SubSeq(w, offset + 1, offset + remaining)
      BY <1>1, <1>2, <3>1, BodyResumes
    <3>3. body' \o Rest(w)' = body \o Rest(w)
      BY <1>5, <3>2 DEF Rest
    <3>4. InFixedBody(w)'
      BY <1>1, <1>4, <1>5, <2>2, <3>3 DEF InFixedBody
    <3> QED
      BY <2>1, <3>4 DEF Expected
  <2>3. CASE ~(offset + remaining <= Len(w))
    <3>1. InFixedBody(w)'
      BY <1>1, <1>4, <1>5, <2>3 DEF InFixedBody
    <3> QED
      BY <2>1, <3>1 DEF Expected
  <2> QED
    BY <2>2, <2>3
<1>7. ASSUME outcome' # "none", Len(w) = offset'
      PROVE  MessageOf(w, semantics)
               = FramedBy({[body |-> body', next |-> offset' + 1]}, final_connection_close')
  <2>1. remaining' = 0
    BY <1>1, <1>7 DEF FixedBody
  <2>2. Taken = remaining /\ offset' = offset + remaining /\ offset + remaining <= Len(w)
    BY <1>1, <1>2, <1>3, <1>7, <2>1, SMT
  <2>3. body' = body \o Rest(w)
    BY <1>1, <1>2, <2>2, TakenIs DEF Rest
  <2> QED
    BY <1>1, <1>4, <2>2, <2>3 DEF InFixedBody
<1> QED
  BY <1>6, <1>7

LEMMA ChunkDataMeans ==
  ASSUME IInv, CountInv, ChunkData, NEW w, IsCut(w), Expected(w), Len(w) >= offset'
  PROVE  Expected(w)'
<1>1. /\ Feeding /\ state = "ChunkData" /\ TakeBody(Taken)
      /\ semantics' = semantics /\ final_connection_close' = final_connection_close
  BY DEF ChunkData
<1>2. /\ Taken \in Nat /\ Taken <= remaining /\ remaining \in Nat
  BY <1>1, TakenFits
<1>3. offset \in Nat /\ Len(w) \in Nat /\ offset' = offset + Taken
  BY <1>1, LenProperties DEF IInv, TypeOK, PositionOK, IsCut, TakeBody
<1>4. InChunk(w, body \o Rest(w), offset + 1 + remaining)
  BY <1>1, Zenon DEF Expected
<1>5. PICK i, part : i = offset + 1 + remaining /\ part = body \o Rest(w)
  OBVIOUS
<1>6. MessageOf(w, semantics) =
        IF Ended(w, i) THEN FramedBy(Chunked(part, ChunksFrom(w, i + 2)), final_connection_close)
        ELSE {}
  BY <1>4, <1>5 DEF InChunk
<1>7. CASE Taken = remaining
  <2>1. state' = "ChunkTerminator" /\ remaining' = 2
    BY <1>7 DEF ChunkData
  <2>2. offset' + remaining' - 1 = i
    BY <1>2, <1>3, <1>5, <1>7, <2>1, SMT
  <2>3. offset + remaining <= Len(w)
    BY <1>2, <1>3, <1>7, SMT
  <2>4. body' = part
    BY <1>1, <1>2, <1>5, <1>7, <2>3, TakenIs DEF Rest
  <2>5. InChunk(w, body, offset + remaining - 1)'
    BY <1>1, <1>6, <2>2, <2>4 DEF InChunk
  <2>6. remaining' # 1
    BY <2>1
  <2> QED
    BY <2>1, <2>5, <2>6 DEF Expected
<1>8. CASE Taken # remaining
  <2>1. state' = "ChunkData" /\ remaining' = remaining - Taken
    BY <1>1, <1>8 DEF ChunkData
  <2>2. offset' + remaining' = offset + remaining /\ offset' + 1 + remaining' = i
    BY <1>2, <1>3, <1>5, <2>1, SMT
  <2>3. ASSUME Ended(w, i) PROVE body' \o Rest(w)' = part
    <3>1. offset + remaining \in offset + Taken .. Len(w)
      BY <1>2, <1>3, <1>5, <2>3, SMT DEF Ended
    <3>2. body' \o SubSeq(w, offset' + 1, offset + remaining)
            = body \o SubSeq(w, offset + 1, offset + remaining)
      BY <1>1, <1>2, <3>1, BodyResumes
    <3> QED
      BY <1>5, <2>2, <3>2 DEF Rest
  <2>4. InChunk(w, body \o Rest(w), offset + 1 + remaining)'
    <3>1. CASE Ended(w, i)
      BY <1>1, <1>6, <2>2, <2>3, <3>1 DEF InChunk
    <3>2. CASE ~Ended(w, i)
      BY <1>1, <1>6, <2>2, <3>2 DEF InChunk
    <3> QED
      BY <3>1, <3>2
  <2> QED
    BY <2>1, <2>4 DEF Expected
<1> QED
  BY <1>7, <1>8

LEMMA CloseBodyMeans ==
  ASSUME IInv, CountInv, CloseBody, NEW w, IsCut(w), Expected(w)
  PROVE  /\ outcome' = "none" /\ Len(w) >= offset' => Expected(w)'
         /\ outcome' # "none" /\ Len(w) >= upto => MessageOf(w, semantics) = {}
<1>1. Feeding /\ state = "CloseBody" /\ outcome = "none" /\ semantics' = semantics
  BY DEF CloseBody, Feeding
<1>2. /\ offset \in Nat /\ upto \in Nat /\ offset <= upto /\ Len(w) \in Nat
      /\ Len(body) \in Nat /\ w \in Seq(Bytes)
  BY LenProperties, SMT DEF IInv, TypeOK, PositionOK, KeptOK, IsCut
<1>3. InCloseBody(w)
  BY <1>1, Zenon DEF Expected
<1>4. CASE /\ Len(body) + upto - offset <= MaxBody
           /\ TakeBody(upto - offset)
           /\ UNCHANGED << state, outcome >>
  <2> SUFFICES ASSUME Len(w) >= offset' PROVE Expected(w)'
    BY <1>1, <1>4
  <2>1. PICK amount : amount = upto - offset
    OBVIOUS
  <2>2. amount \in Nat /\ TakeBody(amount) /\ offset' = offset + amount /\ offset' = upto
    BY <1>2, <1>4, <2>1, SMT DEF TakeBody
  <2>3. offset + amount <= Len(w) /\ Len(w) \in offset + amount .. Len(w)
    BY <1>2, <2>2, SMT
  <2>4. body' \o SubSeq(w, offset' + 1, Len(w)) = body \o SubSeq(w, offset + 1, Len(w))
    BY <2>2, <2>3, BodyResumes
  <2>5. Len(body') = Len(body) + amount
    BY <1>1, <1>2, <2>1, <2>2, BodyTaken, SMT
  <2>6. Len(body') + (Len(w) - offset') = Len(body) + (Len(w) - offset)
    BY <1>2, <2>2, <2>5, SMT
  <2>7. InCloseBody(w)'
    BY <1>1, <1>3, <2>4, <2>6 DEF InCloseBody
  <2> QED
    BY <1>1, <1>4, <2>7 DEF Expected
<1>5. CASE Len(body) + upto - offset > MaxBody /\ Fails("BodyLimitExceeded")
  <2>1. outcome' # "none"
    BY <1>5 DEF Fails
  <2> SUFFICES ASSUME Len(w) >= upto PROVE MessageOf(w, semantics) = {}
    BY <2>1
  <2>2. ~(Len(body) + (Len(w) - offset) <= MaxBody)
    BY <1>2, <1>5, LimitsAssumption, SMT
  <2> QED
    BY <1>3, <2>2 DEF InCloseBody
<1> QED
  BY <1>4, <1>5, Zenon DEF CloseBody

LEMMA ChunkTerminatorMeans ==
  ASSUME IInv, CountInv, ChunkTerminator, NEW w, IsCut(w), Expected(w)
  PROVE  /\ outcome' = "none" /\ Len(w) >= offset' => Expected(w)'
         /\ outcome' # "none" /\ Len(w) >= upto => MessageOf(w, semantics) = {}
<1>1. Feeding /\ state = "ChunkTerminator" /\ outcome = "none" /\ semantics' = semantics
  BY DEF ChunkTerminator, Feeding
<1>2. InChunk(w, body, offset + remaining - 1) /\ (remaining = 1 => offset > 0 /\ w[offset] = CR)
  BY <1>1, Zenon DEF Expected
<1>3. /\ offset \in Nat /\ Len(w) \in Nat /\ remaining \in {1, 2}
      /\ offset + 1 <= upto /\ upto \in Nat
  BY <1>1, LenProperties, NextByte, SMT DEF IInv, TypeOK, PositionOK, IsCut
<1>4. line = << >> /\ ~pending_cr /\ Len(line) = 0
  BY <1>1 DEF CountInv, LineStates
<1>5. PICK i : i = offset + remaining - 1
  OBVIOUS
<1>6. MessageOf(w, semantics) =
        IF Ended(w, i) THEN FramedBy(Chunked(body, ChunksFrom(w, i + 2)), final_connection_close)
        ELSE {}
  BY <1>2, <1>5 DEF InChunk
<1>7. Len(w) >= offset + 1 => offset + 1 \in 1 .. Len(w) /\ w[offset + 1] = wire[offset + 1]
  <2>1. Len(w) >= offset + 1 => offset + 1 \in 1 .. Len(w)
    BY <1>3, SMT
  <2> QED
    BY <2>1 DEF IsCut
<1>8. CASE remaining = 2
  <2>1. i = offset + 1
    BY <1>3, <1>5, <1>8, SMT
  <2>2. CASE wire[offset + 1] = CR /\ offset' = offset + 1 /\ remaining' = remaining - 1
             /\ state' = "ChunkTerminator" /\ UNCHANGED << responseVars, outcome >>
    <3> SUFFICES ASSUME Len(w) >= offset' PROVE Expected(w)'
      BY <1>1, <2>2
    <3>1. remaining' = 1 /\ offset' + remaining' - 1 = i /\ offset' > 0
      BY <1>3, <1>8, <2>1, <2>2, SMT
    <3>2. body' = body /\ final_connection_close' = final_connection_close
      BY <2>2 DEF responseVars
    <3>3. InChunk(w, body, offset + remaining - 1)'
      BY <1>1, <1>6, <3>1, <3>2 DEF InChunk
    <3>4. w[offset'] = CR
      BY <1>7, <2>2
    <3> QED
      BY <2>2, <3>1, <3>3, <3>4 DEF Expected
  <2>3. CASE wire[offset + 1] # CR /\ Fails("InvalidChunkTerminator")
    <3>1. outcome' # "none"
      BY <2>3 DEF Fails
    <3> SUFFICES ASSUME Len(w) >= upto PROVE MessageOf(w, semantics) = {}
      BY <3>1
    <3>2. Len(w) >= offset + 1
      BY <1>3, SMT
    <3>3. ~Ended(w, i)
      BY <1>7, <2>1, <2>3, <3>2 DEF Ended
    <3> QED
      BY <1>6, <3>3
  <2> QED
    BY <1>8, <2>2, <2>3 DEF ChunkTerminator
<1>9. CASE remaining = 1
  <2>1. i = offset /\ offset > 0 /\ w[offset] = CR
    BY <1>2, <1>3, <1>5, <1>9, SMT
  <2>2. CASE wire[offset + 1] = LF /\ offset' = offset + 1 /\ state' = "ChunkSize"
             /\ UNCHANGED << lineVars, responseVars, outcome >>
    <3> SUFFICES ASSUME Len(w) >= offset' PROVE Expected(w)'
      BY <1>1, <2>2
    <3>1. Len(w) >= offset + 1
      BY <2>2
    <3>2. offset \in 1 .. Len(w) - 1 /\ w[offset + 1] = LF
      BY <1>3, <1>7, <2>1, <2>2, <3>1, SMT
    <3>3. Ended(w, i)
      BY <2>1, <3>2 DEF Ended
    <3>4. /\ body' = body /\ final_connection_close' = final_connection_close
          /\ line' = << >> /\ ~pending_cr'
      BY <1>4, <2>2 DEF responseVars, lineVars
    <3>5. Here' = i + 2
      BY <1>3, <1>4, <2>1, <2>2, <3>4, SMT DEF Here
    <3>6. Here' \in 1 .. Len(w) + 1 /\ offset' \in 0 .. Len(w)
      BY <1>3, <2>1, <2>2, <3>1, <3>5, SMT
    <3>7. 1 .. Len(line') = {}
      BY <3>4, SMT
    <3>8. InHand(w)'
      BY <3>4, <3>6, <3>7 DEF InHand
    <3>9. InChunkSize(w)'
      BY <1>1, <1>6, <3>3, <3>4, <3>5, <3>8 DEF InChunkSize
    <3> QED
      BY <2>2, <3>9 DEF Expected
  <2>3. CASE wire[offset + 1] # LF /\ Fails("InvalidChunkTerminator")
    <3>1. outcome' # "none"
      BY <2>3 DEF Fails
    <3> SUFFICES ASSUME Len(w) >= upto PROVE MessageOf(w, semantics) = {}
      BY <3>1
    <3>2. Len(w) >= offset + 1
      BY <1>3, SMT
    <3>3. ~Ended(w, i)
      BY <1>7, <2>1, <2>3, <3>2 DEF Ended
    <3> QED
      BY <1>6, <3>3
  <2> QED
    BY <1>9, <2>2, <2>3 DEF ChunkTerminator
<1> QED
  BY <1>3, <1>8, <1>9

\* A part, and another, before chunks.
LEMMA JoinedTwice ==
  ASSUME NEW part \in Seq(Bytes), NEW mid \in Seq(Bytes), NEW chunks,
         \A c \in chunks : IsPart(c)
  PROVE  Joined(part, Joined(mid, chunks)) = Joined(part \o mid, chunks)
<1> DEFINE Short(c) == [body |-> mid \o c.body, next |-> c.next]
           Long(c) == [body |-> (part \o mid) \o c.body, next |-> c.next]
<1>1. ASSUME NEW c \in chunks
      PROVE  [body |-> part \o Short(c).body, next |-> Short(c).next] = Long(c)
  <2>1. PICK s : s = c.body
    OBVIOUS
  <2>2. s \in Seq(Bytes)
    BY <2>1 DEF IsPart
  <2>3. part \o (mid \o s) = (part \o mid) \o s
    BY <2>2, Regrouped
  <2> QED
    BY <2>1, <2>3
<1>2. Joined(mid, chunks) = {Short(c) : c \in chunks}
  BY DEF Joined
<1>3. Joined(part \o mid, chunks) = {Long(c) : c \in chunks}
  BY DEF Joined
<1> HIDE DEF Short, Long
<1>4. \A b : b \in Joined(part, {Short(c) : c \in chunks})
               <=> \E c \in chunks : b = [body |-> part \o Short(c).body, next |-> Short(c).next]
  BY Zenon DEF Joined
<1>5. \A b : b \in {Long(c) : c \in chunks} <=> \E c \in chunks : b = Long(c)
  OBVIOUS
<1>6. \A b : b \in Joined(part, {Short(c) : c \in chunks}) <=> b \in {Long(c) : c \in chunks}
  <2> SUFFICES ASSUME NEW b
               PROVE  (\E c \in chunks :
                         b = [body |-> part \o Short(c).body, next |-> Short(c).next])
                      <=> \E c \in chunks : b = Long(c)
    BY <1>4, <1>5, Zenon
  <2>1. ASSUME NEW c \in chunks, b = [body |-> part \o Short(c).body, next |-> Short(c).next]
        PROVE  \E d \in chunks : b = Long(d)
    BY <1>1, <2>1
  <2>2. ASSUME NEW c \in chunks, b = Long(c)
        PROVE  \E d \in chunks : b = [body |-> part \o Short(d).body, next |-> Short(d).next]
    BY <1>1, <2>2
  <2> QED
    BY <2>1, <2>2, Zenon
<1> DEFINE A == Joined(part, {Short(c) : c \in chunks})
           B == {Long(c) : c \in chunks}
<1>7. \A b : b \in A <=> b \in B
  BY <1>6
<1> HIDE DEF A, B
<1>8. A = B
  BY <1>7
<1> QED
  BY <1>2, <1>3, <1>8 DEF A, B

\* A line between chunks.
LEMMA ChunkLine ==
  ASSUME IInv, LineOf("ChunkSize"), NEW w, IsCut(w), Expected(w), Len(w) >= offset + 1
  PROVE  /\ InHand(w)
         /\ MessageOf(w, semantics)
              = FramedBy(Chunked(body, ChunksFrom(w, Here)), final_connection_close)
         /\ ChunksFrom(w, Here) = IF IsSize THEN ChunksOf(w, offset + 2, line[1].n) ELSE {}
         /\ offset + 2 \in 1 .. Len(w) + 1 /\ w \in Seq(Bytes) /\ body \in Seq(Bytes)
         /\ IsSize => line[1].n \in Nat
<1>1. state = "ChunkSize" /\ pending_cr /\ wire[offset + 1] = LF
  BY DEF LineOf
<1>2. InChunkSize(w)
  BY <1>1, Zenon DEF Expected
<1>3. /\ w \in Seq(Bytes) /\ Len(w) \in Nat /\ offset \in Nat /\ body \in Seq(Bytes)
      /\ line \in Seq(Bytes) /\ Here \in 1 .. Len(w) + 1
  BY <1>2, LenProperties DEF IInv, TypeOK, PositionOK, KeptOK, IsCut, InChunkSize, InHand
<1>4. offset + 1 \in 1 .. Len(w) /\ offset + 2 \in 1 .. Len(w) + 1
  BY <1>3, SMT
<1>5. LineAt(w, Here) = {[text |-> line, next |-> offset + 2]}
  BY <1>1, <1>2, <1>4, LineComplete DEF IsCut, InChunkSize
<1> DEFINE l == [text |-> line, next |-> offset + 2]
<1>6. l.text = line /\ l.next = offset + 2 /\ LineAt(w, Here) = {l}
  BY <1>5
<1> HIDE DEF l
<1>7. SizeAt(w, Here) = IF IsSize THEN {l} ELSE {}
  BY <1>6 DEF SizeAt, IsSize
<1>8. ChunksFrom(w, Here)
        = UNION {ChunksOf(w, some.next, some.text[1].n) : some \in SizeAt(w, Here)}
  BY <1>3, ChunkEquation
<1>9. ChunksFrom(w, Here) = IF IsSize THEN ChunksOf(w, l.next, l.text[1].n) ELSE {}
  BY <1>7, <1>8
<1>10. IsSize => line[1].n \in Nat
  <2> SUFFICES ASSUME IsSize PROVE line[1].n \in Nat
    OBVIOUS
  <2>1. l \in SizeAt(w, Here)
    BY <1>7
  <2> QED
    BY <1>3, <1>6, <2>1, SizeTyped
<1> QED
  BY <1>2, <1>3, <1>4, <1>6, <1>9, <1>10 DEF InChunkSize

\* A chunk and those after it.
LEMMA ChunkJoined ==
  ASSUME NEW w \in Seq(Bytes), NEW i \in 1 .. Len(w) + 1, NEW n \in Nat \ {0}
  PROVE  /\ ChunksOf(w, i, n) =
              IF Ended(w, i + n)
                THEN Joined(SubSeq(w, i, i + n - 1), ChunksFrom(w, i + n + 2))
              ELSE {}
         /\ Ended(w, i + n) =>
              /\ i + n + 2 \in 1 .. Len(w) + 1
              /\ SubSeq(w, i, i + n - 1) \in Seq(Bytes) /\ Len(SubSeq(w, i, i + n - 1)) = n
<1>1. Len(w) \in Nat /\ n \in Nat /\ n # 0 /\ i \in Nat \ {0}
  BY LenProperties, SMT
<1>2. IsChunk(w, i, n) <=> Ended(w, i + n)
  BY <1>1, SMT DEF IsChunk, Ended
<1>3. ASSUME IsChunk(w, i, n)
      PROVE  /\ i + n + 2 \in 1 .. Len(w) + 1
             /\ SubSeq(w, i, i + n - 1) \in Seq(Bytes) /\ Len(SubSeq(w, i, i + n - 1)) = n
  <2>1. i + n + 2 \in 1 .. Len(w) + 1 /\ SubSeq(w, i, i + n - 1) \in Seq(Bytes)
    BY <1>1, <1>3, ChunkPlace
  <2>2. PICK m : m = i + n - 1
    OBVIOUS
  <2>3. m \in Int /\ m - i + 1 = n /\ i <= m /\ \A k \in i .. m : k \in 1 .. Len(w)
    BY <1>1, <2>1, <2>2, SMT
  <2>4. \A k \in i .. m : w[k] \in Bytes
    BY <2>3, ElementOfSeq
  <2>5. Len(SubSeq(w, i, m)) = m - i + 1
    BY <1>1, <2>3, <2>4, SubSeqProperties
  <2> QED
    BY <2>1, <2>2, <2>3, <2>5
<1>4. CASE IsChunk(w, i, n)
  BY <1>1, <1>2, <1>3, <1>4, Zenon DEF ChunksOf, Joined
<1>5. CASE ~IsChunk(w, i, n)
  BY <1>1, <1>2, <1>5, Zenon DEF ChunksOf
<1> QED
  BY <1>4, <1>5

\* No chunks, no body.
LEMMA NothingJoined == \A part : Chunked(part, {}) = {}
  BY DEF Chunked, Joined

\* Together they are too long.
LEMMA JoinedTooLong ==
  ASSUME NEW w \in Seq(Bytes), NEW i \in 1 .. Len(w) + 1, NEW n \in Nat \ {0},
         NEW part \in Seq(Bytes), Len(part) + n > MaxBody
  PROVE  Chunked(part, ChunksOf(w, i, n)) = {}
<1>1. CASE ~Ended(w, i + n)
  BY <1>1, ChunkJoined, NothingJoined
<1>2. CASE Ended(w, i + n)
  <2>1. PICK mid, chunks : mid = SubSeq(w, i, i + n - 1) /\ chunks = ChunksFrom(w, i + n + 2)
    OBVIOUS
  <2>2. /\ ChunksOf(w, i, n) = Joined(mid, chunks) /\ i + n + 2 \in 1 .. Len(w) + 1
        /\ mid \in Seq(Bytes) /\ Len(mid) = n
    BY <1>2, <2>1, ChunkJoined
  <2>3. \A c \in chunks : IsPart(c)
    BY <2>1, <2>2, ChunkTyped
  <2>4. Joined(part, Joined(mid, chunks)) = Joined(part \o mid, chunks)
    BY <2>2, <2>3, JoinedTwice
  <2>5. ASSUME NEW c \in chunks PROVE ~(Len((part \o mid) \o c.body) <= MaxBody)
    <3>1. c.body \in Seq(Bytes) /\ Len(c.body) \in Nat /\ Len(part) \in Nat
      BY <2>3, LenProperties DEF IsPart
    <3>2. part \o mid \in Seq(Bytes) /\ Len(part \o mid) = Len(part) + n
      BY <2>2, ConcatProperties
    <3>3. Len((part \o mid) \o c.body) = Len(part) + n + Len(c.body)
      <4>1. Len((part \o mid) \o c.body) = Len(part \o mid) + Len(c.body)
        BY <3>1, <3>2, ConcatProperties, Zenon
      <4> QED
        BY <3>2, <4>1, Zenon
    <3>4. PICK a, b, all : /\ a = Len(part) /\ b = Len(c.body)
                           /\ all = Len((part \o mid) \o c.body)
      OBVIOUS
    <3>5. a \in Nat /\ b \in Nat /\ all = a + n + b /\ a + n > MaxBody /\ MaxBody \in Nat
      BY <3>1, <3>3, <3>4, LimitsAssumption
    <3>6. ~(all <= MaxBody)
      BY <3>5, SMT
    <3> QED
      BY <3>4, <3>6
  <2>6. ASSUME NEW d \in Joined(part \o mid, chunks) PROVE ~(Len(d.body) <= MaxBody)
    <3>1. PICK c \in chunks : d = [body |-> (part \o mid) \o c.body, next |-> c.next]
      BY Zenon DEF Joined
    <3> QED
      BY <2>5, <3>1
  <2> QED
    BY <2>2, <2>4, <2>6 DEF Chunked
<1> QED
  BY <1>1, <1>2

\* The last chunk.
LEMMA JoinedLast ==
  ASSUME NEW w, NEW i, NEW part \in Seq(Bytes), Len(part) <= MaxBody
  PROVE  Chunked(part, ChunksOf(w, i, 0)) = {[body |-> part, next |-> t.next] : t \in TrailerAt(w, i)}
<1>1. ChunksOf(w, i, 0) = {[body |-> << >>, next |-> t.next] : t \in TrailerAt(w, i)}
  BY DEF ChunksOf
<1>2. part \o << >> = part
  BY ConcatEmptySeq
<1>3. Joined(part, ChunksOf(w, i, 0)) = {[body |-> part, next |-> t.next] : t \in TrailerAt(w, i)}
  <2> DEFINE A == Joined(part, ChunksOf(w, i, 0))
             B == {[body |-> part, next |-> t.next] : t \in TrailerAt(w, i)}
  <2>1. ASSUME NEW d \in A PROVE d \in B
    <3>1. PICK c \in ChunksOf(w, i, 0) : d = [body |-> part \o c.body, next |-> c.next]
      BY <2>1, Zenon DEF Joined
    <3>2. PICK t \in TrailerAt(w, i) : c = [body |-> << >>, next |-> t.next]
      BY <1>1, <3>1, Zenon
    <3>3. d = [body |-> part, next |-> t.next]
      BY <1>2, <3>1, <3>2
    <3> QED
      BY <3>2, <3>3
  <2>2. ASSUME NEW d \in B PROVE d \in A
    <3>1. PICK t \in TrailerAt(w, i) : d = [body |-> part, next |-> t.next]
      BY <2>2, Zenon
    <3>2. PICK c : c = [body |-> << >>, next |-> t.next]
      OBVIOUS
    <3>3. c \in ChunksOf(w, i, 0)
      BY <1>1, <3>1, <3>2
    <3>4. d = [body |-> part \o c.body, next |-> c.next]
      BY <1>2, <3>1, <3>2
    <3> QED
      BY <3>3, <3>4 DEF Joined
  <2> HIDE DEF A, B
  <2>3. A = B
    BY <2>1, <2>2
  <2> QED
    BY <2>3 DEF A, B
<1>4. \A c \in Joined(part, ChunksOf(w, i, 0)) : Len(c.body) <= MaxBody
  BY <1>3
<1> QED
  BY <1>3, <1>4 DEF Chunked

LEMMA ChunkSizeMeans ==
  ASSUME IInv, CountInv, ChunkSize, NEW w, IsCut(w), Expected(w)
  PROVE  /\ outcome' = "none" /\ Len(w) >= offset' => Expected(w)'
         /\ outcome' # "none" /\ Len(w) >= upto => MessageOf(w, semantics) = {}
<1>1. /\ LineOf("ChunkSize") /\ state = "ChunkSize" /\ outcome = "none" /\ Feeding
      /\ UNCHANGED semantics
  BY DEF ChunkSize, LineOf, Feeding
<1>2. /\ offset \in Nat /\ upto \in Nat /\ offset + 1 <= upto /\ Len(w) \in Nat
      /\ Len(body) \in Nat /\ Len(body) <= MaxBody
  BY <1>1, NextByte, LenProperties, SMT
  DEF IInv, TypeOK, PositionOK, KeptOK, IsCut, WithinLimits
<1>3. PICK i, n : i = offset + 2 /\ n = line[1].n
  OBVIOUS
<1>4. Len(w) >= offset + 1 =>
        /\ InHand(w)
        /\ MessageOf(w, semantics)
             = FramedBy(Chunked(body, ChunksFrom(w, Here)), final_connection_close)
        /\ ChunksFrom(w, Here) = IF IsSize THEN ChunksOf(w, i, n) ELSE {}
        /\ i \in 1 .. Len(w) + 1 /\ w \in Seq(Bytes) /\ body \in Seq(Bytes)
        /\ IsSize => n \in Nat
  BY <1>1, <1>3, ChunkLine
<1>5. CASE /\ IsSize /\ Len(body) + n <= MaxBody
           /\ LineRead /\ remaining' = n
           /\ state' = IF n = 0 THEN "Trailers" ELSE "ChunkData"
           /\ UNCHANGED << countVars, responseVars, outcome >>
  <2> SUFFICES ASSUME Len(w) >= offset' PROVE Expected(w)'
    BY <1>1, <1>5
  <2>1. /\ offset' = offset + 1 /\ Len(w) >= offset + 1
        /\ body' = body /\ trailers' = trailers /\ trailer_bytes' = trailer_bytes
        /\ final_connection_close' = final_connection_close
    BY <1>5 DEF LineRead, responseVars, countVars
  <2>2. InHand(w)' /\ Here' = i /\ n \in Nat /\ w \in Seq(Bytes) /\ i \in 1 .. Len(w) + 1
        /\ body \in Seq(Bytes)
    BY <1>1, <1>3, <1>4, <1>5, <2>1, HandBegins
  <2>3. MessageOf(w, semantics) = FramedBy(Chunked(body, ChunksOf(w, i, n)), final_connection_close)
    BY <1>4, <1>5, <2>1
  <2>4. CASE n = 0
    <3>1. state' = "Trailers" /\ trailers = 0 /\ trailer_bytes = 0
      BY <1>1, <1>5, <2>4 DEF CountInv
    <3>2. TrailerBegins' = i
      <4>1. TrailerBegins' = Here' - trailer_bytes'
        BY DEF TrailerBegins
      <4> QED
        BY <1>2, <1>3, <2>1, <2>2, <3>1, <4>1, SMT
    <3>3. MessageOf(w, semantics') = FramedBy({[body |-> body', next |-> t.next] :
                                                 t \in TrailerAt(w, TrailerBegins')},
                                              final_connection_close')
      <4>1. Chunked(body, ChunksOf(w, i, 0))
              = {[body |-> body, next |-> t.next] : t \in TrailerAt(w, i)}
        BY <1>2, <2>2, JoinedLast
      <4>2. MessageOf(w, semantics)
              = FramedBy({[body |-> body, next |-> t.next] : t \in TrailerAt(w, i)},
                         final_connection_close)
        BY <2>3, <2>4, <4>1
      <4> QED
        BY <1>1, <2>1, <3>2, <4>2, Zenon
    <3>4. TrailerGathered(w, << >>)'
      <4>1. << >> \in Seq(Seq(Bytes)) /\ Len(<< >>) = 0 /\ 1 .. 0 = {}
        BY EmptySeq, SMT
      <4>2. BlockAt(w, i) = Prefixed(<< >>, BlockAt(w, i))
        BY <2>2, BlockBegins
      <4> QED
        BY <2>1, <2>2, <3>1, <3>2, <4>1, <4>2 DEF TrailerGathered
    <3>5. (\E some : TrailerGathered(w, some))'
      BY <3>4
    <3>6. InTrailers(w)'
      BY <2>2, <3>2, <3>3, <3>5 DEF InTrailers
    <3> QED
      BY <3>1, <3>6 DEF Expected
  <2>5. CASE n # 0
    <3>1. state' = "ChunkData" /\ n \in Nat \ {0}
      BY <1>5, <2>2, <2>5
    <3>2. PICK mid : mid = SubSeq(w, i, i + n - 1)
      OBVIOUS
    <3>3. /\ offset' + 1 + remaining' = i + n /\ offset' + 1 = i
          /\ offset' + remaining' = i + n - 1
      BY <1>2, <1>3, <1>5, <2>1, <3>1, SMTT(30)
    <3>4. Rest(w)' = mid
      BY <3>2, <3>3 DEF Rest
    <3>5. ChunksOf(w, i, n) = IF Ended(w, i + n) THEN Joined(mid, ChunksFrom(w, i + n + 2))
                              ELSE {}
      BY <2>2, <3>1, <3>2, ChunkJoined
    <3>6. CASE Ended(w, i + n)
      <4>1. PICK chunks : chunks = ChunksFrom(w, i + n + 2)
        OBVIOUS
      <4>2. i + n + 2 \in 1 .. Len(w) + 1 /\ mid \in Seq(Bytes)
        BY <2>2, <3>1, <3>2, <3>6, ChunkJoined
      <4>3. \A c \in chunks : IsPart(c)
        BY <2>2, <4>1, <4>2, ChunkTyped
      <4>4. Joined(body, Joined(mid, chunks)) = Joined(body \o mid, chunks)
        BY <2>2, <4>2, <4>3, JoinedTwice
      <4>5. Chunked(body, Joined(mid, chunks)) = Chunked(body \o mid, chunks)
        BY <4>4 DEF Chunked
      <4>6. InChunk(w, body \o Rest(w), offset + 1 + remaining)'
        BY <1>1, <2>1, <2>3, <3>3, <3>4, <3>5, <3>6, <4>1, <4>5 DEF InChunk
      <4> QED
        BY <3>1, <4>6 DEF Expected
    <3>7. CASE ~Ended(w, i + n)
      <4>1. MessageOf(w, semantics) = {}
        BY <2>3, <3>5, <3>7, NothingJoined, NoBodies
      <4>2. InChunk(w, body \o Rest(w), offset + 1 + remaining)'
        BY <1>1, <3>3, <3>7, <4>1 DEF InChunk
      <4> QED
        BY <3>1, <4>2 DEF Expected
    <3> QED
      BY <3>6, <3>7
  <2> QED
    BY <2>4, <2>5
<1>6. CASE (~IsSize \/ Len(body) + n > MaxBody) /\ outcome' # "none"
  <2> SUFFICES ASSUME Len(w) >= upto PROVE MessageOf(w, semantics) = {}
    BY <1>6
  <2>1. Len(w) >= offset + 1
    BY <1>2, SMT
  <2>2. CASE ~IsSize
    BY <1>4, <2>1, <2>2, NothingJoined, NoBodies
  <2>3. CASE IsSize /\ Len(body) + n > MaxBody
    <3>1. n \in Nat \ {0}
      BY <1>2, <1>4, <2>1, <2>3, LimitsAssumption, SMT
    <3>2. Chunked(body, ChunksOf(w, i, n)) = {}
      BY <1>4, <2>1, <2>3, <3>1, JoinedTooLong
    <3> QED
      BY <1>4, <2>1, <2>3, <3>2, NoBodies
  <2> QED
    BY <1>6, <2>2, <2>3
<1>7. Fails("InvalidChunkSize") \/ Fails("BodyLimitExceeded") => outcome' # "none"
  BY DEF Fails
<1> QED
  BY <1>3, <1>5, <1>6, <1>7, Zenon DEF ChunkSize

-----------------------------------------------------------------------------
(* Within a trailer *)

\* A line of a trailer.
IsTrailer(line_) == line_[1].is = "field" /\ OneKind(line_)

\* The trailers of the grammar, in these terms.
LEMMA TrailerAtIs ==
  ASSUME NEW w, NEW i
  PROVE  TrailerAt(w, i) =
           {block \in BlockAt(w, i) :
              /\ block.next - i <= MaxTrailerBytes /\ Len(block.lines) <= MaxTrailers
              /\ \A k \in DOMAIN block.lines : IsTrailer(block.lines[k])}
  BY DEF TrailerAt, IsTrailer

\* The numbers involved are places of w.
LEMMA TrailerPlace ==
  ASSUME IInv, NEW w, IsCut(w), InTrailers(w)
  PROVE  /\ w \in Seq(Bytes) /\ Len(w) \in Nat
         /\ TrailerBegins \in 1 .. Len(w) + 1 /\ Here \in 1 .. Len(w) + 1
         /\ Here = TrailerBegins + trailer_bytes /\ trailer_bytes \in Nat
<1>1. w \in Seq(Bytes) /\ trailer_bytes \in Nat
  BY DEF IsCut, IInv, TypeOK, KeptOK
<1>2. TrailerBegins \in 1 .. Len(w) + 1 /\ Here \in 1 .. Len(w) + 1
  BY DEF InTrailers, InHand
<1>3. Len(w) \in Nat
  BY <1>1, LenProperties
<1>4. Here = TrailerBegins + trailer_bytes
  BY <1>1, <1>2, <1>3, SMT DEF TrailerBegins
<1> QED
  BY <1>1, <1>2, <1>3, <1>4

\* No trailer, no message.
LEMMA TrailerWithout ==
  ASSUME NEW w, InTrailers(w),
         \A b \in BlockAt(w, TrailerBegins) :
           ~(/\ b.next - TrailerBegins <= MaxTrailerBytes /\ Len(b.lines) <= MaxTrailers
             /\ \A k \in DOMAIN b.lines : IsTrailer(b.lines[k]))
  PROVE  MessageOf(w, semantics) = {}
<1>1. TrailerAt(w, TrailerBegins) = {}
  BY TrailerAtIs
<1>2. MessageOf(w, semantics) = FramedBy({}, final_connection_close)
  BY <1>1 DEF InTrailers
<1> QED
  BY <1>2, NoBodies

\* A trailer that is cut off is none,
LEMMA TrailerWithoutLine ==
  ASSUME IInv, NEW w, IsCut(w), InTrailers(w), LineAt(w, Here) = {}
  PROVE  MessageOf(w, semantics) = {}
<1>1. BlockAt(w, Here) = {}
  BY TrailerPlace, BlockWithoutLine
<1>2. PICK lines : BlockAt(w, TrailerBegins) = Prefixed(lines, BlockAt(w, Here))
  BY DEF InTrailers, TrailerGathered
<1>3. BlockAt(w, TrailerBegins) = {}
  BY <1>1, <1>2 DEF Prefixed
<1> QED
  BY <1>3, TrailerWithout

\* and neither is one that is too long.
LEMMA TrailerTooLong ==
  ASSUME IInv, NEW w, IsCut(w), InTrailers(w), Section = "trailer",
         NEW q \in Here .. Len(w) + 1, Plain(w, Here, q), ~Fits(q - Here)
  PROVE  MessageOf(w, semantics) = {}
<1>1. /\ w \in Seq(Bytes) /\ Len(w) \in Nat
      /\ TrailerBegins \in 1 .. Len(w) + 1 /\ Here \in 1 .. Len(w) + 1
      /\ Here = TrailerBegins + trailer_bytes /\ trailer_bytes \in Nat
  BY TrailerPlace
<1>2. MaxLine \in Nat /\ MaxTrailerBytes \in Nat
  BY LimitsAssumption
<1>3. q - Here > MaxLine \/ trailer_bytes + (q - Here) + 2 > MaxTrailerBytes
  <2>1. q - Here \in Int
    BY <1>1, SMT
  <2> QED
    BY <1>1, <1>2, <2>1, SMT DEF Fits
<1>4. CASE q - Here > MaxLine
  <2>1. LineAt(w, Here) = {}
    BY <1>1, <1>4, NoLine
  <2> QED
    BY <2>1, TrailerWithoutLine
<1>5. CASE trailer_bytes + (q - Here) + 2 > MaxTrailerBytes
  <2>1. PICK lines : BlockAt(w, TrailerBegins) = Prefixed(lines, BlockAt(w, Here))
    BY DEF InTrailers, TrailerGathered
  <2>2. \A b \in BlockAt(w, TrailerBegins) : b.next \in Nat /\ b.next >= q + 2
    BY <1>1, <2>1, BlockPast
  <2>3. \A n \in Nat : n >= q + 2 => ~(n - TrailerBegins <= MaxTrailerBytes)
    BY <1>1, <1>2, <1>5, SMT
  <2> QED
    BY <2>2, <2>3, TrailerWithout
<1> QED
  BY <1>3, <1>4, <1>5

\* The lines so far, with the one in hand.
LEMMA TrailerOneMore ==
  ASSUME IInv, LineOf("Trailers"), NEW w, IsCut(w), Len(w) >= offset + 1, InTrailers(w),
         NEW lines, TrailerGathered(w, lines)
  PROVE  /\ offset + 2 \in 1 .. Len(w) + 1 /\ lines \in Seq(Seq(Bytes)) /\ line \in Seq(Bytes)
         /\ BlockAt(w, TrailerBegins) =
              IF line = << >> THEN {[lines |-> lines, next |-> offset + 2]}
              ELSE Prefixed(Append(lines, line), BlockAt(w, offset + 2))
<1>1. /\ w \in Seq(Bytes) /\ Len(w) \in Nat /\ offset \in Nat
      /\ TrailerBegins \in 1 .. Len(w) + 1 /\ Here \in 1 .. Len(w) + 1
  BY TrailerPlace DEF IInv, TypeOK, PositionOK
<1>2. offset + 1 \in 1 .. Len(w) /\ offset + 2 \in 1 .. Len(w) + 1
  BY <1>1, SMT
<1>3. LineAt(w, Here) = {[text |-> line, next |-> offset + 2]}
  BY <1>2, LineComplete DEF LineOf, IsCut, InTrailers
<1>4. lines \in Seq(Seq(Bytes)) /\ line \in Seq(Bytes)
      /\ BlockAt(w, TrailerBegins) = Prefixed(lines, BlockAt(w, Here))
  BY DEF TrailerGathered, IInv, TypeOK, KeptOK
<1>5. PICK q, h, p, text : q = offset + 2 /\ h = TrailerBegins /\ p = Here /\ text = line
  OBVIOUS
<1>6. /\ q \in 1 .. Len(w) + 1 /\ h \in 1 .. Len(w) + 1 /\ p \in 1 .. Len(w) + 1
      /\ BlockAt(w, h) = Prefixed(lines, BlockAt(w, p))
      /\ LineAt(w, p) = {[text |-> text, next |-> q]} /\ text \in Seq(Bytes)
      /\ w \in Seq(Bytes) /\ lines \in Seq(Seq(Bytes))
  BY <1>1, <1>2, <1>3, <1>4, <1>5
<1>7. BlockAt(w, h) = IF text = << >> THEN {[lines |-> lines, next |-> q]}
                      ELSE Prefixed(Append(lines, text), BlockAt(w, q))
  BY <1>6, BlockGoesOn, SMTT(30)
<1> QED
  BY <1>2, <1>4, <1>5, <1>7

\* When parse_trailer() refuses a line, in one formula.
LEMMA TrailerErrorIs ==
  TrailerError = "none" <=> IsTrailer(line) /\ ~(trailers >= MaxTrailers)
  BY DEF TrailerError, IsTrailer, FieldKinds

\* A block that begins with a line that is none of a trailer, or with too many.
LEMMA TrailerFault ==
  ASSUME NEW w \in Seq(Bytes), NEW h \in 1 .. Len(w) + 1, NEW p \in 1 .. Len(w) + 1,
         NEW lines \in Seq(Seq(Bytes)), NEW text \in Seq(Bytes),
         ~IsTrailer(text) \/ Len(lines) >= MaxTrailers,
         BlockAt(w, h) = Prefixed(Append(lines, text), BlockAt(w, p)),
         NEW b \in BlockAt(w, h)
  PROVE  ~(/\ Len(b.lines) <= MaxTrailers
           /\ \A k \in DOMAIN b.lines : IsTrailer(b.lines[k]))
<1> DEFINE all == Append(lines, text)
<1>1. /\ all \in Seq(Seq(Bytes)) /\ Len(all) = Len(lines) + 1
      /\ all[Len(lines) + 1] = text
  BY AppendProperties
<1>2. PICK r \in BlockAt(w, p) : b = [lines |-> all \o r.lines, next |-> r.next]
  BY Zenon DEF Prefixed
<1>3. r.lines \in Seq(Seq(Bytes))
  BY BlockTyped DEF IsBlock
<1> HIDE DEF all
<1>4. PICK rest : rest = r.lines
  OBVIOUS
<1>5. /\ b.lines = all \o rest /\ rest \in Seq(Seq(Bytes))
  BY <1>2, <1>3, <1>4
<1>6. /\ Len(all \o rest) = Len(all) + Len(rest)
      /\ \A k \in 1 .. Len(all) + Len(rest) :
           (all \o rest)[k] = IF k <= Len(all) THEN all[k] ELSE rest[k - Len(all)]
      /\ all \o rest \in Seq(Seq(Bytes))
  BY <1>1, <1>5, ConcatProperties
<1>7. PICK m, n : m = Len(lines) /\ n = Len(rest)
  OBVIOUS
<1>8. m \in Nat /\ n \in Nat /\ Len(all) = m + 1
  BY <1>1, <1>5, <1>7, LenProperties
<1>9. m + 1 \in 1 .. m + 1 + n /\ m + 1 <= m + 1
      /\ (m >= MaxTrailers => ~(m + 1 + n <= MaxTrailers))
  BY <1>8, LimitsAssumption, SMT
<1>10. Len(b.lines) = m + 1 + n /\ DOMAIN b.lines = 1 .. m + 1 + n
  BY <1>5, <1>6, <1>7, <1>8, LenProperties
<1>11. b.lines[m + 1] = text
  BY <1>1, <1>5, <1>6, <1>7, <1>8, <1>9
<1> QED
  BY <1>7, <1>9, <1>10, <1>11

LEMMA ParseTrailerMeans ==
  ASSUME IInv, CountInv, ParseTrailer, NEW w, IsCut(w), Expected(w)
  PROVE  /\ outcome' = "none" /\ Len(w) >= offset' => Expected(w)'
         /\ outcome' # "none" /\ Len(w) >= upto => MessageOf(w, semantics) = {}
<1>1. /\ LineOf("Trailers") /\ state = "Trailers" /\ outcome = "none" /\ line # << >>
      /\ UNCHANGED semantics /\ Feeding
  BY DEF ParseTrailer, LineOf, Feeding
<1>2. InTrailers(w)
  BY <1>1, Zenon DEF Expected
<1>3. PICK lines : TrailerGathered(w, lines)
  BY <1>2 DEF InTrailers
<1>4. /\ lines \in Seq(Seq(Bytes)) /\ Len(lines) = trailers
      /\ \A k \in 1 .. Len(lines) : IsTrailer(lines[k])
  BY <1>3 DEF TrailerGathered, IsTrailer
<1>5. /\ offset \in Nat /\ upto \in Nat /\ offset + 1 <= upto /\ line \in Seq(Bytes)
      /\ w \in Seq(Bytes) /\ Len(w) \in Nat /\ TrailerBegins \in 1 .. Len(w) + 1
  BY <1>1, <1>2, NextByte, TrailerPlace, SMT DEF IInv, TypeOK, PositionOK, KeptOK
<1>6. CASE /\ TrailerError = "none" /\ LineRead /\ TrailerRead /\ trailers' = trailers + 1
           /\ UNCHANGED << state, body, final_connection_close, outcome >>
  <2> SUFFICES ASSUME Len(w) >= offset' PROVE Expected(w)'
    BY <1>1, <1>6
  <2>1. offset' = offset + 1 /\ Len(w) >= offset + 1
        /\ trailer_bytes' = trailer_bytes + Len(line) + 2
    BY <1>6 DEF LineRead, TrailerRead
  <2>2. InHand(w)' /\ Here' = offset + 2 /\ Here' = Here + Len(line) + 2
    BY <1>1, <1>2, <1>6, <2>1, HandBegins DEF InTrailers
  <2>3. TrailerBegins' = TrailerBegins
    <3>1. Here \in Nat /\ Len(line) \in Nat /\ trailer_bytes \in Nat
      BY <1>2, HandPlace, TrailerPlace DEF InTrailers
    <3> QED
      BY <2>1, <2>2, <3>1, SMT DEF TrailerBegins
  <2>4. PICK all : all = Append(lines, line)
    OBVIOUS
  <2>5. /\ all \in Seq(Seq(Bytes)) /\ Len(all) = Len(lines) + 1
        /\ \A k \in 1 .. Len(lines) : all[k] = lines[k]
        /\ all[Len(lines) + 1] = line
    BY <1>4, <1>5, <2>4, AppendProperties
  <2>6. BlockAt(w, TrailerBegins) = Prefixed(all, BlockAt(w, offset + 2))
    BY <1>1, <1>2, <1>3, <2>1, <2>4, TrailerOneMore
  <2>7. \A k \in 1 .. Len(all) : IsTrailer(all[k])
    <3>1. \A k \in 1 .. Len(lines) + 1 : k \in 1 .. Len(lines) \/ k = Len(lines) + 1
      BY <1>4, LenProperties, SMT
    <3> QED
      BY <1>4, <1>6, <2>5, <3>1, TrailerErrorIs
  <2>8. TrailerGathered(w, all)'
    BY <1>4, <1>6, <2>2, <2>3, <2>5, <2>6, <2>7 DEF TrailerGathered, IsTrailer
  <2>9. (\E some : TrailerGathered(w, some))'
    BY <2>8
  <2>10. InTrailers(w)'
    BY <1>1, <1>2, <1>6, <2>2, <2>3, <2>9 DEF InTrailers
  <2>11. state' = "Trailers"
    BY <1>1, <1>6
  <2> QED
    BY <2>10, <2>11 DEF Expected
<1>7. CASE TrailerError # "none" /\ Fails(TrailerError)
  <2>1. outcome' # "none"
    BY <1>7 DEF Fails
  <2> SUFFICES ASSUME Len(w) >= upto PROVE MessageOf(w, semantics) = {}
    BY <2>1
  <2>2. Len(w) >= offset + 1
    BY <1>5, SMT
  <2>3. /\ offset + 2 \in 1 .. Len(w) + 1
        /\ BlockAt(w, TrailerBegins) = Prefixed(Append(lines, line), BlockAt(w, offset + 2))
    BY <1>1, <1>2, <1>3, <2>2, TrailerOneMore
  <2>4. ~IsTrailer(line) \/ Len(lines) >= MaxTrailers
    BY <1>4, <1>7, TrailerErrorIs
  <2>5. \A b \in BlockAt(w, TrailerBegins) :
          ~(/\ Len(b.lines) <= MaxTrailers
            /\ \A k \in DOMAIN b.lines : IsTrailer(b.lines[k]))
    BY <1>4, <1>5, <2>3, <2>4, TrailerFault
  <2> QED
    BY <1>2, <2>5, TrailerWithout
<1> QED
  BY <1>6, <1>7, Zenon DEF ParseTrailer

\* A response that is complete with its trailer is the message of the bytes so far.
LEMMA TrailersEndMeans ==
  ASSUME IInv, CountInv, TrailersEnd, NEW w, IsCut(w), Expected(w), Len(w) = offset'
  PROVE  MessageOf(w, semantics)
           = FramedBy({[body |-> body', next |-> offset' + 1]}, final_connection_close')
<1>1. /\ LineOf("Trailers") /\ state = "Trailers" /\ line = << >> /\ pending_cr
      /\ offset' = offset + 1 /\ body' = body
      /\ final_connection_close' = final_connection_close
  BY DEF TrailersEnd, LineOf, LineRead, responseVars
<1>2. InTrailers(w)
  BY <1>1, Zenon DEF Expected
<1>3. PICK lines : TrailerGathered(w, lines)
  BY <1>2 DEF InTrailers
<1>4. /\ lines \in Seq(Seq(Bytes)) /\ Len(lines) = trailers
      /\ \A k \in 1 .. Len(lines) : IsTrailer(lines[k])
  BY <1>3 DEF TrailerGathered, IsTrailer
<1>5. /\ offset \in Nat /\ Len(w) \in Nat /\ Len(w) >= offset + 1 /\ Len(line) = 0
      /\ trailers \in Nat /\ trailers <= MaxTrailers
      /\ TrailerBegins \in 1 .. Len(w) + 1
      /\ Here = TrailerBegins + trailer_bytes /\ trailer_bytes \in Nat
  BY <1>1, <1>2, Kept, TrailerPlace, SMT DEF IInv, TypeOK, PositionOK
<1>6. BlockAt(w, TrailerBegins) = {[lines |-> lines, next |-> offset + 2]}
  BY <1>1, <1>2, <1>3, <1>5, TrailerOneMore
<1>7. (offset + 2) - TrailerBegins <= MaxTrailerBytes
  <2>1. Section = "trailer"
    BY <1>1 DEF Section
  <2>2. trailer_bytes + Len(line) + 2 <= MaxTrailerBytes
    BY <1>1, <2>1 DEF IInv, LineInv, Fits
  <2>3. Here + Len(line) = offset
    BY <1>1, <1>2, HandPlace DEF InTrailers
  <2> QED
    BY <1>5, <2>2, <2>3, LimitsAssumption, SMT
<1> DEFINE b == [lines |-> lines, next |-> offset + 2]
<1>8. b.lines = lines /\ b.next = offset + 2 /\ BlockAt(w, TrailerBegins) = {b}
  BY <1>6
<1>9. DOMAIN lines = 1 .. Len(lines)
  BY <1>4, LenProperties
<1> HIDE DEF b
<1>10. TrailerAt(w, TrailerBegins) = {b}
  BY <1>4, <1>5, <1>7, <1>8, <1>9, TrailerAtIs
<1>11. {[body |-> body, next |-> t.next] : t \in TrailerAt(w, TrailerBegins)}
         = {[body |-> body, next |-> offset + 2]}
  BY <1>8, <1>10
<1>12. offset' + 1 = offset + 2
  BY <1>1, <1>5, SMT
<1> QED
  BY <1>1, <1>2, <1>11, <1>12 DEF InTrailers

-----------------------------------------------------------------------------
(* Reading a line *)

\* In a state that reads lines, one of the three sections is expected.
LEMMA HandExpected ==
  ASSUME NEW w, Expected(w), state \in LineStates
  PROVE  /\ InHand(w)
         /\ \/ state \in {"StatusLine", "Headers"} /\ Section = "head" /\ InHead(w)
            \/ state = "ChunkSize" /\ Section = "chunk" /\ InChunkSize(w)
            \/ state = "Trailers" /\ Section = "trailer" /\ InTrailers(w)
<1>1. CASE state \in {"StatusLine", "Headers"}
  <2>1. InHead(w)
    BY <1>1, Zenon DEF Expected
  <2> QED
    BY <1>1, <2>1 DEF Section, InHead
<1>2. CASE state = "ChunkSize"
  <2>1. InChunkSize(w)
    BY <1>2, Zenon DEF Expected
  <2> QED
    BY <1>2, <2>1 DEF Section, InChunkSize
<1>3. CASE state = "Trailers"
  <2>1. InTrailers(w)
    BY <1>3, Zenon DEF Expected
  <2> QED
    BY <1>3, <2>1 DEF Section, InTrailers
<1> QED
  BY <1>1, <1>2, <1>3 DEF LineStates

\* Chunks that are cut off in a size line are none.
LEMMA ChunkWithoutLine ==
  ASSUME IInv, NEW w, IsCut(w), InChunkSize(w), LineAt(w, Here) = {}
  PROVE  MessageOf(w, semantics) = {}
<1>1. w \in Seq(Bytes) /\ Here \in 1 .. Len(w) + 1
  BY DEF IsCut, InChunkSize, InHand
<1>2. SizeAt(w, Here) = {}
  BY DEF SizeAt
<1>3. ChunksFrom(w, Here)
        = UNION {ChunksOf(w, l.next, l.text[1].n) : l \in SizeAt(w, Here)}
  BY <1>1, ChunkEquation
<1>4. ChunksFrom(w, Here) = {}
  BY <1>2, <1>3
<1> QED
  BY <1>4, NothingJoined, NoBodies DEF InChunkSize

\* No line, no message.
LEMMA WithoutLine ==
  ASSUME IInv, NEW w, IsCut(w), Expected(w), state \in LineStates, LineAt(w, Here) = {}
  PROVE  MessageOf(w, semantics) = {}
BY HandExpected, HeadWithoutLine, ChunkWithoutLine, TrailerWithoutLine

\* A line that does not fit, no message.
LEMMA WithLongLine ==
  ASSUME IInv, NEW w, IsCut(w), Expected(w), state \in LineStates,
         NEW q \in Here .. Len(w) + 1, Plain(w, Here, q), ~Fits(q - Here)
  PROVE  MessageOf(w, semantics) = {}
<1>1. CASE Section = "chunk" /\ InChunkSize(w)
  <2>1. /\ w \in Seq(Bytes) /\ Len(w) \in Nat /\ Here \in 1 .. Len(w) + 1
    BY <1>1, LenProperties DEF IsCut, InChunkSize, InHand
  <2>2. q - Here > MaxLine
    <3>1. ~(q - Here <= MaxLine)
      BY <1>1 DEF Fits
    <3>2. Here \in Int /\ q \in Int
      BY <2>1, SMT
    <3> QED
      BY <3>1, <3>2, LimitsAssumption, SMT
  <2>3. LineAt(w, Here) = {}
    BY <2>1, <2>2, NoLine
  <2> QED
    BY <1>1, <2>3, ChunkWithoutLine
<1> QED
  BY <1>1, HandExpected, HeadTooLong, TrailerTooLong

\* The action that refuses a line for its ending.
LEMMA WrongEndingMeans ==
  ASSUME IInv, CountInv, WrongEnding, NEW w, IsCut(w), Expected(w), Len(w) >= upto
  PROVE  MessageOf(w, semantics) = {}
<1>1. state \in LineStates
  BY DEF WrongEnding
<1>2. InHand(w)
  BY <1>1, HandExpected
<1>3. LineAt(w, Here) = {}
  BY <1>2, LineEndsNowhere
<1> QED
  BY <1>1, <1>3, WithoutLine

\* The action that takes one byte of a line.
LEMMA ReadByteMeans ==
  ASSUME IInv, CountInv, ReadByte, NEW w, IsCut(w), Expected(w)
  PROVE  /\ outcome' = "none" /\ Len(w) >= offset' => Expected(w)'
         /\ outcome' # "none" /\ Len(w) >= upto => MessageOf(w, semantics) = {}
<1>1. state \in LineStates /\ outcome = "none" /\ UNCHANGED semantics
  BY DEF ReadByte, Feeding
<1>2. InHand(w)
  BY <1>1, HandExpected
<1>3. UNCHANGED << state, countVars, responseVars >>
  BY DEF ReadByte, Fails
<1>4. ASSUME outcome' = "none", Len(w) >= offset' PROVE Expected(w)'
  <2>1. InHand(w)' /\ Here' = Here
    BY <1>2, <1>4, HandGoesOn
  <2>2. /\ state' = state /\ semantics' = semantics
        /\ head_bytes' = head_bytes /\ trailer_bytes' = trailer_bytes
        /\ current' = current /\ informational' = informational /\ body' = body
        /\ trailers' = trailers /\ final_connection_close' = final_connection_close
    BY <1>1, <1>3 DEF countVars, responseVars
  <2>3. CASE state \in {"StatusLine", "Headers"} /\ InHead(w)
    <3>1. HeadBegins' = HeadBegins
      BY <2>1, <2>2 DEF HeadBegins
    <3>2. PICK lines : HeadGathered(w, lines) /\ (state = "StatusLine" <=> lines = << >>)
      BY <2>3 DEF InHead
    <3>3. HeadGathered(w, lines)'
      BY <2>1, <2>2, <3>1, <3>2 DEF HeadGathered
    <3>4. (\E some : HeadGathered(w, some) /\ (state = "StatusLine" <=> some = << >>))'
      BY <2>2, <3>2, <3>3
    <3>5. InHead(w)'
      BY <2>1, <2>2, <2>3, <3>1, <3>4 DEF InHead
    <3>6. state' \in {"StatusLine", "Headers"}
      BY <2>2, <2>3
    <3> QED
      BY <3>5, <3>6 DEF Expected
  <2>4. CASE state = "ChunkSize" /\ InChunkSize(w)
    <3>1. InChunkSize(w)'
      BY <2>1, <2>2, <2>4 DEF InChunkSize
    <3> QED
      BY <2>2, <2>4, <3>1 DEF Expected
  <2>5. CASE state = "Trailers" /\ InTrailers(w)
    <3>1. TrailerBegins' = TrailerBegins
      BY <2>1, <2>2 DEF TrailerBegins
    <3>2. PICK lines : TrailerGathered(w, lines)
      BY <2>5 DEF InTrailers
    <3>3. TrailerGathered(w, lines)'
      BY <2>1, <2>2, <3>1, <3>2 DEF TrailerGathered
    <3>4. (\E some : TrailerGathered(w, some))'
      BY <3>3
    <3>5. InTrailers(w)'
      BY <2>1, <2>2, <2>5, <3>1, <3>4 DEF InTrailers
    <3> QED
      BY <2>2, <2>5, <3>5 DEF Expected
  <2> QED
    BY <1>1, <2>3, <2>4, <2>5, HandExpected
<1>5. ASSUME outcome' # "none", Len(w) >= upto PROVE MessageOf(w, semantics) = {}
  <2>1. wire[offset + 1] = LF \/ outcome' = LimitError
    BY <1>1, <1>5, Zenon DEF ReadByte, Fails
  <2>2. CASE wire[offset + 1] = LF
    <3>1. LineAt(w, Here) = {}
      BY <1>2, <1>5, <2>2, LineEndsNowhere
    <3> QED
      BY <1>1, <3>1, WithoutLine
  <2>3. CASE outcome' = LimitError
    <3>1. PICK q \in Here .. Len(w) + 1 : Plain(w, Here, q) /\ ~Fits(q - Here)
      BY <1>2, <1>5, <2>3, LineTooLong
    <3> QED
      BY <1>1, <3>1, WithLongLine
  <2> QED
    BY <2>1, <2>2, <2>3
<1> QED
  BY <1>4, <1>5

-----------------------------------------------------------------------------
(* The end of the bytes *)

\* What the parser has taken is all there is.
LEMMA EndMeans ==
  ASSUME IInv, CountInv, NEW w, IsCut(w), Expected(w), Len(w) = offset, state # "CloseBody"
  PROVE  MessageOf(w, semantics) = {}
<1>1. offset \in Nat /\ remaining \in Nat
      /\ (state \in {"FixedBody", "ChunkData", "ChunkTerminator"} => remaining > 0)
      /\ state \in States
  BY DEF IInv, TypeOK, PositionOK
<1>2. CASE state \in LineStates
  <2>1. InHand(w)
    BY <1>2, HandExpected
  <2>2. LineAt(w, Here) = {}
    BY <2>1, LineCutOff
  <2> QED
    BY <1>2, <2>2, WithoutLine
<1>3. CASE state = "FixedBody"
  <2>1. InFixedBody(w)
    BY <1>3, Zenon DEF Expected
  <2>2. ~(offset + remaining <= Len(w))
    BY <1>1, <1>3, SMT
  <2> QED
    BY <2>1, <2>2 DEF InFixedBody
<1>4. CASE state = "ChunkData"
  <2>1. InChunk(w, body \o Rest(w), offset + 1 + remaining)
    BY <1>4, Zenon DEF Expected
  <2>2. ~Ended(w, offset + 1 + remaining)
    BY <1>1, <1>4, SMT DEF Ended
  <2> QED
    BY <2>1, <2>2 DEF InChunk
<1>5. CASE state = "ChunkTerminator"
  <2>1. InChunk(w, body, offset + remaining - 1)
    BY <1>5, Zenon DEF Expected
  <2>2. ~Ended(w, offset + remaining - 1)
    BY <1>1, <1>5, SMT DEF Ended
  <2> QED
    BY <2>1, <2>2 DEF InChunk
<1> QED
  BY <1>1, <1>2, <1>3, <1>4, <1>5 DEF States, CountInv

\* Or the body that nothing frames.
LEMMA OpenEndMeans ==
  ASSUME IInv, CountInv, NEW w, IsCut(w), Expected(w), Len(w) = offset, state = "CloseBody"
  PROVE  /\ MessageOf(w, semantics) = OpenBy({[body |-> body, next |-> offset + 1]})
         /\ final_connection_close
<1>1. InCloseBody(w) /\ final_connection_close
  BY Zenon DEF Expected, CountInv
<1>2. offset \in Nat /\ Len(body) \in Nat /\ Len(body) <= MaxBody /\ body \in Seq(Bytes)
  BY LenProperties DEF IInv, TypeOK, PositionOK, KeptOK, WithinLimits
<1>3. Len(body) + (Len(w) - offset) <= MaxBody
  BY <1>2, SMT
<1>4. SubSeq(w, offset + 1, Len(w)) = << >>
  BY <1>2, SubSeqEmpty, SMT
<1>5. body \o << >> = body
  BY <1>2, ConcatEmptySeq
<1> QED
  BY <1>1, <1>3, <1>4, <1>5 DEF InCloseBody

-----------------------------------------------------------------------------
(* The invariant *)

\* The wire as far as it may have been fed at some time.
Cuts == {Cut(n) : n \in 0 .. Len(wire)}

\* While the parser runs, every cut of the wire that goes beyond what it has
\* consumed means what Expected says of what it has kept. Afterwards the answer is
\* the message there is, or there is none: none among the cuts that have the bytes
\* fed so far, and for UnexpectedEof none in these bytes themselves. The bytes that
\* are still to come are unknown to the parser, hence every cut and not only the
\* bytes fed: a body without framing ends at any of them.
MeaningInv ==
  /\ outcome = "none" => CountInv /\ \A w \in Cuts : Len(w) >= offset => Expected(w)
  /\ outcome = "complete" => CompletesAtItsEnd
  /\ outcome \in Errors \ {"UnexpectedEof"} =>
       \A w \in Cuts : Len(w) >= upto => MessageOf(w, semantics) = {}
  /\ outcome = "UnexpectedEof" =>
       \A w \in Cuts : Len(w) = upto => MessageOf(w, semantics) = {}

\* Cuts are what IsCut says.
LEMMA CutsAre ==
  ASSUME TypeOK
  PROVE  /\ \A w \in Cuts : IsCut(w) /\ Len(w) \in Nat
         /\ \A n \in 0 .. Len(wire) : Cut(n) \in Cuts /\ Len(Cut(n)) = n
<1>1. \A w \in Cuts : IsCut(w)
  BY CutIs DEF Cuts
<1>2. \A w \in Cuts : Len(w) \in Nat
  BY <1>1, LenProperties DEF IsCut
<1>3. \A n \in 0 .. Len(wire) : Cut(n) \in Cuts /\ Len(Cut(n)) = n
  BY CutIs DEF Cuts
<1> QED
  BY <1>1, <1>2, <1>3

\* It holds at first: the parser expects the message of the wire itself.
LEMMA InitMeans == Init => MeaningInv
<1> SUFFICES ASSUME Init PROVE MeaningInv
  OBVIOUS
<1>1. IInv /\ TypeOK
  BY InitInv DEF IInv
<1>2. CountInv
  BY DEF Init, CountInv, LineStates
<1>3. ASSUME NEW w \in Cuts PROVE Expected(w)
  <2>1. IsCut(w) /\ Len(w) \in Nat /\ w \in Seq(Bytes)
    BY <1>1, CutsAre DEF IsCut
  <2>2. Here = 1
    BY EmptySeq, SMT DEF Init, Here
  <2>3. Here \in 1 .. Len(w) + 1 /\ offset \in 0 .. Len(w) /\ 1 .. Len(line) = {}
    <3>1. Len(line) = 0
      BY DEF Init
    <3> QED
      BY <2>1, <2>2, <3>1, SMT DEF Init
  <2>4. InHand(w)
    BY <2>3 DEF InHand, Init
  <2>5. HeadBegins = Here /\ HeadGathered(w, << >>)
    BY <2>1, <2>3, HeadStarts DEF Init
  <2>6. MessageOf(w, semantics) = MessageFrom(w, semantics, HeadBegins, informational)
    BY <2>2, <2>5 DEF MessageOf, Init
  <2>7. InHead(w)
    BY <2>3, <2>4, <2>5, <2>6 DEF InHead, Init
  <2> QED
    BY <2>7 DEF Expected, Init
<1> QED
  BY <1>2, <1>3 DEF MeaningInv, Init, Errors

\* A turn that goes on, or refuses what it has seen.
LEMMA TurnMeans ==
  ASSUME IInv, MeaningInv, outcome = "none", Same,
         outcome' = "none" => CountInv' /\ offset' \in Nat /\ offset' >= offset,
         outcome' \in {"none"} \cup (Errors \ {"UnexpectedEof"}),
         \A w : IsCut(w) /\ Expected(w) =>
           /\ outcome' = "none" /\ Len(w) >= offset' => Expected(w)'
           /\ outcome' # "none" /\ Len(w) >= upto => MessageOf(w, semantics) = {}
  PROVE  MeaningInv'
<1>1. Cuts' = Cuts /\ semantics' = semantics /\ upto' = upto
  BY DEF Cuts, Cut, Same
<1>2. /\ CountInv /\ \A w \in Cuts : Len(w) >= offset => Expected(w)
      /\ offset \in Nat /\ upto \in Nat /\ offset <= upto
      /\ \A w \in Cuts : IsCut(w) /\ Len(w) \in Nat
  BY CutsAre, SMT DEF MeaningInv, IInv, TypeOK, PositionOK
<1>3. CASE outcome' = "none"
  <2>1. \A w \in Cuts : Len(w) >= offset' => Expected(w)'
    <3> SUFFICES ASSUME NEW w \in Cuts, Len(w) >= offset' PROVE Expected(w)'
      OBVIOUS
    <3>1. Len(w) >= offset
      BY <1>2, <1>3, SMT
    <3> QED
      BY <1>2, <1>3, <3>1
  <2> QED
    BY <1>1, <1>3, <2>1 DEF MeaningInv, Errors
<1>4. CASE outcome' \in Errors \ {"UnexpectedEof"}
  <2>1. \A w \in Cuts : Len(w) >= upto => MessageOf(w, semantics) = {}
    <3> SUFFICES ASSUME NEW w \in Cuts, Len(w) >= upto PROVE MessageOf(w, semantics) = {}
      OBVIOUS
    <3>1. Len(w) >= offset
      BY <1>2, SMT
    <3>2. outcome' # "none"
      BY <1>4 DEF Errors
    <3> QED
      BY <1>2, <3>1, <3>2
  <2>2. outcome' # "none" /\ outcome' # "complete" /\ outcome' # "UnexpectedEof"
    BY <1>4 DEF Errors
  <2> QED
    BY <1>1, <1>4, <2>1, <2>2 DEF MeaningInv
<1> QED
  BY <1>3, <1>4

\* A turn that completes the response.
LEMMA CompletionMeans ==
  ASSUME IInv, MeaningInv, outcome = "none", Same,
         outcome' = "complete", offset' \in 0 .. upto, offset' >= offset,
         \A w : IsCut(w) /\ Expected(w) /\ Len(w) = offset' =>
           MessageOf(w, semantics)
             = FramedBy({[body |-> body', next |-> offset' + 1]}, final_connection_close')
  PROVE  MeaningInv'
<1>1. wire' = wire /\ semantics' = semantics
  BY DEF Same
<1>2. offset' \in 0 .. Len(wire) /\ offset' \in Nat
  BY LenProperties, SMT DEF IInv, TypeOK, PositionOK
<1>3. PICK w : w = Cut(offset')
  OBVIOUS
<1>4. w \in Cuts /\ Len(w) = offset' /\ IsCut(w)
  BY <1>2, <1>3, CutsAre DEF IInv
<1>5. Expected(w)
  BY <1>4 DEF MeaningInv
<1>6. MessageOf(w, semantics)
        = FramedBy({[body |-> body', next |-> offset' + 1]}, final_connection_close')
  BY <1>4, <1>5
<1> DEFINE message == [framed |-> TRUE, end |-> (offset' + 1) - 1, body |-> body',
                       close |-> final_connection_close']
<1>7. message \in MessageOf(w, semantics)
  BY <1>6 DEF FramedBy
<1>8. message.end = offset' /\ message.body = body'
      /\ message.close = final_connection_close' /\ message.framed
  <2>1. (offset' + 1) - 1 = offset'
    <3>1. PICK e : e = offset'
      OBVIOUS
    <3>2. e \in Nat
      BY <1>2, <3>1
    <3>3. (e + 1) - 1 = e
      BY <3>2, SMT
    <3> QED
      BY <3>1, <3>3
  <2> QED
    BY <2>1, Zenon
<1> HIDE DEF message
<1>9. w = SubSeq(wire', 1, offset')
  BY <1>1, <1>3 DEF Cut
<1>10. CompletesAtItsEnd'
  BY <1>1, <1>7, <1>8, <1>9 DEF CompletesAtItsEnd
<1> QED
  BY <1>10 DEF MeaningInv, Errors

\* What the invariant says while the parser runs.
LEMMA Running ==
  ASSUME IInv, MeaningInv, outcome = "none"
  PROVE  /\ CountInv /\ offset \in Nat /\ upto \in Nat /\ offset <= upto
         /\ Len(wire) \in Nat /\ upto <= Len(wire)
  BY LenProperties, SMT DEF MeaningInv, IInv, TypeOK, PositionOK

\* One action after the other.
LEMMA ReadByteMeaning == IInv /\ MeaningInv /\ ReadByte => MeaningInv'
<1> SUFFICES ASSUME IInv, MeaningInv, ReadByte PROVE MeaningInv'
  OBVIOUS
<1>1. outcome = "none" /\ Same /\ state \in LineStates
  BY DEF ReadByte, Feeding, Same
<1>2. CountInv /\ offset \in Nat
  BY <1>1, Running
<1>3. outcome' \in {"none"} \cup (Errors \ {"UnexpectedEof"})
  BY <1>1 DEF ReadByte, Fails, LimitError, Errors
<1>4. outcome' = "none" => offset' = offset + 1
  BY <1>1, Zenon DEF ReadByte, Fails, LimitError
<1>5. UNCHANGED << state, countVars, responseVars >>
  BY DEF ReadByte, Fails
<1>6. CountInv'
  BY <1>1, <1>2, <1>5 DEF CountInv, countVars, responseVars
<1>7. offset + 1 \in Nat /\ offset + 1 >= offset
  BY <1>2, SMT
<1>8. \A w : IsCut(w) /\ Expected(w) =>
        /\ outcome' = "none" /\ Len(w) >= offset' => Expected(w)'
        /\ outcome' # "none" /\ Len(w) >= upto => MessageOf(w, semantics) = {}
  BY <1>2, ReadByteMeans
<1> QED
  BY <1>1, <1>3, <1>4, <1>6, <1>7, <1>8, TurnMeans

LEMMA WrongEndingMeaning == IInv /\ MeaningInv /\ WrongEnding => MeaningInv'
<1> SUFFICES ASSUME IInv, MeaningInv, WrongEnding PROVE MeaningInv'
  OBVIOUS
<1>1. outcome = "none" /\ Same /\ outcome' = "InvalidLineEnding"
  BY DEF WrongEnding, Feeding, Same, Fails
<1>2. CountInv
  BY <1>1, Running
<1>3. outcome' \in {"none"} \cup (Errors \ {"UnexpectedEof"}) /\ outcome' # "none"
  BY <1>1 DEF Errors
<1>4. \A w : IsCut(w) /\ Expected(w) =>
        /\ outcome' = "none" /\ Len(w) >= offset' => Expected(w)'
        /\ outcome' # "none" /\ Len(w) >= upto => MessageOf(w, semantics) = {}
  BY <1>2, <1>3, WrongEndingMeans
<1> QED
  BY <1>1, <1>3, <1>4, TurnMeans

\* After a line.
LEMMA LineMeaning ==
  ASSUME IInv, MeaningInv, NEW s, LineOf(s)
  PROVE  /\ outcome = "none" /\ Same /\ state = s /\ CountInv
         /\ LineRead => /\ offset' \in Nat /\ offset' >= offset
                        /\ line' = << >> /\ ~pending_cr'
<1>1. outcome = "none" /\ Same /\ state = s
  BY DEF LineOf, Feeding, Same
<1>2. CountInv /\ offset \in Nat
  BY <1>1, Running
<1>3. offset + 1 \in Nat /\ offset + 1 >= offset
  BY <1>2, SMT
<1> QED
  BY <1>1, <1>2, <1>3 DEF LineRead

LEMMA ParseStatusLineMeaning == IInv /\ MeaningInv /\ ParseStatusLine => MeaningInv'
<1> SUFFICES ASSUME IInv, MeaningInv, ParseStatusLine PROVE MeaningInv'
  OBVIOUS
<1>1. LineOf("StatusLine")
  BY DEF ParseStatusLine
<1>2. outcome = "none" /\ Same /\ state = "StatusLine" /\ CountInv
  BY <1>1, LineMeaning
<1>3. \A w : IsCut(w) /\ Expected(w) =>
        /\ outcome' = "none" /\ Len(w) >= offset' => Expected(w)'
        /\ outcome' # "none" /\ Len(w) >= upto => MessageOf(w, semantics) = {}
  BY <1>2, ParseStatusLineMeans
<1>4. CASE /\ LineRead /\ HeadRead /\ state' = "Headers"
           /\ UNCHANGED << trailers, outcome >>
  <2>1. CountInv'
    BY <1>2, <1>4 DEF CountInv, HeadRead, LineStates
  <2> QED
    BY <1>1, <1>2, <1>3, <1>4, <2>1, LineMeaning, TurnMeans
<1>5. CASE Fails(StatusError)
  <2>1. outcome' \in Errors \ {"UnexpectedEof"} /\ outcome' # "none"
    BY <1>5 DEF Fails, StatusError, Errors
  <2> QED
    BY <1>2, <1>3, <2>1, TurnMeans
<1> QED
  BY <1>4, <1>5 DEF ParseStatusLine

LEMMA ParseFieldMeaning == IInv /\ MeaningInv /\ ParseField => MeaningInv'
<1> SUFFICES ASSUME IInv, MeaningInv, ParseField PROVE MeaningInv'
  OBVIOUS
<1>1. LineOf("Headers")
  BY DEF ParseField
<1>2. outcome = "none" /\ Same /\ state = "Headers" /\ CountInv
  BY <1>1, LineMeaning
<1>3. \A w : IsCut(w) /\ Expected(w) =>
        /\ outcome' = "none" /\ Len(w) >= offset' => Expected(w)'
        /\ outcome' # "none" /\ Len(w) >= upto => MessageOf(w, semantics) = {}
  BY <1>2, ParseFieldMeans
<1>4. CASE /\ LineRead /\ HeadRead
           /\ UNCHANGED << state, trailers, outcome >>
  <2>1. CountInv'
    BY <1>2, <1>4 DEF CountInv, HeadRead, LineStates
  <2> QED
    BY <1>1, <1>2, <1>3, <1>4, <2>1, LineMeaning, TurnMeans
<1>5. CASE FieldError # "none" /\ Fails(FieldError)
  <2>1. outcome' \in Errors \ {"UnexpectedEof"} /\ outcome' # "none"
    <3>1. FieldError # "UnexpectedEof"
      BY DEF FieldError
    <3> QED
      BY <1>5, <3>1, RefusalIsError DEF Fails
  <2> QED
    BY <1>2, <1>3, <2>1, TurnMeans
<1> QED
  BY <1>4, <1>5 DEF ParseField

LEMMA RefuseHeadMeaning == IInv /\ MeaningInv /\ RefuseHead => MeaningInv'
<1> SUFFICES ASSUME IInv, MeaningInv, RefuseHead PROVE MeaningInv'
  OBVIOUS
<1>1. LineOf("Headers") /\ HeadError # "none" /\ Fails(HeadError)
  BY DEF RefuseHead
<1>2. outcome = "none" /\ Same /\ CountInv
  BY <1>1, LineMeaning
<1>3. outcome' \in Errors \ {"UnexpectedEof"} /\ outcome' # "none"
  <2>1. HeadError # "UnexpectedEof"
    BY DEF HeadError
  <2> QED
    BY <1>1, <2>1, RefusalIsError DEF Fails
<1>4. \A w : IsCut(w) /\ Expected(w) =>
        /\ outcome' = "none" /\ Len(w) >= offset' => Expected(w)'
        /\ outcome' # "none" /\ Len(w) >= upto => MessageOf(w, semantics) = {}
  BY <1>2, <1>3, RefuseHeadMeans
<1> QED
  BY <1>2, <1>3, <1>4, TurnMeans

LEMMA InformationalMeaning == IInv /\ MeaningInv /\ Informational => MeaningInv'
<1> SUFFICES ASSUME IInv, MeaningInv, Informational PROVE MeaningInv'
  OBVIOUS
<1>1. /\ LineOf("Headers") /\ LineRead /\ outcome' = outcome /\ state' = "StatusLine"
      /\ head_bytes' = 0 /\ current' = DefaultHead
      /\ UNCHANGED << trailer_bytes, trailers >>
  BY DEF Informational, HeadLine
<1>2. outcome = "none" /\ Same /\ state = "Headers" /\ CountInv
  BY <1>1, LineMeaning
<1>3. CountInv'
  BY <1>1, <1>2 DEF CountInv, LineStates
<1>4. \A w : IsCut(w) /\ Expected(w) =>
        /\ outcome' = "none" /\ Len(w) >= offset' => Expected(w)'
        /\ outcome' # "none" /\ Len(w) >= upto => MessageOf(w, semantics) = {}
  BY <1>1, <1>2, InformationalMeans
<1> QED
  BY <1>1, <1>2, <1>3, <1>4, LineMeaning, TurnMeans

LEMMA HeadCompletesMeaning == IInv /\ MeaningInv /\ HeadCompletes => MeaningInv'
<1> SUFFICES ASSUME IInv, MeaningInv, HeadCompletes PROVE MeaningInv'
  OBVIOUS
<1>1. LineOf("Headers") /\ LineRead /\ outcome' = "complete"
  BY DEF HeadCompletes, HeadLine, Completes
<1>2. outcome = "none" /\ Same /\ CountInv /\ offset' >= offset
  BY <1>1, LineMeaning
<1>3. offset' \in 0 .. upto
  BY <1>1, LineFits DEF LineStates
<1>4. \A w : IsCut(w) /\ Expected(w) /\ Len(w) = offset' =>
        MessageOf(w, semantics)
          = FramedBy({[body |-> body', next |-> offset' + 1]}, final_connection_close')
  BY <1>2, HeadCompletesMeans
<1> QED
  BY <1>1, <1>2, <1>3, <1>4, CompletionMeans

LEMMA BodyFollowsMeaning == IInv /\ MeaningInv /\ BodyFollows => MeaningInv'
<1> SUFFICES ASSUME IInv, MeaningInv, BodyFollows PROVE MeaningInv'
  OBVIOUS
<1>1. /\ LineOf("Headers") /\ LineRead /\ HeadRead /\ outcome' = outcome
      /\ UNCHANGED trailers
      /\ state' \in {"ChunkSize", "FixedBody", "CloseBody"}
      /\ state' = "CloseBody" => final_connection_close'
  BY DEF BodyFollows, HeadLine
<1>2. outcome = "none" /\ Same /\ state = "Headers" /\ CountInv
      /\ line' = << >> /\ ~pending_cr'
  BY <1>1, LineMeaning
<1>3. CountInv'
  BY <1>1, <1>2 DEF CountInv, HeadRead
<1>4. \A w : IsCut(w) /\ Expected(w) =>
        /\ outcome' = "none" /\ Len(w) >= offset' => Expected(w)'
        /\ outcome' # "none" /\ Len(w) >= upto => MessageOf(w, semantics) = {}
  BY <1>1, <1>2, BodyFollowsMeans
<1> QED
  BY <1>1, <1>2, <1>3, <1>4, LineMeaning, TurnMeans

LEMMA FixedBodyMeaning == IInv /\ MeaningInv /\ FixedBody => MeaningInv'
<1> SUFFICES ASSUME IInv, MeaningInv, FixedBody PROVE MeaningInv'
  OBVIOUS
<1>1. /\ Feeding /\ state = "FixedBody" /\ TakeBody(Taken) /\ outcome = "none" /\ Same
      /\ UNCHANGED << lineVars, countVars, current, trailers, final_connection_close >>
  BY DEF FixedBody, Feeding, Same
<1>2. CountInv /\ offset \in Nat /\ upto \in Nat
  BY <1>1, Running
<1>3. offset' \in 0 .. upto /\ offset' \in Nat /\ offset' >= offset
  <2>1. Taken \in Nat /\ offset + Taken <= upto /\ offset' = offset + Taken
    BY <1>1, TakenFits DEF TakeBody
  <2> QED
    BY <1>2, <2>1, SMT
<1>4. \A w : IsCut(w) /\ Expected(w) =>
        /\ outcome' = "none" /\ Len(w) >= offset' => Expected(w)'
        /\ outcome' # "none" /\ Len(w) = offset' =>
             MessageOf(w, semantics)
               = FramedBy({[body |-> body', next |-> offset' + 1]}, final_connection_close')
  BY <1>2, FixedBodyMeans
<1>5. CASE state' = "Done" /\ outcome' = "complete"
  <2>1. outcome' # "none"
    BY <1>5
  <2> QED
    BY <1>1, <1>3, <1>4, <1>5, <2>1, CompletionMeans
<1>6. CASE UNCHANGED << state, outcome >>
  <2>1. CountInv'
    BY <1>1, <1>2, <1>6 DEF CountInv, LineStates, lineVars, countVars
  <2>2. outcome' = "none"
    BY <1>1, <1>6
  <2> QED
    BY <1>1, <1>3, <1>4, <2>1, <2>2, TurnMeans
<1> QED
  BY <1>5, <1>6 DEF FixedBody, Completes

LEMMA CloseBodyMeaning == IInv /\ MeaningInv /\ CloseBody => MeaningInv'
<1> SUFFICES ASSUME IInv, MeaningInv, CloseBody PROVE MeaningInv'
  OBVIOUS
<1>1. Feeding /\ state = "CloseBody" /\ outcome = "none" /\ Same
  BY DEF CloseBody, Feeding, Same
<1>2. CountInv /\ offset \in Nat /\ upto \in Nat /\ offset <= upto
  BY <1>1, Running
<1>3. \A w : IsCut(w) /\ Expected(w) =>
        /\ outcome' = "none" /\ Len(w) >= offset' => Expected(w)'
        /\ outcome' # "none" /\ Len(w) >= upto => MessageOf(w, semantics) = {}
  BY <1>2, CloseBodyMeans
<1>4. CASE /\ TakeBody(upto - offset)
           /\ UNCHANGED << state, remaining, lineVars, countVars, current, informational,
                           trailers, final_connection_close, outcome >>
  <2>1. CountInv'
    BY <1>1, <1>2, <1>4 DEF CountInv, LineStates, lineVars, countVars
  <2>2. offset' \in Nat /\ offset' >= offset
    <3>1. offset' = offset + (upto - offset)
      BY <1>4 DEF TakeBody
    <3> QED
      BY <1>2, <3>1, SMT
  <2> QED
    BY <1>1, <1>3, <1>4, <2>1, <2>2, TurnMeans
<1>5. CASE Fails("BodyLimitExceeded")
  <2>1. outcome' \in Errors \ {"UnexpectedEof"} /\ outcome' # "none"
    BY <1>5 DEF Fails, Errors
  <2> QED
    BY <1>1, <1>3, <2>1, TurnMeans
<1> QED
  BY <1>4, <1>5, Zenon DEF CloseBody

LEMMA ChunkSizeMeaning == IInv /\ MeaningInv /\ ChunkSize => MeaningInv'
<1> SUFFICES ASSUME IInv, MeaningInv, ChunkSize PROVE MeaningInv'
  OBVIOUS
<1>1. LineOf("ChunkSize")
  BY DEF ChunkSize
<1>2. outcome = "none" /\ Same /\ state = "ChunkSize" /\ CountInv
  BY <1>1, LineMeaning
<1>3. \A w : IsCut(w) /\ Expected(w) =>
        /\ outcome' = "none" /\ Len(w) >= offset' => Expected(w)'
        /\ outcome' # "none" /\ Len(w) >= upto => MessageOf(w, semantics) = {}
  BY <1>2, ChunkSizeMeans
<1>4. CASE /\ LineRead /\ state' = IF line[1].n = 0 THEN "Trailers" ELSE "ChunkData"
           /\ UNCHANGED << countVars, responseVars, outcome >>
  <2>1. state' \in {"Trailers", "ChunkData"} /\ line' = << >> /\ ~pending_cr'
    BY <1>1, <1>4, LineMeaning
  <2>2. CountInv'
    BY <1>2, <1>4, <2>1 DEF CountInv, countVars, responseVars
  <2> QED
    BY <1>1, <1>2, <1>3, <1>4, <2>2, LineMeaning, TurnMeans
<1>5. CASE Fails("InvalidChunkSize") \/ Fails("BodyLimitExceeded")
  <2>1. outcome' \in Errors \ {"UnexpectedEof"} /\ outcome' # "none"
    BY <1>5 DEF Fails, Errors
  <2> QED
    BY <1>2, <1>3, <2>1, TurnMeans
<1> QED
  BY <1>4, <1>5, Zenon DEF ChunkSize

LEMMA ChunkDataMeaning == IInv /\ MeaningInv /\ ChunkData => MeaningInv'
<1> SUFFICES ASSUME IInv, MeaningInv, ChunkData PROVE MeaningInv'
  OBVIOUS
<1>1. /\ Feeding /\ state = "ChunkData" /\ TakeBody(Taken) /\ outcome = "none" /\ Same
      /\ UNCHANGED << lineVars, countVars, current, trailers, final_connection_close, outcome >>
      /\ state' \in {"ChunkData", "ChunkTerminator"}
  BY DEF ChunkData, Feeding, Same
<1>2. CountInv /\ offset \in Nat /\ upto \in Nat
  BY <1>1, Running
<1>3. offset' \in Nat /\ offset' >= offset
  <2>1. Taken \in Nat /\ offset' = offset + Taken
    BY <1>1, TakenFits DEF TakeBody
  <2> QED
    BY <1>2, <2>1, SMT
<1>4. CountInv'
  BY <1>1, <1>2 DEF CountInv, LineStates, lineVars, countVars
<1>5. outcome' = "none"
  BY <1>1
<1>6. \A w : IsCut(w) /\ Expected(w) =>
        /\ outcome' = "none" /\ Len(w) >= offset' => Expected(w)'
        /\ outcome' # "none" /\ Len(w) >= upto => MessageOf(w, semantics) = {}
  BY <1>2, <1>5, ChunkDataMeans
<1> QED
  BY <1>1, <1>3, <1>4, <1>5, <1>6, TurnMeans

LEMMA ChunkTerminatorMeaning == IInv /\ MeaningInv /\ ChunkTerminator => MeaningInv'
<1> SUFFICES ASSUME IInv, MeaningInv, ChunkTerminator PROVE MeaningInv'
  OBVIOUS
<1>1. Feeding /\ state = "ChunkTerminator" /\ outcome = "none" /\ Same
  BY DEF ChunkTerminator, Feeding, Same
<1>2. CountInv /\ offset \in Nat /\ offset + 1 \in Nat /\ offset + 1 >= offset
  BY <1>1, Running, SMT
<1>3. \A w : IsCut(w) /\ Expected(w) =>
        /\ outcome' = "none" /\ Len(w) >= offset' => Expected(w)'
        /\ outcome' # "none" /\ Len(w) >= upto => MessageOf(w, semantics) = {}
  BY <1>2, ChunkTerminatorMeans
<1>4. CASE /\ offset' = offset + 1
           /\ state' = IF remaining = 2 THEN "ChunkTerminator" ELSE "ChunkSize"
           /\ UNCHANGED << lineVars, countVars, responseVars, outcome >>
  <2>1. state' \in {"ChunkTerminator", "ChunkSize"}
    BY <1>4
  <2>2. CountInv'
    BY <1>1, <1>2, <1>4, <2>1 DEF CountInv, LineStates, lineVars, countVars, responseVars
  <2> QED
    BY <1>1, <1>2, <1>3, <1>4, <2>2, TurnMeans
<1>5. CASE Fails("InvalidChunkTerminator")
  <2>1. outcome' \in Errors \ {"UnexpectedEof"} /\ outcome' # "none"
    BY <1>5 DEF Fails, Errors
  <2> QED
    BY <1>1, <1>3, <2>1, TurnMeans
<1> QED
  BY <1>4, <1>5, Zenon DEF ChunkTerminator

LEMMA ParseTrailerMeaning == IInv /\ MeaningInv /\ ParseTrailer => MeaningInv'
<1> SUFFICES ASSUME IInv, MeaningInv, ParseTrailer PROVE MeaningInv'
  OBVIOUS
<1>1. LineOf("Trailers")
  BY DEF ParseTrailer
<1>2. outcome = "none" /\ Same /\ state = "Trailers" /\ CountInv
  BY <1>1, LineMeaning
<1>3. \A w : IsCut(w) /\ Expected(w) =>
        /\ outcome' = "none" /\ Len(w) >= offset' => Expected(w)'
        /\ outcome' # "none" /\ Len(w) >= upto => MessageOf(w, semantics) = {}
  BY <1>2, ParseTrailerMeans
<1>4. CASE LineRead /\ UNCHANGED << state, outcome >>
  <2>1. CountInv'
    BY <1>2, <1>4 DEF CountInv, LineStates
  <2> QED
    BY <1>1, <1>2, <1>3, <1>4, <2>1, LineMeaning, TurnMeans
<1>5. CASE TrailerError # "none" /\ Fails(TrailerError)
  <2>1. outcome' \in Errors \ {"UnexpectedEof"} /\ outcome' # "none"
    <3>1. TrailerError # "UnexpectedEof"
      BY DEF TrailerError
    <3> QED
      BY <1>5, <3>1, RefusalIsError DEF Fails
  <2> QED
    BY <1>2, <1>3, <2>1, TurnMeans
<1> QED
  BY <1>4, <1>5 DEF ParseTrailer

LEMMA TrailersEndMeaning == IInv /\ MeaningInv /\ TrailersEnd => MeaningInv'
<1> SUFFICES ASSUME IInv, MeaningInv, TrailersEnd PROVE MeaningInv'
  OBVIOUS
<1>1. LineOf("Trailers") /\ LineRead /\ outcome' = "complete"
  BY DEF TrailersEnd, Completes
<1>2. outcome = "none" /\ Same /\ CountInv /\ offset' >= offset
  BY <1>1, LineMeaning
<1>3. offset' \in 0 .. upto
  BY <1>1, LineFits DEF LineStates
<1>4. \A w : IsCut(w) /\ Expected(w) /\ Len(w) = offset' =>
        MessageOf(w, semantics)
          = FramedBy({[body |-> body', next |-> offset' + 1]}, final_connection_close')
  BY <1>2, TrailersEndMeans
<1> QED
  BY <1>1, <1>2, <1>3, <1>4, CompletionMeans

\* Nothing but the end of what has been fed changes.
LEMMA ExpectedStays ==
  ASSUME UNCHANGED << wire, semantics, state, remaining, offset, lineVars, countVars,
                      responseVars >>,
         NEW w, Expected(w)
  PROVE  Expected(w)'
<1>0. UNCHANGED << wire, semantics, state, remaining, offset, line, pending_cr,
                   head_bytes, trailer_bytes, current, informational, body, trailers,
                   final_connection_close >>
  BY DEF lineVars, countVars, responseVars
<1>1. InHand(w)' <=> InHand(w)
  BY <1>0 DEF InHand, Here
<1>2. Here' = Here /\ HeadBegins' = HeadBegins /\ TrailerBegins' = TrailerBegins
  BY <1>0 DEF Here, HeadBegins, TrailerBegins
<1>3. InHead(w) => InHead(w)'
  <2> SUFFICES ASSUME InHead(w) PROVE InHead(w)'
    OBVIOUS
  <2>1. PICK lines : HeadGathered(w, lines) /\ (state = "StatusLine" <=> lines = << >>)
    BY DEF InHead
  <2>2. HeadGathered(w, lines)'
    BY <1>0, <1>2, <2>1 DEF HeadGathered
  <2>3. (\E some : HeadGathered(w, some) /\ (state = "StatusLine" <=> some = << >>))'
    BY <1>0, <2>1, <2>2
  <2> QED
    BY <1>0, <1>1, <1>2, <2>3 DEF InHead
<1>4. InTrailers(w) => InTrailers(w)'
  <2> SUFFICES ASSUME InTrailers(w) PROVE InTrailers(w)'
    OBVIOUS
  <2>1. PICK lines : TrailerGathered(w, lines)
    BY DEF InTrailers
  <2>2. TrailerGathered(w, lines)'
    BY <1>0, <1>2, <2>1 DEF TrailerGathered
  <2>3. (\E some : TrailerGathered(w, some))'
    BY <2>2
  <2> QED
    BY <1>0, <1>1, <1>2, <2>3 DEF InTrailers
<1>5. InChunkSize(w) => InChunkSize(w)'
  BY <1>0, <1>1, <1>2 DEF InChunkSize
<1>6. /\ InFixedBody(w) => InFixedBody(w)'
      /\ InCloseBody(w) => InCloseBody(w)'
      /\ InChunk(w, body \o Rest(w), offset + 1 + remaining)
           => InChunk(w, body \o Rest(w), offset + 1 + remaining)'
      /\ InChunk(w, body, offset + remaining - 1)
           => InChunk(w, body, offset + remaining - 1)'
  BY <1>0 DEF InFixedBody, InCloseBody, InChunk, Rest
<1> QED
  BY <1>0, <1>3, <1>4, <1>5, <1>6, Zenon DEF Expected

\* A segment of any length has been fed.
LEMMA FeedMeaning ==
  ASSUME IInv, MeaningInv, NEW n \in Nat, Feed(n)
  PROVE  MeaningInv'
<1>1. /\ outcome = "none" /\ outcome' = "none" /\ wire' = wire
      /\ UNCHANGED << wire, semantics, state, remaining, offset, line, pending_cr,
                      head_bytes, trailer_bytes, current, informational, body, trailers,
                      final_connection_close >>
  BY DEF Feed, Idle, lineVars, countVars, responseVars
<1>2. CountInv /\ \A w \in Cuts : Len(w) >= offset => Expected(w)
  BY <1>1 DEF MeaningInv
<1>3. CountInv'
  BY <1>1, <1>2 DEF CountInv
<1>4. \A w : Expected(w) => Expected(w)'
  BY ExpectedStays DEF Feed
<1>5. \A w \in Cuts : Len(w) >= offset' => Expected(w)'
  BY <1>1, <1>2, <1>4
<1>6. Cuts' = Cuts
  BY <1>1 DEF Cuts, Cut
<1> QED
  BY <1>1, <1>3, <1>5, <1>6 DEF MeaningInv, Errors

\* Nothing changes.
LEMMA StutterMeaning == IInv /\ MeaningInv /\ UNCHANGED vars => MeaningInv'
<1> SUFFICES ASSUME IInv, MeaningInv, UNCHANGED vars PROVE MeaningInv'
  OBVIOUS
<1>1. /\ outcome' = outcome /\ upto' = upto /\ semantics' = semantics /\ wire' = wire
      /\ UNCHANGED << wire, semantics, state, remaining, offset, lineVars, countVars,
                      responseVars >>
  BY DEF vars
<1>2. \A w : Expected(w) => Expected(w)'
  BY <1>1, ExpectedStays
<1>3. CountInv => CountInv'
  BY <1>1 DEF CountInv, lineVars, countVars, responseVars
<1>4. CompletesAtItsEnd => CompletesAtItsEnd'
  BY <1>1 DEF CompletesAtItsEnd, responseVars
<1>5. Cuts' = Cuts
  BY <1>1 DEF Cuts, Cut
<1> QED
  BY <1>1, <1>2, <1>3, <1>4, <1>5, Zenon DEF MeaningInv

\* What all the bytes fed so far mean, while the parser waits for more.
LEMMA IdleMeans ==
  ASSUME IInv, MeaningInv, Idle
  PROVE  /\ Cut(upto) \in Cuts
         /\ state # "CloseBody" =>
              \A w \in Cuts : Len(w) = upto => MessageOf(w, semantics) = {}
         /\ state = "CloseBody" =>
              /\ MessageOf(Cut(upto), semantics) = OpenBy({[body |-> body, next |-> offset + 1]})
              /\ final_connection_close = TRUE /\ ~pending_cr
<1>1. outcome = "none" /\ offset = upto
  BY DEF Idle
<1>2. /\ CountInv /\ offset \in Nat /\ upto \in 0 .. Len(wire) /\ TypeOK
      /\ final_connection_close \in BOOLEAN
  BY <1>1, Running, SMT DEF IInv, TypeOK, PositionOK, KeptOK
<1>3. Cut(upto) \in Cuts /\ Len(Cut(upto)) = upto
  BY <1>2, CutsAre
<1>4. \A w \in Cuts : Len(w) = upto => IsCut(w) /\ Expected(w) /\ Len(w) = offset
  <2>1. offset >= offset
    BY <1>2, SMT
  <2> QED
    BY <1>1, <1>2, <2>1, CutsAre DEF MeaningInv
<1>5. state # "CloseBody" => \A w \in Cuts : Len(w) = upto => MessageOf(w, semantics) = {}
  BY <1>2, <1>4, EndMeans
<1>6. state = "CloseBody" =>
        /\ MessageOf(Cut(upto), semantics) = OpenBy({[body |-> body, next |-> offset + 1]})
        /\ final_connection_close /\ ~pending_cr
  <2> SUFFICES ASSUME state = "CloseBody"
               PROVE  /\ MessageOf(Cut(upto), semantics)
                           = OpenBy({[body |-> body, next |-> offset + 1]})
                      /\ final_connection_close /\ ~pending_cr
    OBVIOUS
  <2>1. PICK w : w = Cut(upto)
    OBVIOUS
  <2>2. IsCut(w) /\ Expected(w) /\ Len(w) = offset
    BY <1>3, <1>4, <2>1
  <2>3. ~pending_cr
    BY <1>2 DEF CountInv, LineStates
  <2> QED
    BY <1>2, <2>1, <2>2, <2>3, OpenEndMeans
<1> QED
  BY <1>2, <1>3, <1>5, <1>6

\* The message that a body open to the end makes.
LEMMA OpenMessage ==
  ASSUME NEW data, NEW e \in Nat
  PROVE  \E message \in OpenBy({[body |-> data, next |-> e + 1]}) :
           /\ message.end = e /\ message.body = data
           /\ message.close = TRUE /\ ~message.framed
<1>1. (e + 1) - 1 = e
  BY SMT
<1>2. PICK message : message = [framed |-> FALSE, end |-> (e + 1) - 1, body |-> data,
                                close |-> TRUE]
  OBVIOUS
<1>3. message \in OpenBy({[body |-> data, next |-> e + 1]})
  BY <1>2 DEF OpenBy
<1>4. /\ message.end = e /\ message.body = data
      /\ message.close = TRUE /\ ~message.framed
  BY <1>1, <1>2, Zenon
<1> QED
  BY <1>3, <1>4

\* finish_eof(): the bytes fed so far are all there is.
LEMMA FinishEofMeaning == IInv /\ MeaningInv /\ FinishEof => MeaningInv'
<1> SUFFICES ASSUME IInv, MeaningInv, FinishEof PROVE MeaningInv'
  OBVIOUS
<1>1. Idle /\ outcome = "none" /\ offset = upto /\ offset \in Nat
      /\ wire' = wire /\ semantics' = semantics /\ upto' = upto
  BY DEF FinishEof, Idle, IInv, TypeOK, PositionOK
<1>2. CASE /\ state = "CloseBody" /\ outcome' = "complete"
           /\ UNCHANGED << offset, responseVars >>
  <2>1. /\ MessageOf(Cut(upto), semantics) = OpenBy({[body |-> body, next |-> offset + 1]})
        /\ final_connection_close = TRUE
    BY <1>1, <1>2, IdleMeans
  <2>2. PICK message \in MessageOf(Cut(upto), semantics) :
          /\ message.end = offset /\ message.body = body /\ message.close = TRUE
    <3>1. PICK data, e : data = body /\ e = offset
      OBVIOUS
    <3>2. MessageOf(Cut(upto), semantics) = OpenBy({[body |-> data, next |-> e + 1]})
      BY <2>1, <3>1
    <3>3. \E message \in OpenBy({[body |-> data, next |-> e + 1]}) :
            /\ message.end = e /\ message.body = data
            /\ message.close = TRUE /\ ~message.framed
      <4>1. e \in Nat
        BY <1>1, <3>1
      <4> QED
        BY <4>1, OpenMessage, Zenon
    <3> QED
      BY <3>1, <3>2, <3>3
  <2>3. offset' = offset /\ body' = body /\ final_connection_close' = final_connection_close
    BY <1>2 DEF responseVars
  <2>4. Cut(upto) = SubSeq(wire', 1, offset')
    BY <1>1, <2>3 DEF Cut
  <2>5. CompletesAtItsEnd'
    BY <1>1, <2>1, <2>2, <2>3, <2>4, Zenon DEF CompletesAtItsEnd
  <2> QED
    BY <1>2, <2>5 DEF MeaningInv, Errors
<1>3. CASE (state # "CloseBody" \/ pending_cr) /\ outcome' = "UnexpectedEof"
  <2>1. state # "CloseBody"
    BY <1>1, <1>3, IdleMeans
  <2>2. \A w \in Cuts : Len(w) = upto => MessageOf(w, semantics) = {}
    BY <1>1, <2>1, IdleMeans
  <2>3. Cuts' = Cuts
    BY <1>1 DEF Cuts, Cut
  <2> QED
    BY <1>1, <1>3, <2>2, <2>3 DEF MeaningInv
<1> QED
  BY <1>2, <1>3, Zenon DEF FinishEof, Completes, Fails

\* Both properties follow from the invariant.
LEMMA MeaningIs ==
  ASSUME IInv, MeaningInv
  PROVE  CompletesAtItsEnd /\ MissesNoMessage
<1>1. /\ wire \in Seq(Bytes) /\ Len(wire) \in Nat /\ upto \in 0 .. Len(wire)
      /\ upto \in Nat /\ offset \in Nat /\ TypeOK
  BY LenProperties, SMT DEF IInv, TypeOK, PositionOK
<1>2. CompletesAtItsEnd
  BY DEF MeaningInv, CompletesAtItsEnd
<1>3. Cut(upto) \in Cuts /\ Len(Cut(upto)) = upto /\ Cut(upto) = SubSeq(wire, 1, upto)
  BY <1>1, CutsAre DEF Cut
<1>4. Idle => \A message \in MessageOf(SubSeq(wire, 1, upto), semantics) : ~message.framed
  <2> SUFFICES ASSUME Idle
               PROVE  \A message \in MessageOf(Cut(upto), semantics) : ~message.framed
    BY <1>3
  <2>1. CASE state # "CloseBody"
    BY <1>3, <2>1, IdleMeans
  <2>2. CASE state = "CloseBody"
    <3>1. MessageOf(Cut(upto), semantics) = OpenBy({[body |-> body, next |-> offset + 1]})
      BY <2>2, IdleMeans
    <3> QED
      BY <3>1 DEF OpenBy
  <2> QED
    BY <2>1, <2>2
<1>5. outcome \in Errors => MessageOf(SubSeq(wire, 1, upto), semantics) = {}
  <2>1. upto >= upto
    BY <1>1, SMT
  <2> QED
    BY <1>3, <2>1 DEF MeaningInv
<1>6. outcome \in Errors \ {"UnexpectedEof"}
        => \A message \in MessageOf(wire, semantics) : ~message.framed
  <2>1. Cut(Len(wire)) \in Cuts /\ Len(Cut(Len(wire))) = Len(wire)
    BY <1>1, CutsAre, SMT
  <2>2. PICK w : w = Cut(Len(wire))
    OBVIOUS
  <2>3. /\ w \in Cuts /\ Len(w) = Len(wire) /\ w \in Seq(Bytes)
        /\ \A k \in 1 .. Len(w) : w[k] = wire[k]
    BY <1>1, <2>1, <2>2, CutsAre DEF IsCut
  <2>4. w = wire
    BY <1>1, <2>3, SeqEqual
  <2>5. Len(w) >= upto
    BY <1>1, <2>3, SMT
  <2> QED
    BY <2>3, <2>4, <2>5 DEF MeaningInv
<1> QED
  BY <1>2, <1>4, <1>5, <1>6 DEF MissesNoMessage

\* MeaningInv is inductive: at every turn of feed(), read_line() or finish_eof()
\* what the bytes mean is still what the parser has made of them, for every way the
\* wire may go on.
THEOREM MeaningInductive == IInv /\ MeaningInv /\ [Next]_vars => MeaningInv'
<1> SUFFICES ASSUME IInv, MeaningInv, [Next]_vars PROVE MeaningInv'
  OBVIOUS
<1>1. ASSUME NEW n \in 1 .. MaxSegment, Feed(n) PROVE MeaningInv'
  <2>1. n \in Nat
    BY WiresAssumption, SMT
  <2> QED
    BY <1>1, <2>1, FeedMeaning
<1>2. CASE UNCHANGED vars
  BY <1>2, StutterMeaning
<1> QED
  BY <1>1, <1>2, ReadByteMeaning, WrongEndingMeaning, ParseStatusLineMeaning,
     ParseFieldMeaning, RefuseHeadMeaning, InformationalMeaning, HeadCompletesMeaning,
     BodyFollowsMeaning, FixedBodyMeaning, CloseBodyMeaning, ChunkSizeMeaning,
     ChunkDataMeaning, ChunkTerminatorMeaning, ParseTrailerMeaning, TrailersEndMeaning,
     FinishEofMeaning
  DEF Next

\* However the wire is cut into segments, and whatever it holds: when feed() or
\* finish_eof() completes a response, the bytes consumed are one message of the
\* grammar, with the body and the word on the connection that take_response()
\* gives, and nothing after that message has been consumed.
THEOREM EndIsFound == Spec => []CompletesAtItsEnd
<1>1. IInv /\ MeaningInv => CompletesAtItsEnd
  BY MeaningIs
<1> QED
  BY <1>1, InitInv, InitMeans, Inductive, MeaningInductive, PTL DEF Spec

\* When all that was fed has been taken without an end, it holds no framed response;
\* what feed() or finish_eof() refuses is no response, and what feed() refuses
\* would not become a framed one with the bytes that have not arrived yet.
THEOREM NoneIsMissed == Spec => []MissesNoMessage
<1>1. IInv /\ MeaningInv => MissesNoMessage
  BY MeaningIs
<1> QED
  BY <1>1, InitInv, InitMeans, Inductive, MeaningInductive, PTL DEF Spec

=============================================================================
