---------------------------- MODULE ResponseParser ----------------------------
(***************************************************************************)
(* ResponseParser (http1/response.rs) as execute() drives it: the bytes of *)
(* one connection, fed in whatever pieces read() returns them, until the   *)
(* response is complete, the bytes are none, or the peer closes.           *)
(*                                                                         *)
(* feed() is a loop; an action here is one turn of it, or one turn of the  *)
(* loop of read_line().  An error ends the exchange, and the parser is     *)
(* dropped with it.                                                        *)
(***************************************************************************)
EXTENDS ResponseGrammar

CONSTANTS Wires,       \* what the peer may send
          MaxSegment   \* bound: bytes that one read() returns

ASSUME WiresAssumption == Wires \subseteq Seq(Bytes) /\ MaxSegment \in Nat \ {0}

VARIABLES
  wire,                    \* what the peer sends
  semantics,               \* RequestSemantics
  upto,                    \* the end of the segment that was fed last
  state,                   \* State, with
  remaining,               \*   what it counts
  offset,                  \* bytes consumed
  line, pending_cr,        \* the line in hand
  head_bytes, trailer_bytes,
  current,                 \* CurrentHead, its fields counted
  informational,           \* informational heads, counted
  body,
  trailers,                \* counted
  final_connection_close,
  outcome                  \* "none", "complete" or the kind of the error

lineVars == << line, pending_cr >>
countVars == << head_bytes, trailer_bytes >>
responseVars == << current, informational, body, trailers, final_connection_close >>
vars == << wire, semantics, upto, state, remaining, offset, lineVars, countVars,
           responseVars, outcome >>

NoLength == -1
DefaultHead ==
  [version |-> "none", status |-> 0, headers |-> 0, content_length |-> NoLength,
   chunked |-> FALSE, close |-> FALSE, keep_alive |-> FALSE]

LineStates == {"StatusLine", "Headers", "ChunkSize", "Trailers"}
States == LineStates \cup {"FixedBody", "ChunkData", "ChunkTerminator", "CloseBody", "Done"}

Init ==
  /\ wire \in Wires /\ semantics \in {"Normal", "HEAD"} /\ upto = 0
  /\ state = "StatusLine" /\ remaining = 0 /\ offset = 0
  /\ line = << >> /\ pending_cr = FALSE
  /\ head_bytes = 0 /\ trailer_bytes = 0
  /\ current = DefaultHead /\ informational = 0 /\ body = << >> /\ trailers = 0
  /\ final_connection_close = FALSE
  /\ outcome = "none"

Feeding == outcome = "none" /\ offset < upto
Idle == outcome = "none" /\ offset = upto

\* Mutant: a carriage return at the end of a segment is forgotten.
FeedForgetting(n) ==
  /\ Idle /\ upto + n <= Len(wire)
  /\ upto' = upto + n
  /\ pending_cr' = FALSE
  /\ UNCHANGED << wire, semantics, state, remaining, offset, line, countVars,
                  responseVars, outcome >>

\* feed(): n more bytes.
Feed(n) ==
  /\ Idle /\ upto + n <= Len(wire)
  /\ upto' = upto + n
  /\ UNCHANGED << wire, semantics, state, remaining, offset, lineVars, countVars,
                  responseVars, outcome >>

Fails(kind) ==
  /\ outcome' = kind
  /\ UNCHANGED << state, remaining, offset, lineVars, countVars, responseVars >>

\* complete_response(); the response that it returns is what the variables hold.
Completes == state' = "Done" /\ outcome' = "complete"

-----------------------------------------------------------------------------
(* read_line() *)

Section == CASE state \in {"StatusLine", "Headers"} -> "head"
             [] state = "Trailers"                  -> "trailer"
             [] OTHER                               -> "chunk"

LimitError == IF Section = "trailer" THEN "TrailerLimitExceeded" ELSE "HeaderLimitExceeded"

\* ensure_line_fits()
Fits(length) ==
  /\ length <= MaxLine
  /\ Section = "head" => head_bytes + length + 2 <= MaxHead
  /\ Section = "trailer" => trailer_bytes + length + 2 <= MaxTrailerBytes

\* A byte of a line.
ReadByte ==
  /\ Feeding /\ state \in LineStates /\ ~pending_cr
  /\ LET byte == wire[offset + 1] IN
       \/ byte = LF /\ Fails("BareLineFeed")
       \/ /\ byte = CR /\ Fits(Len(line))
          /\ pending_cr' = TRUE /\ offset' = offset + 1
          /\ UNCHANGED << line, state, remaining, countVars, responseVars, outcome >>
       \/ /\ byte \notin {CR, LF} /\ Fits(Len(line) + 1)
          /\ line' = Append(line, byte) /\ offset' = offset + 1
          /\ UNCHANGED << pending_cr, state, remaining, countVars, responseVars, outcome >>
       \/ byte = CR /\ ~Fits(Len(line)) /\ Fails(LimitError)
       \/ byte \notin {CR, LF} /\ ~Fits(Len(line) + 1) /\ Fails(LimitError)
  /\ UNCHANGED << wire, semantics, upto >>

WrongEnding ==
  /\ Feeding /\ state \in LineStates /\ pending_cr
  /\ wire[offset + 1] # LF
  /\ Fails("InvalidLineEnding")
  /\ UNCHANGED << wire, semantics, upto >>

\* A line of this state is complete: read_line() returns it, and feed() looks
\* at it.
LineOf(s) ==
  /\ Feeding /\ state = s /\ pending_cr
  /\ wire[offset + 1] = LF
  /\ UNCHANGED << wire, semantics, upto >>

\* What read_line() leaves behind, with record_line().
LineRead ==
  /\ offset' = offset + 1 /\ line' = << >> /\ pending_cr' = FALSE
HeadRead == head_bytes' = head_bytes + Len(line) + 2 /\ UNCHANGED trailer_bytes
TrailerRead == trailer_bytes' = trailer_bytes + Len(line) + 2 /\ UNCHANGED head_bytes

-----------------------------------------------------------------------------
(* The head *)

\* Why the status line in hand is refused.
StatusError ==
  IF line # << >> /\ line[1].is \in Versions /\ line[1].n \notin 100 .. 599
    THEN "InvalidStatusCode" ELSE "InvalidStatusLine"

ParseStatusLine ==
  /\ LineOf("StatusLine")
  /\ \/ /\ line # << >> /\ IsStatus(line)
        /\ LineRead /\ HeadRead
        /\ state' = "Headers"
        /\ current' = [current EXCEPT !.version = line[1].is, !.status = line[1].n]
        /\ UNCHANGED << remaining, informational, body, trailers,
                        final_connection_close, outcome >>
     \/ ~(line # << >> /\ IsStatus(line)) /\ Fails(StatusError)

FieldKinds == Framing \cup Tokens \cup {"field", "other-coding"}

\* parse_header_line() and apply_header_semantics(): why the field in hand is
\* refused, or "none".
FieldError ==
  LET kind == line[1].is
      known == Len(line) = 1      \* no text belongs to the value
  IN  IF kind = "fold" THEN "ObsoleteLineFolding"
      ELSE IF kind \notin FieldKinds THEN "InvalidHeaderName"
      ELSE IF ~OneKind(line) THEN "InvalidHeaderValue"
      ELSE IF current.headers >= MaxHeaders THEN "TooManyHeaders"
      ELSE IF kind = "content-length" THEN
        IF ~known THEN "InvalidContentLength"
        ELSE IF current.content_length \notin {NoLength, line[1].n}
          THEN "ConflictingContentLength"
        ELSE IF current.chunked THEN "ConflictingFraming" ELSE "none"
      ELSE IF kind \in {"chunked", "other-coding"} THEN
        IF current.chunked \/ kind = "other-coding" \/ ~known
          THEN "UnsupportedTransferEncoding"
        ELSE IF current.content_length # NoLength THEN "ConflictingFraming" ELSE "none"
      ELSE IF kind \in Tokens /\ ~known THEN "InvalidHeaderValue"
      ELSE "none"

\* What the fields of the head say, with the one in hand.
Applied ==
  LET kind == line[1].is IN
  [current EXCEPT
     !.headers = @ + 1,
     !.content_length = IF kind = "content-length" THEN line[1].n ELSE @,
     !.chunked = @ \/ kind = "chunked",
     !.close = @ \/ kind = "close",
     !.keep_alive = @ \/ kind = "keep-alive"]

ParseField ==
  /\ LineOf("Headers") /\ line # << >>
  /\ \/ /\ FieldError = "none"
        /\ LineRead /\ HeadRead
        /\ current' = Applied
        /\ UNCHANGED << state, remaining, informational, body, trailers,
                        final_connection_close, outcome >>
     \/ FieldError # "none" /\ Fails(FieldError)

IsInformational == current.status \in 100 .. 199
HasFraming == current.content_length # NoLength \/ current.chunked
EndsAtHead == current.status \in {204, 205, 304} \/ semantics = "HEAD"

\* finish_headers(): why the head in hand is refused, or "none".
HeadError ==
  IF current.version = "HTTP/1.0" /\ current.chunked THEN "UnsupportedTransferEncoding"
  ELSE IF current.status = 101 THEN "UnsupportedUpgrade"
  ELSE IF \/ (IsInformational \/ current.status = 204) /\ HasFraming
          \/ current.status = 205
             /\ (current.chunked \/ current.content_length \notin {NoLength, 0})
    THEN "InvalidNoBodyFraming"
  ELSE IF IsInformational /\ informational >= MaxInformational THEN "TooManyInformational"
  ELSE IF ~IsInformational /\ ~EndsAtHead /\ ~current.chunked
          /\ current.content_length > MaxBody THEN "BodyLimitExceeded"
  ELSE "none"

HeadLine ==
  /\ LineOf("Headers") /\ line = << >>
  /\ HeadError = "none"
  /\ LineRead

RefuseHead ==
  /\ LineOf("Headers") /\ line = << >>
  /\ HeadError # "none" /\ Fails(HeadError)

\* Mutant: what the fields of an informational head said is kept.
InformationalKeeping ==
  /\ HeadLine /\ IsInformational
  /\ informational' = informational + 1
  /\ head_bytes' = 0
  /\ state' = "StatusLine"
  /\ UNCHANGED << current, remaining, trailer_bytes, body, trailers,
                  final_connection_close, outcome >>

\* An informational head, after which another status line is due.
Informational ==
  /\ HeadLine /\ IsInformational
  /\ informational' = informational + 1
  /\ current' = DefaultHead
  /\ head_bytes' = 0
  /\ state' = "StatusLine"
  /\ UNCHANGED << remaining, trailer_bytes, body, trailers, final_connection_close,
                  outcome >>

Closes == current.close \/ (current.version = "HTTP/1.0" /\ ~current.keep_alive)

\* A response without a body.
HeadCompletes ==
  /\ HeadLine /\ ~IsInformational
  /\ EndsAtHead \/ (~current.chunked /\ current.content_length = 0)
  /\ HeadRead
  /\ final_connection_close' = Closes
  /\ Completes
  /\ UNCHANGED << remaining, current, informational, body, trailers >>

\* A body follows: in chunks, of a known length, or up to the end.
BodyFollows ==
  /\ HeadLine /\ ~IsInformational /\ ~EndsAtHead
  /\ HeadRead
  /\ \/ /\ current.chunked
        /\ state' = "ChunkSize"
        /\ final_connection_close' = Closes
        /\ UNCHANGED remaining
     \/ /\ ~current.chunked /\ current.content_length > 0
        /\ state' = "FixedBody" /\ remaining' = current.content_length
        /\ final_connection_close' = Closes
     \/ /\ ~HasFraming
        /\ state' = "CloseBody"
        /\ final_connection_close' = TRUE
        /\ UNCHANGED remaining
  /\ UNCHANGED << current, informational, body, trailers, outcome >>

-----------------------------------------------------------------------------
(* The body *)

\* What one turn takes of a body of which so much remains, all at once.
Taken == IF remaining < upto - offset THEN remaining ELSE upto - offset

TakeBody(amount) ==
  /\ body' = body \o SubSeq(wire, offset + 1, offset + amount)
  /\ offset' = offset + amount

FixedBody ==
  /\ Feeding /\ state = "FixedBody"
  /\ TakeBody(Taken)
  /\ remaining' = remaining - Taken
  /\ IF remaining' = 0 THEN Completes ELSE UNCHANGED << state, outcome >>
  /\ UNCHANGED << wire, semantics, upto, lineVars, countVars, current, informational,
                  trailers, final_connection_close >>

IsSize == line # << >> /\ line[1].is = "size" /\ OneKind(line)

\* Mutant: the chunk alone is held against the limit.
ChunkSizeAlone ==
  /\ LineOf("ChunkSize")
  /\ \/ /\ IsSize /\ line[1].n <= MaxBody
        /\ LineRead
        /\ state' = IF line[1].n = 0 THEN "Trailers" ELSE "ChunkData"
        /\ remaining' = line[1].n
        /\ UNCHANGED << countVars, responseVars, outcome >>
     \/ ~IsSize /\ Fails("InvalidChunkSize")
     \/ IsSize /\ line[1].n > MaxBody /\ Fails("BodyLimitExceeded")

ChunkSize ==
  /\ LineOf("ChunkSize")
  /\ \/ /\ IsSize /\ Len(body) + line[1].n <= MaxBody
        /\ LineRead
        /\ state' = IF line[1].n = 0 THEN "Trailers" ELSE "ChunkData"
        /\ remaining' = line[1].n
        /\ UNCHANGED << countVars, responseVars, outcome >>
     \/ ~IsSize /\ Fails("InvalidChunkSize")
     \/ IsSize /\ Len(body) + line[1].n > MaxBody /\ Fails("BodyLimitExceeded")

\* When a chunk is complete, its two-byte terminator remains.
ChunkData ==
  /\ Feeding /\ state = "ChunkData"
  /\ TakeBody(Taken)
  /\ IF Taken = remaining
       THEN state' = "ChunkTerminator" /\ remaining' = 2
       ELSE remaining' = remaining - Taken /\ UNCHANGED state
  /\ UNCHANGED << wire, semantics, upto, lineVars, countVars, current, informational,
                  trailers, final_connection_close, outcome >>

ChunkTerminator ==
  /\ Feeding /\ state = "ChunkTerminator"
  /\ LET expected == IF remaining = 2 THEN CR ELSE LF IN
       \/ /\ wire[offset + 1] = expected
          /\ offset' = offset + 1
          /\ remaining' = remaining - 1
          /\ state' = IF remaining = 2 THEN "ChunkTerminator" ELSE "ChunkSize"
          /\ UNCHANGED << lineVars, countVars, responseVars, outcome >>
       \/ wire[offset + 1] # expected /\ Fails("InvalidChunkTerminator")
  /\ UNCHANGED << wire, semantics, upto >>

\* Why the trailer in hand is refused, or "none".
TrailerError ==
  IF line[1].is = "fold" THEN "ObsoleteLineFolding"
  ELSE IF line[1].is \notin FieldKinds THEN "InvalidHeaderName"
  ELSE IF ~OneKind(line) THEN "InvalidHeaderValue"
  ELSE IF line[1].is # "field" THEN "ForbiddenTrailer"
  ELSE IF trailers >= MaxTrailers THEN "TooManyTrailers"
  ELSE "none"

ParseTrailer ==
  /\ LineOf("Trailers") /\ line # << >>
  /\ \/ /\ TrailerError = "none"
        /\ LineRead /\ TrailerRead
        /\ trailers' = trailers + 1
        /\ UNCHANGED << state, remaining, current, informational, body,
                        final_connection_close, outcome >>
     \/ TrailerError # "none" /\ Fails(TrailerError)

TrailersEnd ==
  /\ LineOf("Trailers") /\ line = << >>
  /\ LineRead /\ TrailerRead
  /\ Completes
  /\ UNCHANGED << remaining, responseVars >>

\* Everything belongs to the body, until there is too much of it.
CloseBody ==
  /\ Feeding /\ state = "CloseBody"
  /\ \/ /\ Len(body) + upto - offset <= MaxBody
        /\ TakeBody(upto - offset)
        /\ UNCHANGED << state, remaining, lineVars, countVars, current, informational,
                        trailers, final_connection_close, outcome >>
     \/ Len(body) + upto - offset > MaxBody /\ Fails("BodyLimitExceeded")
  /\ UNCHANGED << wire, semantics, upto >>

\* finish_eof(): the peer may close at any time.
FinishEof ==
  /\ Idle
  /\ \/ /\ state = "CloseBody" /\ ~pending_cr /\ Completes
        /\ UNCHANGED << remaining, offset, lineVars, countVars, responseVars >>
     \/ (state # "CloseBody" \/ pending_cr) /\ Fails("UnexpectedEof")
  /\ UNCHANGED << wire, semantics, upto >>

-----------------------------------------------------------------------------
Next ==
  \/ \E n \in 1 .. MaxSegment : Feed(n)
  \/ ReadByte \/ WrongEnding
  \/ ParseStatusLine \/ ParseField
  \/ RefuseHead \/ Informational \/ HeadCompletes \/ BodyFollows
  \/ FixedBody \/ CloseBody
  \/ ChunkSize \/ ChunkData \/ ChunkTerminator \/ ParseTrailer \/ TrailersEnd
  \/ FinishEof

Spec == Init /\ [][Next]_vars

-----------------------------------------------------------------------------
(* Properties *)

Errors ==
  {"BareLineFeed", "InvalidLineEnding", "HeaderLimitExceeded", "TrailerLimitExceeded",
   "InvalidStatusLine", "InvalidStatusCode",
   "ObsoleteLineFolding", "InvalidHeaderName", "InvalidHeaderValue", "TooManyHeaders",
   "InvalidContentLength", "ConflictingContentLength", "ConflictingFraming",
   "UnsupportedTransferEncoding", "UnsupportedUpgrade",
   "InvalidNoBodyFraming", "TooManyInformational", "BodyLimitExceeded",
   "InvalidChunkSize", "InvalidChunkTerminator", "ForbiddenTrailer",
   "TooManyTrailers", "UnexpectedEof"}

Heads == [version : Versions \cup {"none"}, status : Nat, headers : Nat,
          content_length : Nat \cup {NoLength},
          chunked : BOOLEAN, close : BOOLEAN, keep_alive : BOOLEAN]

\* The place in the wire: nothing is consumed that has not been fed, and a state
\* that counts bytes has some left.
PositionOK ==
  /\ wire \in Seq(Bytes) /\ semantics \in {"Normal", "HEAD"}
  /\ upto \in 0 .. Len(wire) /\ offset \in 0 .. upto
  /\ state \in States /\ remaining \in Nat
  /\ state \in {"FixedBody", "ChunkData", "ChunkTerminator"} => remaining > 0
  /\ state = "ChunkTerminator" => remaining <= 2
  /\ outcome \in Errors \cup {"none", "complete"}

\* What is kept of the bytes before it.
KeptOK ==
  /\ line \in Seq(Bytes) /\ pending_cr \in BOOLEAN
  /\ head_bytes \in Nat /\ trailer_bytes \in Nat
  /\ current \in Heads /\ informational \in Nat
  /\ body \in Seq(Bytes) /\ trailers \in Nat
  /\ final_connection_close \in BOOLEAN

\* The types of the parser's state.
TypeOK == PositionOK /\ KeptOK

\* Whatever the peer sends, what the parser keeps of it stays within the limits,
\* and so does what it has agreed to read of a body.
WithinLimits ==
  /\ Len(line) <= MaxLine
  /\ head_bytes <= MaxHead /\ trailer_bytes <= MaxTrailerBytes
  /\ current.headers <= MaxHeaders /\ trailers <= MaxTrailers
  /\ informational <= MaxInformational
  /\ Len(body) <= MaxBody
  /\ state \in {"FixedBody", "ChunkData"} => Len(body) + remaining <= MaxBody

\* However the bytes are cut into segments: a response is complete exactly at
\* the end of the message that they are, with its body and with its word on
\* the connection; nothing after it has been consumed.
CompletesAtItsEnd ==
  outcome = "complete" =>
    \E message \in MessageOf(SubSeq(wire, 1, offset), semantics) :
      /\ message.end = offset /\ message.body = body
      /\ message.close = final_connection_close
      /\ message.framed \/ offset = upto

\* No message is missed: bytes that have been taken without an end do not hold
\* a framed response, bytes that have been refused do not begin one, and neither
\* are they a response that the end of the stream completes.
MissesNoMessage ==
  /\ Idle => \A message \in MessageOf(SubSeq(wire, 1, upto), semantics) : ~message.framed
  /\ outcome \in Errors => MessageOf(SubSeq(wire, 1, upto), semantics) = {}
  /\ outcome \in Errors \ {"UnexpectedEof"}
       => \A message \in MessageOf(wire, semantics) : ~message.framed

=============================================================================
