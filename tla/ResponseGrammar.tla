--------------------------- MODULE ResponseGrammar ---------------------------
(***************************************************************************)
(* What a sequence of bytes means as the response to one request: the      *)
(* reference for ResponseParser, defined on the whole sequence at once.    *)
(*                                                                         *)
(* A byte is a line ending or a piece of a line.  The piece that a line    *)
(* begins with says what the line is: a status line, a field (one that     *)
(* frames the body, a token of Connection, or any other), a folded line, a *)
(* chunk size; "text" is more of it.  Text makes the value of a framing    *)
(* field or of Connection another one, which is not understood.  Within a  *)
(* body every byte is data.                                                *)
(***************************************************************************)
EXTENDS Integers, Sequences, FiniteSets

CONSTANTS MaxLine, MaxHead, MaxHeaders, MaxBody,        \* ResponseLimits
          MaxTrailerBytes, MaxTrailers, MaxInformational

ASSUME LimitsAssumption ==
  /\ MaxLine \in Nat /\ MaxHead \in Nat /\ MaxHeaders \in Nat
  /\ MaxBody \in Nat
  /\ MaxTrailerBytes \in Nat /\ MaxTrailers \in Nat /\ MaxInformational \in Nat

Versions == {"HTTP/1.0", "HTTP/1.1"}             \* of a status line, with its status
Framing == {"content-length", "chunked"}
Tokens == {"close", "keep-alive"}                \* of a Connection field
Bytes == [is : Versions \cup Framing \cup Tokens
                 \cup {"other-coding", "field", "fold", "size", "text", "cr", "lf"},
          n  : Nat]

Byte(is, n) == [is |-> is, n |-> n]
CR == Byte("cr", 0)
LF == Byte("lf", 0)
Text == Byte("text", 0)

\* Each of the following is a set of at most one element, empty where there is
\* no such thing.

\* The line that begins at i, and where the next one does.
IsLine(w, i, e) ==
  /\ w[e] = CR /\ w[e + 1] = LF /\ e - i <= MaxLine
  /\ \A k \in i .. e - 1 : w[k] \notin {CR, LF}

LineAt(w, i) ==
  {[text |-> SubSeq(w, i, e - 1), next |-> e + 2] :
     e \in {k \in i .. Len(w) - 1 : IsLine(w, i, k)}}

\* The lines from i up to an empty one, and where what follows them begins.
BlockAt(w, i) ==
  LET block[j \in 1 .. Len(w) + 1] ==
        UNION {IF line.text = << >> THEN {[lines |-> << >>, next |-> line.next]}
               ELSE {[lines |-> << line.text >> \o rest.lines, next |-> rest.next] :
                       rest \in block[line.next]} :
                 line \in LineAt(w, j)}
  IN  block[i]

\* Only text follows the piece that the line begins with.
OneKind(line) == \A k \in 2 .. Len(line) : line[k].is = "text"

IsField(line) ==
  \/ line[1].is = "field" /\ OneKind(line)
  \/ line[1].is \in Framing \cup Tokens /\ Len(line) = 1

IsStatus(line) ==
  line[1].is \in Versions /\ line[1].n \in 100 .. 599 /\ OneKind(line)

Fields(block) == Tail(block.lines)
Status(block) == block.lines[1][1].n
Version(block) == block.lines[1][1].is
Has(block, kind) == \E k \in DOMAIN Fields(block) : Fields(block)[k][1].is = kind
LengthsOf(block) ==
  {Fields(block)[k][1].n :
     k \in {m \in DOMAIN Fields(block) : Fields(block)[m][1].is = "content-length"}}
IsFramed(block) == Has(block, "chunked") \/ LengthsOf(block) # {}

\* A status line and fields that do not contradict each other.
IsHead(w, i, block) ==
  /\ block.next - i <= MaxHead
  /\ block.lines # << >> /\ IsStatus(block.lines[1])
  /\ Len(Fields(block)) <= MaxHeaders
  /\ \A k \in DOMAIN Fields(block) : IsField(Fields(block)[k])
  /\ Cardinality(LengthsOf(block)) <= 1
  /\ Cardinality({k \in DOMAIN Fields(block) : Fields(block)[k][1].is = "chunked"}) <= 1
  /\ ~(Has(block, "chunked") /\ LengthsOf(block) # {})
  /\ Has(block, "chunked") => Version(block) = "HTTP/1.1"

HeadAt(w, i) == {block \in BlockAt(w, i) : IsHead(w, i, block)}

TrailerAt(w, i) ==
  {block \in BlockAt(w, i) :
     /\ block.next - i <= MaxTrailerBytes /\ Len(block.lines) <= MaxTrailers
     /\ \A k \in DOMAIN block.lines :
          block.lines[k][1].is = "field" /\ OneKind(block.lines[k])}

\* A chunk of the size that its line says, with what ends it.
SizeAt(w, i) ==
  {line \in LineAt(w, i) :
     line.text # << >> /\ line.text[1].is = "size" /\ OneKind(line.text)}

IsChunk(w, i, size) ==
  size > 0 /\ i + size < Len(w) /\ w[i + size] = CR /\ w[i + size + 1] = LF

\* The chunks from i up to the last one with its trailer, and where what
\* follows them begins.
ChunksFrom(w, i) ==
  LET Joined(j, size, rest) ==
        {[body |-> SubSeq(w, j, j + size - 1) \o r.body, next |-> r.next] : r \in rest}
      chunks[j \in 1 .. Len(w) + 1] ==
        UNION {IF line.text[1].n = 0
                 THEN {[body |-> << >>, next |-> t.next] : t \in TrailerAt(w, line.next)}
               ELSE IF IsChunk(w, line.next, line.text[1].n)
                 THEN Joined(line.next, line.text[1].n,
                             chunks[line.next + line.text[1].n + 2])
               ELSE {} : line \in SizeAt(w, j)}
  IN  chunks[i]

\* The body that begins at i in chunks.
ChunksAt(w, i) == {c \in ChunksFrom(w, i) : Len(c.body) <= MaxBody}

\* The body that begins at i and is as long as its head says.
SizedAt(w, i, lengths) ==
  {[body |-> SubSeq(w, i, i + n - 1), next |-> i + n] :
     n \in {m \in lengths : m <= MaxBody /\ i + m - 1 <= Len(w)}}

ClosesAfter(head) ==
  Has(head, "close") \/ (Version(head) = "HTTP/1.0" /\ ~Has(head, "keep-alive"))

\* Whatever the head says, no body follows it, or none may.
IsBodiless(head, semantics) ==
  Status(head) \in {204, 205, 304} \/ semantics = "HEAD"
IsRefused(head) ==
  \/ Status(head) = 204 /\ IsFramed(head)
  \/ Status(head) = 205 /\ (Has(head, "chunked") \/ ~(LengthsOf(head) \subseteq {0}))

\* The body of a response, framed by itself.
FramedBodies(w, head, semantics) ==
  IF IsRefused(head) THEN {}
  ELSE IF IsBodiless(head, semantics) THEN {[body |-> << >>, next |-> head.next]}
  ELSE IF Has(head, "chunked") THEN ChunksAt(w, head.next)
  ELSE SizedAt(w, head.next, LengthsOf(head))

\* Or all that follows its head, if nothing frames it.
OpenBodies(w, head, semantics) ==
  IF \/ IsBodiless(head, semantics) \/ IsFramed(head)
     \/ Len(w) - head.next + 1 > MaxBody
    THEN {}
  ELSE {[body |-> SubSeq(w, head.next, Len(w)), next |-> Len(w) + 1]}

\* The final response of a head; "framed" if it ends without the end of w.
FinalOf(w, head, semantics) ==
  {[framed |-> TRUE, end |-> b.next - 1, body |-> b.body, close |-> ClosesAfter(head)] :
     b \in FramedBodies(w, head, semantics)}
  \cup {[framed |-> FALSE, end |-> b.next - 1, body |-> b.body, close |-> TRUE] :
           b \in OpenBodies(w, head, semantics)}

\* The response that begins at i, after k informational ones before it.
MessageFrom(w, semantics, first, before) ==
  LET from[i \in 1 .. Len(w) + 1] ==
        [k \in 0 .. MaxInformational |->
           UNION {IF Status(head) \notin 100 .. 199 THEN FinalOf(w, head, semantics)
                  ELSE IF Status(head) = 101 \/ IsFramed(head) \/ k = MaxInformational
                    THEN {} ELSE from[head.next][k + 1] : head \in HeadAt(w, i)}]
  IN  from[first][before]

\* The response that w begins with.
MessageOf(w, semantics) == MessageFrom(w, semantics, 1, 0)

=============================================================================
