--------------------------- MODULE MCResponseParser ---------------------------
(***************************************************************************)
(* Wires for ResponseParser: responses of every framing, well formed or    *)
(* not, at and beyond each limit, with bytes after their end, and some of  *)
(* them with one byte lost or replaced.                                    *)
(***************************************************************************)
EXTENDS ResponseParser, SequencesExt

E == << CR, LF >>                              \* the end of a line
L(is, n) == << Byte(is, n) >> \o E             \* a line of one piece
Long(is, n) == << Byte(is, n), Text >> \o E    \* one with text behind it

Pairs(S, R) == {s \o r : s \in S, r \in R}

OK == L("HTTP/1.1", 200)
Heads_1_1 == {OK, Long("HTTP/1.1", 304)} \cup {L("HTTP/1.1", n) : n \in {101, 204, 205}}
StatusLines == Heads_1_1 \cup {L("HTTP/1.0", 200), L("HTTP/1.1", 99)}

Lengths == {L("content-length", n) : n \in 0 .. 2}
Codings == {L("chunked", 0), L("other-coding", 0)}
Others == {L("close", 0), L("keep-alive", 0), L("field", 0)}
BadFields == {L("content-length", 3), L("size", 1), L("text", 0), L("fold", 0),
              << Byte("field", 0), Text, Text >> \o E}
             \cup {Long(kind, 1) : kind \in {"content-length", "chunked", "close"}}
FieldLines ==
  {<< >>} \cup Lengths \cup Codings \cup Others \cup BadFields
  \cup Pairs(Lengths \cup Codings, Lengths \cup Codings \cup Others)
  \cup {Long("field", 0) \o Long("field", 0), L("field", 0) \o L("field", 0) \o L("field", 0)}

\* What follows a head: up to one byte more than a body may have, or another
\* response.
Datas == {<< >>, << Text >>, << Text, Text >>, << Text, Text, Text >>, OK}
Plain == {s \o f \o E \o d : s \in StatusLines, f \in FieldLines, d \in Datas}

Zero == L("size", 0)
One == L("size", 1) \o << Text >> \o E
Trailers ==
  {<< >>, L("field", 0), L("field", 0) \o L("field", 0), Long("field", 0) \o L("field", 0),
   L("close", 0), L("fold", 0), L("text", 0)}
ChunkedBodies ==
  {Zero \o t \o E : t \in Trailers}
  \cup {One \o Zero \o E \o << Text >>,
        One \o Long("size", 1) \o << CR >> \o E \o Zero \o E,
        One \o L("size", 2) \o << Text, Text >> \o E,
        L("size", 3),
        L("size", 2) \o << Text >> \o E,
        L("size", 2) \o << Text, Text, Text >>}
Codeds == {L("chunked", 0), L("chunked", 0) \o L("close", 0), L("field", 0) \o L("chunked", 0)}
Chunked == {OK \o f \o E \o b : f \in Codeds, b \in ChunkedBodies}

Samples ==
  {OK \o L("content-length", 2) \o E \o << Text, Text >>,
   L("HTTP/1.0", 200) \o E \o << Text >>,
   OK \o L("chunked", 0) \o E \o One \o Zero \o L("field", 0) \o E}

Interims == {L("HTTP/1.1", 100) \o E,
             L("HTTP/1.1", 103) \o L("content-length", 0) \o E,
             L("HTTP/1.1", 103) \o L("close", 0) \o E}
Preceded == Pairs(Interims \cup Pairs(Interims, Interims), Samples)

\* A sample with one byte replaced or lost.
Damaged ==
  UNION {{ReplaceAt(s, k, b) : k \in 1 .. Len(s), b \in {CR, LF, Text, Byte("size", 1)}}
         \cup {RemoveAt(s, k) : k \in 1 .. Len(s)} : s \in Samples}

AllWires == Plain \cup Chunked \cup Preceded \cup Damaged
=============================================================================
