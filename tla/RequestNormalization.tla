------------------------- MODULE RequestNormalization -------------------------
(***************************************************************************)
(* What Session.request() makes of its arguments: _normalize.py and        *)
(* _profiles.py of python/foxreq, and what serialize_request() of          *)
(* crates/foxreq-core/src/http1/request.rs then puts on the wire.          *)
(*                                                                         *)
(* An argument is reduced to what the code tells apart: a URL to the first *)
(* check it fails, a header to its folded name and the kind of its value,  *)
(* a body to its length, a PEM bundle to its lines.                        *)
(***************************************************************************)
EXTENDS Naturals, Sequences, FiniteSets, SequencesExt

CONSTANTS Platform,    \* sys.platform: "win32", "linux" or another
          MaxHeaders,  \* RequestLimits.max_headers
          PemFiles     \* the texts, as sequences of lines, to read as bundles

ASSUME NormalizationAssumption == MaxHeaders \in Nat /\ Platform \in STRING

IsText(lines) == lines \in Seq(ToSet(lines))
ASSUME PemAssumption == \A lines \in PemFiles : IsText(lines)

Profiles == {"firefox_140_esr", "firefox_152"}

Methods == {"TOKEN", "CONNECT", "malformed"}
Urls == {"http", "https", "notText", "control", "badAuthority", "otherScheme",
         "userinfo", "badHost", "badText"}
Params == {"none", "pairs", "malformed"}
Timeouts == {"positive", "zero", "infinite", "bool", "notNumber"}
Names == {"host", "content-length", "transfer-encoding", "content-type",
          "user-agent", "other", "malformed"}
Values == {"plain", "slash", "0", "2", "control", "newline"}
\* The text of a body as far as its encoding is concerned: a lone surrogate
\* has none.
Datas == {"none", "empty", "bytes", "surrogate", "notBytes"}
Jsons == {"none", "value", "unserializable"}

Header(name, value) == [name |-> name, value |-> value]
Carries(headers, name) == \E i \in DOMAIN headers : headers[i].name = name

-----------------------------------------------------------------------------
(* _normalize.py *)

MethodAccepted(method) == method # "malformed"

\* Both schemes are accepted, with a host that has an ASCII form and without
\* userinfo, fragment and control characters.
UrlAccepted(url) == url \in {"http", "https"}

\* quote() of a path with a lone surrogate, outside of every try.
UrlEscapes(url) == url = "badText"

ParamsAccepted(params) == params # "malformed"

\* Header items are pairs of a token and a value without NUL, CR and LF.
HeadersAccepted(headers) ==
  \A i \in DOMAIN headers :
    headers[i].name # "malformed" /\ headers[i].value # "newline"

TimeoutAccepted(timeout) == timeout = "positive"

ProfileAccepted(profile) ==
  profile \in Profiles /\ Platform \in {"win32", "linux"}

\* Lengths of the two kinds of body that have bytes.
BodyLength(data, json) == IF json = "value" \/ data = "bytes" THEN 2 ELSE 0

\* A JSON body brings its content type, every request a user agent, unless
\* the caller has given one; the caller's headers keep their order.
DefaultHeaders(headers, json) ==
  LET typed == IF json = "none" \/ Carries(headers, "content-type")
                 THEN headers
                 ELSE Append(headers, Header("content-type", "plain"))
  IN  IF Carries(typed, "user-agent") THEN typed
      ELSE << Header("user-agent", "plain") >> \o typed

Rejected(kind) == [error |-> kind, method |-> "TOKEN", scheme |-> "none",
                   headers |-> << >>, length |-> 0]

\* normalize_request(): everything that is refused is an InvalidRequestError,
\* but text without an encoding escapes as a UnicodeEncodeError.
NormalizeRequest(a) ==
  LET escapes == \/ UrlEscapes(a.url)
                 \/ a.data = "surrogate" /\ a.json = "none"
      refused == \/ ~MethodAccepted(a.method)
                 \/ ~UrlAccepted(a.url) /\ ~UrlEscapes(a.url)
                 \/ ~ParamsAccepted(a.params)
                 \/ ~HeadersAccepted(a.headers)
                 \/ a.data # "none" /\ a.json # "none"
                 \/ a.json = "unserializable"
                 \/ a.data = "notBytes"
                 \/ ~ProfileAccepted(a.profile)
                 \/ ~TimeoutAccepted(a.timeout)
      first == \* what precedes the text that escapes
               \/ ~MethodAccepted(a.method)
               \/ ~UrlEscapes(a.url) /\
                    (\/ ~UrlAccepted(a.url) \/ ~ParamsAccepted(a.params)
                     \/ ~HeadersAccepted(a.headers))
  IN  IF escapes /\ ~first THEN Rejected("unicode")
      ELSE IF refused THEN Rejected("invalid")
      ELSE [error |-> "none", method |-> a.method, scheme |-> a.url,
            headers |-> DefaultHeaders(a.headers, a.json),
            length |-> BodyLength(a.data, a.json)]

-----------------------------------------------------------------------------
(* _read_pem_bundle() *)

\* A line is a marker, blank, a comment, other text, or the base64 text of a
\* certificate (one line here), which stands for its DER form.
Markers == {"begin", "end", "blank", "comment", "text"}

\* The scan of the lines: the anchors so far, the block in hand (<< >> when
\* there is none) without its blank lines, which PEM_cert_to_DER_cert() skips,
\* and whether a line was refused.
PemStart == [anchors |-> << >>, block |-> << >>, refused |-> FALSE]

PemLine(scan, line) ==
  IF scan.refused THEN scan
  ELSE IF scan.block = << >>
    THEN IF line \in {"blank", "comment"} THEN scan
         ELSE IF line = "begin" THEN [scan EXCEPT !.block = << line >>]
         ELSE [scan EXCEPT !.refused = TRUE]
  ELSE IF line = "begin" THEN [scan EXCEPT !.refused = TRUE]
  ELSE IF line = "blank" THEN scan
  ELSE IF line # "end" THEN [scan EXCEPT !.block = Append(@, line)]
  ELSE IF Len(scan.block) # 2 \/ scan.block[2] \in Markers
    THEN [scan EXCEPT !.refused = TRUE]
    ELSE [anchors |-> Append(scan.anchors, scan.block[2]), block |-> << >>,
          refused |-> FALSE]

\* Mutant: a block that the file cuts short is dropped.
ReadPemBundleCut(lines) ==
  LET scan == FoldLeft(PemLine, PemStart, lines)
  IN  IF scan.refused THEN << >> ELSE scan.anchors

\* The anchors of a bundle, << >> when it is refused: refused text, a block
\* that is not finished, or no certificate at all.
ReadPemBundle(lines) ==
  LET scan == FoldLeft(PemLine, PemStart, lines)
  IN  IF scan.refused \/ scan.block # << >> THEN << >> ELSE scan.anchors

\* Reference: but for blank lines, and comments between blocks, the file is a
\* sequence of blocks with one certificate each, which are the anchors.
Certificate(found, line) == IF line \in Markers THEN found ELSE Append(found, line)
Certificates(lines) == FoldLeft(Certificate, << >>, lines)
InBlock(lines, i) ==
  Cardinality({j \in 1 .. i - 1 : lines[j] = "begin"})
    > Cardinality({j \in 1 .. i - 1 : lines[j] = "end"})
IsBundle(lines) ==
  LET kept == {i \in DOMAIN lines :
                 /\ lines[i] # "blank"
                 /\ lines[i] = "comment" => InBlock(lines, i)}
      Nth(i) == Cardinality({j \in kept : j <= i}) % 3
  IN  /\ kept # {} /\ Cardinality(kept) % 3 = 0
      /\ \A i \in kept : CASE Nth(i) = 1 -> lines[i] = "begin"
                           [] Nth(i) = 2 -> lines[i] \notin Markers
                           [] OTHER      -> lines[i] = "end"
Anchors(lines) == IF IsBundle(lines) THEN Certificates(lines) ELSE << >>
Misread == {lines \in PemFiles : ReadPemBundle(lines) # Anchors(lines)}

-----------------------------------------------------------------------------
(* serialize_request(), as exchange() of client.rs calls it *)

Digits == [v \in {"0", "2"} |-> IF v = "0" THEN 0 ELSE 2]

Occurrences(headers, name) ==
  Cardinality({i \in DOMAIN headers : headers[i].name = name})
ValueOf(headers, name) ==
  headers[CHOOSE i \in DOMAIN headers : headers[i].name = name].value

\* Mutant: a length given by the caller is believed.
FramingAcceptedAsGiven(headers, length) ==
  ~Carries(headers, "transfer-encoding")

\* validate_framing(): a body of known length, whose Content-Length may be
\* given by the caller and must then be the right one.
FramingAccepted(headers, length) ==
  /\ ~Carries(headers, "transfer-encoding")
  /\ Carries(headers, "content-length") =>
       Digits[ValueOf(headers, "content-length")] = length

\* The headers that the serializer adds: Host in front, the length at the end.
Completed(headers, length) ==
  (IF Carries(headers, "host") THEN << >> ELSE << Header("host", "plain") >>)
    \o headers
    \o (IF length = 0 \/ Carries(headers, "content-length") THEN << >>
        ELSE << Header("content-length", "2") >>)

\* The request is refused, after a stream was taken for it, or sent.
Serializes(q) ==
  /\ q.method # "CONNECT"
  /\ \A i \in DOMAIN q.headers : q.headers[i].value # "control"
  /\ Occurrences(q.headers, "host") <= 1
  /\ Carries(q.headers, "host") => ValueOf(q.headers, "host") # "slash"
  /\ Occurrences(q.headers, "content-length") <= 1
  /\ Carries(q.headers, "content-length") =>
       ValueOf(q.headers, "content-length") \in DOMAIN Digits
  /\ FramingAccepted(q.headers, q.length)
  /\ Len(Completed(q.headers, q.length)) <= MaxHeaders

=============================================================================
