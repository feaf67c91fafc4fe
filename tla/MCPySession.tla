------------------------------ MODULE MCPySession ------------------------------
\* Instances of PySession for TLC.
EXTENDS PySession

CONSTANTS t1, t2, n1, n2, n3, n4

TwoThreads == {t1, t2}
FourNatives == {n1, n2, n3, n4}
NativeSymmetry == Permutations(FourNatives)

Plain == [otherProfile |-> FALSE, method |-> "TOKEN", url |-> "https",
          params |-> "none", headers |-> << >>, data |-> "none",
          json |-> "none", timeout |-> "positive", profile |-> "firefox_152",
          verify |-> "none"]

Few == {[Plain EXCEPT !.url = u] : u \in {"http", "https"}}
         \cup {[Plain EXCEPT !.verify = v] : v \in {"off", "bundle"}}

\* One argument at a time, a conflict of two, and the bodies with up to two
\* headers that the caller gives.
OneVaried ==
  {[Plain EXCEPT !.method = m] : m \in Methods}
    \cup {[Plain EXCEPT !.url = u] : u \in Urls}
    \cup {[Plain EXCEPT !.params = p] : p \in Params}
    \cup {[Plain EXCEPT !.timeout = x] : x \in Timeouts}
    \cup {[Plain EXCEPT !.profile = "firefox_1"],
          [Plain EXCEPT !.otherProfile = TRUE]}
    \cup {[Plain EXCEPT !.data = d, !.json = j] : d \in Datas, j \in Jsons}
GivenHeaders ==
  {Header(n, v) : n \in {"host"}, v \in {"plain", "slash"}}
    \cup {Header(n, v) : n \in {"content-length"}, v \in {"0", "2", "plain"}}
    \cup {Header(n, "plain") :
            n \in {"transfer-encoding", "content-type", "user-agent", "malformed"}}
    \cup {Header("other", v) : v \in {"control", "newline"}}
Framed ==
  {[Plain EXCEPT !.headers = h, !.data = b[1], !.json = b[2]] :
     h \in UNION {[1 .. k -> GivenHeaders] : k \in 1 .. 2},
     b \in {<< "none", "none" >>, << "bytes", "none" >>, << "none", "value" >>}}

\* The first request of one thread is any of these; the other uses HTTPS only.
AnyThenFew(t, n) ==
  CASE t = t1 /\ n = 1 -> Few \cup OneVaried \cup Framed
    [] t = t1 /\ n = 2 -> Few
    [] OTHER           -> {a \in Few : a.url = "https" /\ a.verify # "off"}

\* The bundle of the session at first: whole, and none.
SomeBundles ==
  { << "comment", "begin", "A", "end" >>, << "begin", "A" >>,
    << "begin", "A", "end", "blank", "begin", "B", "end" >> }

\* All files up to five lines, and those that begin with a certificate.
SomeFiles ==
  UNION {[1 .. k -> Markers \cup {"A", "B"}] : k \in 0 .. 5}
    \cup {<< "begin", "A", "end" >> \o l :
            l \in UNION {[1 .. k -> Markers \cup {"A", "B"}] : k \in 0 .. 4}}
OtherBundle == { << "begin", "B", "end" >> }
=============================================================================
