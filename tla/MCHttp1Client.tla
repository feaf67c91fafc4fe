---------------------------- MODULE MCHttp1Client ----------------------------
\* Instances of Http1Client for TLC.
EXTENDS Http1Client, TLC

CONSTANTS o1, o2, s1, s2, s3

OneOrigin == {o1}
TwoOrigins == {o1, o2}
ThreeStreams == {s1, s2, s3}
TwoStreams == {s1, s2}

\* Streams and origins are interchangeable: sound, as only invariants are checked.
Symmetry == Permutations(Streams) \cup Permutations(Origins)
=============================================================================
