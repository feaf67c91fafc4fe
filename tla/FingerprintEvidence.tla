-------------------------- MODULE FingerprintEvidence --------------------------
(***************************************************************************)
(* From captured ClientHellos to a verdict: scripts/capture/               *)
(* summarize_capture.py and compare_profile.py, with the permutation       *)
(* policy of tools/fingerprint/compare.py.                                 *)
(*                                                                         *)
(* A sample is the order of its extensions, its cipher suites (a list) and *)
(* the content of each extension: a list whose entries are compared one by *)
(* one, or a single value.  Records of another label have been left out by *)
(* select_records(), and GREASE values, which the fingerprints skip, do    *)
(* not occur.                                                              *)
(***************************************************************************)
EXTENDS Naturals, Sequences, FiniteSets, SequencesExt

CONSTANTS Baselines, \* sets of samples that a baseline may be made from
          Candidates \* and a candidate

Samples == UNION (Baselines \cup Candidates)

\* The evidence of a sample by key, after _canonicalize_extensions(): the order
\* of the extensions has no part in it.
Evidence(s) == [key \in {"ciphers"} \cup ToSet(s.order) |->
                  IF key = "ciphers" THEN s.ciphers ELSE s.content[key]]

\* Captures are not empty.  Every extension has its content, no type occurs
\* twice (parse_client_hello() of tools/fingerprint/tls.py refuses it), and a
\* field is a list in all samples or in none.
ASSUME SamplesAssumption ==
  /\ \A b \in Baselines \cup Candidates : IsFiniteSet(b) /\ b # {}
  /\ \A s \in Samples :
       /\ s.order \in Seq(DOMAIN s.content \ {"ciphers"})
       /\ \A i, j \in DOMAIN s.order : s.order[i] = s.order[j] => i = j
       /\ \A key \in DOMAIN Evidence(s) :
            LET value == Evidence(s)[key]
            IN  value.kind \in {"list", "scalar"} /\ value.items \in Seq(ToSet(value.items))
  /\ \A s, t \in Samples : \A key \in DOMAIN Evidence(s) \cap DOMAIN Evidence(t) :
       Evidence(s)[key].kind = Evidence(t)[key].kind

-----------------------------------------------------------------------------
(* summarize_capture.py *)

\* PermutationPolicy.from_samples(): no type twice, the same types in all, and
\* the positions at which all agree; a single sample is taken as fixed.
SamplesAgree(samples) ==
  \/ Cardinality(samples) = 1
  \/ \A s, t \in samples : /\ Len(s.order) = Cardinality(ToSet(s.order))
                           /\ ToSet(s.order) = ToSet(t.order)
FixedPositions(samples) ==
  LET first == CHOOSE s \in samples : TRUE
      fixed == {i \in DOMAIN first.order :
                  \A s \in samples : s.order[i] = first.order[i]}
  IN  [i \in fixed |-> first.order[i]]
MovableTypes(samples) ==
  (UNION {ToSet(s.order) : s \in samples})
    \ {FixedPositions(samples)[i] : i \in DOMAIN FixedPositions(samples)}

Missing == [kind |-> "missing"]

\* Mutant: a list is kept when all samples share the whole of it only.
ProjectWhole(values) ==
  IF Cardinality(values) > 1 THEN Missing
  ELSE LET first == CHOOSE v \in values : TRUE
       IN  [kind |-> first.kind, length |-> Len(first.items), items |-> first.items]

\* _stable_projection() of the values of a key: what all samples share.  A list
\* of which only some entries are shared becomes a mapping, "partial" here.
Project(values) ==
  LET first == CHOOSE v \in values : TRUE
      items == {i \in DOMAIN first.items :
                  \A v \in values : v.items[i] = first.items[i]}
  IN  IF \E v \in values : v.kind # first.kind \/ Len(v.items) # Len(first.items)
        THEN Missing
        ELSE IF first.items # << >> /\ items = {} THEN Missing
        ELSE [kind   |-> IF items = DOMAIN first.items THEN first.kind ELSE "partial",
              length |-> Len(first.items),
              items  |-> [i \in items |-> first.items[i]]]

Shared(samples) ==
  {key \in UNION {DOMAIN Evidence(s) : s \in samples} :
     /\ \A s \in samples : key \in DOMAIN Evidence(s)
     /\ Project({Evidence(s)[key] : s \in samples}) # Missing}
StableEvidence(samples) ==
  [key \in Shared(samples) |-> Project({Evidence(s)[key] : s \in samples})]

\* ja3(): the ciphers, the extensions and the groups, all in order; ja4() sorts
\* the ciphers and the extensions (and "alpn" and "versions" are one value here).
Spelled(s, types) == {<< type, s.content[type] >> : type \in types \cap ToSet(s.order)}
JA3(s) == << s.ciphers, s.order, Spelled(s, {"groups"}) >>
JA4(s) == << ToSet(s.ciphers.items), ToSet(s.order), Spelled(s, {"signatures"}) >>
Lengths(samples) ==
  UNION {{<< key, Len(Evidence(s)[key].items) >> : key \in DOMAIN Evidence(s)} :
           s \in samples}

\* summarize_records() of decoded records; the counts are not compared.
Summary(samples, label) ==
  [labels  |-> {label},
   types   |-> ToSet((CHOOSE s \in samples : TRUE).order),
   count   |-> Len((CHOOSE s \in samples : TRUE).order),
   fixed   |-> FixedPositions(samples),
   movable |-> MovableTypes(samples),
   orders  |-> {s.order : s \in samples},
   stable  |-> StableEvidence(samples),
   lengths |-> Lengths(samples),
   ja3     |-> {JA3(s) : s \in samples},
   ja4     |-> {JA4(s) : s \in samples}]

-----------------------------------------------------------------------------
(* compare_profile.py *)

\* _validate_extension_policy() of the baseline.
PolicyValid(b, permutation) ==
  /\ LET fixed == {b.fixed[i] : i \in DOMAIN b.fixed}
     IN  /\ Cardinality(b.types) = b.count
         /\ Cardinality(fixed) = Cardinality(DOMAIN b.fixed)
         /\ fixed \cap b.movable = {} /\ fixed \cup b.movable = b.types
         /\ Cardinality(fixed) + Cardinality(b.movable) = b.count
  /\ permutation = "stable" => b.movable = {}

\* An order of the candidate keeps the fixed positions and moves the others.
OrderFits(b, order) ==
  /\ Len(order) = b.count /\ ToSet(order) = b.types
  /\ {order[i] : i \in DOMAIN order \ DOMAIN b.fixed} = b.movable
  /\ \A i \in DOMAIN b.fixed : order[i] = b.fixed[i]

\* _compare_projection() of one key: a list and a mapping differ in type.
ProjectionFits(expected, actual) ==
  /\ expected.kind = actual.kind /\ expected.length = actual.length
  /\ \A i \in DOMAIN expected.items :
       i \in DOMAIN actual.items /\ actual.items[i] = expected.items[i]

\* _compare_distribution(), _compare_fingerprints(): values of the candidate that
\* the baseline does not have.
Unexpected(expected, actual) == ~(actual \subseteq expected)

\* The parts of compare_summaries() that report a difference.
Differences(b, c) ==
  {part \in {"labels", "extensions", "orders", "stable", "lengths", "ja3", "ja4"} :
     CASE part = "labels" -> b.labels # c.labels
       [] part = "extensions" -> b.count # c.count \/ b.types # c.types
       [] part = "orders" -> \E order \in c.orders : ~OrderFits(b, order)
       [] part = "stable" ->
            \E key \in DOMAIN b.stable :
              \/ key \notin DOMAIN c.stable
              \/ ~ProjectionFits(b.stable[key], c.stable[key])
       [] part = "lengths" -> Unexpected(b.lengths, c.lengths)
                                \/ b.types # c.types
       [] part = "ja3" -> Unexpected(b.ja3, c.ja3)
       [] part = "ja4" -> Unexpected(b.ja4, c.ja4)}

-----------------------------------------------------------------------------
(* Pairs of captures that ought not to exist: see VerdictIsSound. *)

Compare(b, c) == Differences(Summary(b, "cold"), Summary(c, "cold"))

\* Handshakes of the baseline itself, compared with the baseline.
FalseAlarms ==
  {b \in Baselines : SamplesAgree(b) /\
     \E c \in (SUBSET b) \ {{}} :
       LET partial == {key \in Shared(b) : StableEvidence(b)[key].kind = "partial"}
       IN  ~(/\ PolicyValid(Summary(b, "cold"), "nss")
             /\ Compare(b, c) \subseteq {"stable"}
             /\ Compare(b, c) = {} <=>
                  \A key \in partial : StableEvidence(c)[key].kind = "partial")}

\* What can be said of a sample: of each key its length, of each entry its value.
Facts(s) ==
  UNION {{<< key, Len(Evidence(s)[key].items) >>}
           \cup {<< key, Len(Evidence(s)[key].items), i, Evidence(s)[key].items[i] >> :
                   i \in DOMAIN Evidence(s)[key].items} : key \in DOMAIN Evidence(s)}
Common(samples) ==
  {f \in Facts(CHOOSE s \in samples : TRUE) : \A s \in samples : f \in Facts(s)}
Overlooked ==
  {b \in Baselines : SamplesAgree(b) /\
     \E c \in Candidates :
       /\ SamplesAgree(c) /\ Compare(b, c) = {}
       /\ ~(\A s \in c :
              /\ Common(b) \subseteq Facts(s)
              /\ \A i \in DOMAIN s.order :
                   (\A t \in b : t.order[i] = (CHOOSE u \in b : TRUE).order[i])
                     => s.order[i] = (CHOOSE u \in b : TRUE).order[i])}

=============================================================================
