----------------------------- MODULE MCRuntimeFiles -----------------------------
\* Instances of RuntimeFiles and RuntimeLocks for TLC.
EXTENDS RuntimeFiles

CONSTANTS p1, p2, k1, k2, a1, a2, an, b1

TwoProcesses == {p1, p2}
TwoKeys == {k1, k2}

\* Two canonical paths in one directory, one beside them that is not canonical,
\* and one in another directory.
SomePaths == {a1, a2, an, b1}
SomeCanonical == {a1, a2, b1}
SomeDirectory == [f \in SomePaths |-> IF f = b1 THEN "b" ELSE "a"]

Symmetry ==
  Permutations(TwoProcesses) \cup Permutations(TwoKeys) \cup Permutations({a1, a2})

\* Two names that differ in case only, another, and one that is not safe.
SomeNames == {"A", "a", "b", "../x"}
SomeSafeNames == {"A", "a", "b"}
SomeCasefold == [n \in SomeNames |-> IF n = "A" THEN "a" ELSE n]
SomeCodePoint == [n \in SomeNames |->
  CASE n = "../x" -> 1 [] n = "A" -> 2 [] n = "a" -> 3 [] n = "b" -> 4]

Entry(name, size, hashed) == [name |-> name, size |-> size, hashed |-> hashed]
Entries == {Entry(n, 1, TRUE) : n \in FileNames}
             \cup {Entry("b", 0, TRUE), Entry("b", 1, FALSE)}
FileLists == UNION {[1 .. k -> Entries] : k \in 0 .. 2}

Versions == {"152.0.6", "140.12.0", "other", "empty"}
Texts == {"numeric", "legacy", "text", "empty"}
ALock == [schema |-> 2, exact |-> TRUE, profile |-> "firefox_152",
          platform |-> "linux-x86_64", source |-> "valid",
          version |-> "152.0.6", build |-> "numeric", nss |-> "numeric",
          nspr |-> "numeric", files |-> << Entry("b", 1, TRUE) >>]

\* Every identity with one file, and the same identity with every list.
SomeDocuments ==
  { [ALock EXCEPT !.schema = i[1], !.profile = i[2], !.platform = i[3],
                  !.source = i[4], !.version = i[5], !.build = b] :
      i \in (1 .. 3) \X (Profiles \cup {"firefox"}) \X (Platforms \cup {"mac"})
              \X {"valid", "legacy", "invalid"} \X Versions,
      b \in {"numeric", "text"} }
    \cup { [ALock EXCEPT !.schema = 1, !.platform = "windows-x86_64",
                         !.source = "legacy", !.build = t[1], !.nss = t[2],
                         !.nspr = t[3]] : t \in Texts \X Texts \X Texts }
    \cup { [ALock EXCEPT !.exact = x, !.build = t[1], !.nss = t[2],
                         !.nspr = t[3]] :
             x \in BOOLEAN, t \in Texts \X Texts \X Texts }
    \cup { [ALock EXCEPT !.schema = s, !.platform = "windows-x86_64",
                         !.source = "legacy", !.build = "legacy",
                         !.nss = "legacy", !.nspr = "legacy", !.files = fs] :
             s \in 1 .. 2, fs \in FileLists }

Members == { [name |-> n, kind |-> k, size |-> s] :
               n \in FileNames, k \in {"file", "directory", "link"},
               s \in {0, 1, 2} } \cup
           { [name |-> "b", kind |-> "file", size |-> s] : s \in {-1, 3} }
SomeArchives == UNION {[1 .. k -> Members] : k \in 0 .. 2}
  \cup [1 .. 3 -> { [name |-> n, kind |-> "file", size |-> s] :
                      n \in {"A", "a", "b"}, s \in {0, 1} }]

SomeSourceLocks ==
  UNION {[1 .. k -> [id : {"s1", "s2"}, filename : {"f1", "f2"},
                     wellFormed : BOOLEAN]] : k \in 0 .. 2}

Refs == {"s1", "s2", "s3"}
AProfileLock ==
  [wellFormed |-> TRUE, deferred |-> << >>, source |-> "s1", nss |-> "s1",
   nspr |-> "s2", artifacts |-> << "s1", "s2" >>, evidence |-> Platforms,
   builds |-> Platforms, systems |-> Platforms]
SomeProfileLocks ==
  { [AProfileLock EXCEPT !.deferred = d, !.evidence = e, !.builds = b,
                         !.systems = s] :
      d \in UNION {[1 .. k -> Platforms \cup {"mac"}] : k \in 0 .. 2},
      e \in SUBSET Platforms, b \in SUBSET Platforms, s \in SUBSET Platforms }
    \cup { [AProfileLock EXCEPT !.wellFormed = w, !.source = r[1],
                                !.nss = r[2], !.nspr = r[3],
                                !.artifacts = << r[4], "s1" >>] :
             w \in BOOLEAN, r \in Refs \X Refs \X Refs \X Refs }

=============================================================================
