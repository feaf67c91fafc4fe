----------------------------- MODULE RuntimeLocks -----------------------------
(***************************************************************************)
(* The rules of the lock files that pin Firefox: runtime locks as they are *)
(* written (scripts/runtime/lock_firefox_release.py), read while building  *)
(* (prepare_firefox_runtime.py) and checked when a worker starts           *)
(* (python/foxreq/_runtime_manifest.py); the members of a Firefox archive; *)
(* and the locks of sources and profiles (scripts/provenance/              *)
(* verify_sources.py).                                                     *)
(*                                                                         *)
(* A text field is reduced to the classes that the patterns of the code    *)
(* tell apart, and a file name to whether it is safe, how it folds and how *)
(* it sorts.  The four sets of inputs are bounded by the instance.         *)
(***************************************************************************)
EXTENDS Integers, Sequences, FiniteSets, SequencesExt

CONSTANTS FileNames,    \* the names that occur
          SafeNames,    \* those that stay where they are extracted
          Casefold,     \* what str.casefold() makes of a name
          CodePoint,    \* the rank of a name among them
          Documents,    \* runtime locks
          Archives,     \* sequences of archive members
          SourceLocks,  \* lists of sources
          ProfileLocks, \* profile locks
          MaxArchiveMembers, MaxArchiveBytes

Profiles == {"firefox_140_esr", "firefox_152"}
Platforms == {"windows-x86_64", "linux-x86_64"}

FirefoxVersion == [p \in Profiles |->
  IF p = "firefox_152" THEN "152.0.6" ELSE "140.12.0"]

SafeRelativeName(n) == n \in SafeNames

NamesOf(files) == [i \in DOMAIN files |-> files[i].name]
Sorted(names) == \A i, j \in DOMAIN names :
                   i < j => CodePoint[names[i]] <= CodePoint[names[j]]
Distinct(names) == \A i, j \in DOMAIN names : names[i] = names[j] => i = j
Folded(names) == [i \in DOMAIN names |-> Casefold[names[i]]]

\* A file entry with the right keys and types.
EntryValid(entry) ==
  SafeRelativeName(entry.name) /\ entry.size > 0 /\ entry.hashed

ASSUME NamesAssumption ==
  /\ Casefold \in [FileNames -> FileNames]
  /\ CodePoint \in [FileNames -> Nat]
  /\ \A m, n \in FileNames : CodePoint[m] = CodePoint[n] => m = n

\* Values of the types that the readers of the files insist on, before any of
\* the rules below.
ASSUME InputsAssumption ==
  /\ MaxArchiveMembers \in Nat /\ MaxArchiveBytes \in Nat
  /\ \A d \in Documents :
       /\ d.schema \in Nat
       /\ d.files \in Seq([name : FileNames, size : Int, hashed : BOOLEAN])
  /\ \A archive \in Archives :
       archive \in Seq([name : FileNames, kind : {"file", "directory", "link"},
                        size : Int])
  /\ \A sources \in SourceLocks :
       sources \in Seq([id : STRING, filename : STRING, wellFormed : BOOLEAN])

-----------------------------------------------------------------------------
(* Runtime locks *)

LockProfile(d) == IF d.schema = 1 THEN "firefox_152" ELSE d.profile
LockPlatform(d) == IF d.schema = 1 THEN "windows-x86_64" ELSE d.platform

\* prepare_firefox_runtime._load_lock(), with files required: the identity by
\* schema, names of versions, and a list of distinct, sorted entries.
LoadLock(d) ==
  /\ \/ /\ d.schema = 1
        /\ d.platform = "windows-x86_64" /\ d.source = "legacy"
     \/ /\ d.schema = 2 /\ d.exact
        /\ d.profile \in Profiles /\ d.platform \in Platforms
        /\ d.source # "invalid"
        /\ "empty" \notin {d.version, d.build, d.nss, d.nspr}
  /\ d.files # << >>
  /\ \A i \in DOMAIN d.files : EntryValid(d.files[i])
  /\ Distinct(NamesOf(d.files))
  /\ d.schema = 2 => Sorted(NamesOf(d.files))

Numeric == {"numeric", "legacy"}

\* Mutant: the start of a worker trusts the versions of the lock.
ValidateManifestTrusting(d, profile, platform) ==
  /\ \/ /\ d.schema = 1
        /\ profile = "firefox_152" /\ platform = "windows-x86_64"
        /\ d.source = "legacy" /\ d.version = "152.0.6"
        /\ {d.build, d.nss, d.nspr} = {"legacy"}
     \/ /\ d.schema = 2 /\ d.exact
        /\ d.profile = profile /\ d.platform = platform
        /\ d.source # "invalid"
  /\ d.files # << >>
  /\ \A i \in DOMAIN d.files : EntryValid(d.files[i])
  /\ Distinct(Folded(NamesOf(d.files)))
  /\ d.schema = 2 => Sorted(NamesOf(d.files))

\* _runtime_manifest._validate_manifest(): the one exact identity of schema 1,
\* the version that the profile stands for, numeric versions, and names that
\* also differ without regard to case.
ValidateManifest(d, profile, platform) ==
  /\ \/ /\ d.schema = 1
        /\ profile = "firefox_152" /\ platform = "windows-x86_64"
        /\ d.source = "legacy" /\ d.version = "152.0.6"
        /\ {d.build, d.nss, d.nspr} = {"legacy"}
     \/ /\ d.schema = 2 /\ d.exact
        /\ d.profile = profile /\ d.platform = platform
        /\ d.source # "invalid"
  /\ d.version = FirefoxVersion[profile]
  /\ {d.build, d.nss, d.nspr} \subseteq Numeric
  /\ d.files # << >>
  /\ \A i \in DOMAIN d.files : EntryValid(d.files[i])
  /\ Distinct(Folded(NamesOf(d.files)))
  /\ d.schema = 2 => Sorted(NamesOf(d.files))

\* When lock_release() accepts an artifact and a selection of its files, and the
\* lock that it writes then, in the order of the names.
CanRelease(profile, version, build, nss, nspr, files) ==
  /\ version = FirefoxVersion[profile]
  /\ build \in Numeric
  /\ "empty" \notin {nss, nspr}
  /\ files # << >> /\ Distinct(NamesOf(files))
  /\ \A i \in DOMAIN files : SafeRelativeName(files[i].name)
SortedByName(files) ==
  CHOOSE sorted \in [DOMAIN files -> ToSet(files)] :
    /\ ToSet(sorted) = ToSet(files)
    /\ \A i, j \in DOMAIN sorted :
         i < j => CodePoint[sorted[i].name] < CodePoint[sorted[j].name]
Release(profile, platform, version, build, nss, nspr, files) ==
  [schema |-> 2, exact |-> TRUE, profile |-> profile, platform |-> platform,
   source |-> "valid", version |-> version, build |-> build, nss |-> nss,
   nspr |-> nspr,
   files |-> SortedByName(files)]

-----------------------------------------------------------------------------
(* Members of an archive *)

ArchiveStart == [names |-> {}, members |-> 0, size |-> 0, safe |-> TRUE]

\* Mutant: the limit is compared with the member alone.
ArchiveMemberAlone(scan, m) ==
  IF /\ SafeRelativeName(m.name) /\ Casefold[m.name] \notin scan.names
     /\ m.kind \in {"file", "directory"}
     /\ scan.members < MaxArchiveMembers
     /\ m.size >= 0 /\ m.size <= MaxArchiveBytes
    THEN [names |-> scan.names \cup {Casefold[m.name]},
          members |-> scan.members + 1,
          size |-> scan.size + m.size, safe |-> scan.safe]
    ELSE [scan EXCEPT !.safe = FALSE]

\* One turn of _validate_archive_members().
ArchiveMember(scan, m) ==
  IF /\ SafeRelativeName(m.name) /\ Casefold[m.name] \notin scan.names
     /\ m.kind \in {"file", "directory"}
     /\ scan.members < MaxArchiveMembers
     /\ m.size >= 0 /\ m.size <= MaxArchiveBytes - scan.size
    THEN [names |-> scan.names \cup {Casefold[m.name]},
          members |-> scan.members + 1,
          size |-> scan.size + m.size, safe |-> scan.safe]
    ELSE [scan EXCEPT !.safe = FALSE]

ArchiveAccepted(archive) == FoldLeft(ArchiveMember, ArchiveStart, archive).safe

-----------------------------------------------------------------------------
(* verify_sources.py *)

SourceStart == [ids |-> {}, filenames |-> {}, valid |-> TRUE]

\* One turn of load_source_lock(): an identifier and a file name not seen yet,
\* an HTTPS URL that is not mutable, a hash and a size.
SourceEntry(scan, s) ==
  [ids |-> scan.ids \cup {s.id}, filenames |-> scan.filenames \cup {s.filename},
   valid |-> /\ scan.valid /\ s.wellFormed
             /\ s.id \notin scan.ids /\ s.filename \notin scan.filenames]

LoadSourceLock(sources) ==
  sources # << >> /\ FoldLeft(SourceEntry, SourceStart, sources).valid

\* The platforms whose evidence, build and system the lock must have.
Verified(l) == Platforms \ ToSet(l.deferred)

DeferredPlatformsValid(l) ==
  /\ ToSet(l.deferred) \subseteq Platforms /\ Distinct(l.deferred)
  /\ ToSet(l.deferred) # Platforms

ComponentsValid(l, sources) == {l.nss, l.nspr} \subseteq sources
BuildsValid(l) == l.builds = Verified(l)
CaptureValid(l) == l.systems = Verified(l)

\* load_profile_lock(): formats of the fields, platforms that are deferred,
\* references to sources, and evidence, build and system of exactly the others.
LoadProfileLock(l, sources) ==
  /\ l.wellFormed
  /\ DeferredPlatformsValid(l)
  /\ {l.source} \cup ToSet(l.artifacts) \subseteq sources
  /\ l.evidence = Verified(l)
  /\ ComponentsValid(l, sources) /\ BuildsValid(l) /\ CaptureValid(l)

-----------------------------------------------------------------------------
(* Inputs of the instance that ought not to exist: see LocksAgree and          *)
(* InputsAreSafe, which are stated where the tools consult these rules.        *)

Disagreements ==
  {d \in Documents :
     LoadLock(d) /\
       ~(ValidateManifest(d, LockProfile(d), LockPlatform(d))
           <=> /\ d.version = FirefoxVersion[LockProfile(d)]
               /\ {d.build, d.nss, d.nspr} \subseteq
                    (IF d.schema = 1 THEN {"legacy"} ELSE Numeric)
               /\ Distinct(Folded(NamesOf(d.files))))}

WrittenFrom(d, profile, platform) ==
  Release(profile, platform, d.version, d.build, d.nss, d.nspr,
          [i \in DOMAIN d.files |-> [d.files[i] EXCEPT !.hashed = TRUE]])
Unreadable ==
  {d \in Documents : \E profile \in Profiles, platform \in Platforms :
     CanRelease(profile, d.version, d.build, d.nss, d.nspr, d.files) /\
       ~(LoadLock(WrittenFrom(d, profile, platform))
           <=> \A i \in DOMAIN d.files : d.files[i].size > 0)}

IsSafe(archive) ==
  /\ Len(archive) <= MaxArchiveMembers
  /\ \A m \in ToSet(archive) : /\ SafeRelativeName(m.name) /\ m.size >= 0
                               /\ m.kind \in {"file", "directory"}
  /\ Distinct(Folded(NamesOf(archive)))
  /\ FoldLeft(LAMBDA sum, m : sum + m.size, 0, archive) <= MaxArchiveBytes
Misjudged == {a \in Archives : ~(ArchiveAccepted(a) <=> IsSafe(a))}

Ambiguous ==
  {sources \in SourceLocks :
     LoadSourceLock(sources) /\
       \E i, j \in DOMAIN sources :
         /\ i # j
         /\ \/ sources[i].id = sources[j].id
            \/ sources[i].filename = sources[j].filename}
IdsOf(sources) == {s.id : s \in ToSet(sources)}
Open ==
  {l \in ProfileLocks : \E sources \in SourceLocks :
     LoadProfileLock(l, IdsOf(sources)) /\
       ~(/\ \A id \in {l.source, l.nss, l.nspr} :
              \E i \in DOMAIN sources : sources[i].id = id
         /\ l.evidence # {}
         /\ l.evidence = l.builds /\ l.builds = l.systems)}

=============================================================================
