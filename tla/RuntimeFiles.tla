------------------------------ MODULE RuntimeFiles ------------------------------
(***************************************************************************)
(* The files that the release tools share, and the tools that write them:  *)
(* fetch_source() (scripts/provenance/fetch_sources.py) fills the cache of *)
(* artifacts, lock_release() and regenerate_embedded_locks()               *)
(* (scripts/runtime/lock_firefox_release.py) write the locks and the       *)
(* module that ships them, prepare_runtime() and prepare_browser() make    *)
(* the directories that a worker and a capture load.                       *)
(*                                                                         *)
(* Each process runs one tool at a time.  Any step may raise, be           *)
(* interrupted (KeyboardInterrupt: `finally` runs, `except Exception` does *)
(* not) or be the last one before the process is killed.                   *)
(*                                                                         *)
(* Where a lock goes, and whether the module is written again, is up to    *)
(* the caller: the output of lock_release() is any path, of which a        *)
(* regeneration finds those called firefox-*.lock.json in one directory.   *)
(***************************************************************************)
EXTENDS RuntimeLocks

CONSTANTS Processes,
          Keys,          \* (profile, platform) pairs that can be locked
          Paths,         \* where locks may be written
          Directory,     \* the directory of a path
          Canonical,     \* the paths whose name is firefox-*.lock.json
          Files,         \* the locked files of a runtime
          MaxRuns,       \* bound on the tools that are started
          MaxInterrupts, MaxKills

Outputs == {"runtime", "browser"}

ASSUME LocksAssumption ==
  {"absent", "partial"} \cap Keys = {} /\ Canonical \subseteq Paths

VARIABLES
  cache,    \* the artifact in the cache
  part,     \* per process, its .part- file
  temp,     \* per process, whether its temporary directory exists
  output,   \* per output: whether it exists, and its files
  lock,     \* per path, what is there; the key in it when it is whole
  embedded, \* _runtime_locks.py: the directory it was made from, the locks in
            \* it, and whether it is a whole text
  tool,     \* per process, the tool and the arguments of lock_release()
  pc,       \* where each process is
  seen,     \* the lock files that a regeneration has listed
  prepared, \* outputs that were reported as prepared and not removed since
  released, \* paths of the locks that were reported by runs that embed them
  spoilt,   \* two regenerations overlapped, or one stopped half-way
  runs, interrupts, kills

files == << cache, part, temp, output, lock, embedded >>
vars == << files, tool, pc, seen, prepared, released, spoilt, runs,
           interrupts, kills >>

NoFiles == [f \in Files |-> "absent"]
AllWhole == [f \in Files |-> "whole"]
NoDirectory == [exists |-> FALSE, files |-> NoFiles]
Complete == [exists |-> TRUE, files |-> AllWhole]
Run(does) == [does |-> does, path |-> "none", key |-> "none", embeds |-> FALSE]
NoTool == Run("none")

\* A run of lock_release(); embeds is FALSE when embedded_output is None, or
\* another file than the module that ships.
LockRuns == [does : {"lock"}, path : Paths, key : Keys, embeds : BOOLEAN]

Whole(f) == lock[f] \in Keys

Init ==
  /\ cache \in {"absent", "wrong", "whole"}
  /\ part = [p \in Processes |-> "absent"]
  /\ temp = [p \in Processes |-> FALSE]
  /\ output = [o \in Outputs |-> NoDirectory]
  /\ lock = [f \in Paths |-> "absent"]
  /\ embedded = [from |-> "none", locks |-> {}, text |-> "whole"]
  /\ tool = [p \in Processes |-> NoTool]
  /\ pc = [p \in Processes |-> "idle"]
  /\ seen = [p \in Processes |-> {}]
  /\ prepared = {} /\ released = {} /\ spoilt = FALSE
  /\ runs = 0 /\ interrupts = 0 /\ kills = 0

At(p, does, place) == tool[p].does = does /\ pc[p] = place
Goes(p, place) == pc' = [pc EXCEPT ![p] = place]

\* The tool has returned or raised.
Ends(p) ==
  /\ Goes(p, "idle")
  /\ tool' = [tool EXCEPT ![p] = NoTool]
  /\ seen' = [seen EXCEPT ![p] = {}]

Starts(p, run) ==
  /\ pc[p] = "idle" /\ runs < MaxRuns
  /\ runs' = runs + 1
  /\ tool' = [tool EXCEPT ![p] = run]

ghosts == << prepared, released, spoilt >>
faults == << interrupts, kills >>

-----------------------------------------------------------------------------
(* fetch_source() *)

\* A cached file that is the locked one is all there is to do.
FetchBegins(p) ==
  /\ pc[p] = "idle" /\ runs < MaxRuns
  /\ runs' = runs + 1
  /\ IF cache = "whole" THEN UNCHANGED << pc, tool >>
     ELSE /\ Goes(p, "open")
          /\ tool' = [tool EXCEPT ![p] = Run("fetch")]
  /\ UNCHANGED << files, seen, ghosts, faults >>

\* The response is open, then the file, whose name is new.
FetchOpens(p) ==
  /\ At(p, "fetch", "open")
  /\ part' = [part EXCEPT ![p] = "partial"]
  /\ Goes(p, "receive")
  /\ UNCHANGED << cache, temp, output, lock, embedded, tool, seen, ghosts,
                  runs, faults >>

FetchReceives(p) ==
  /\ At(p, "fetch", "receive")
  /\ \E bytes \in {"whole", "wrong"} : part' = [part EXCEPT ![p] = bytes]
  /\ Goes(p, "replace")
  /\ UNCHANGED << cache, temp, output, lock, embedded, tool, seen, ghosts,
                  runs, faults >>

\* Mutant: the file is moved before its hash is compared.
FetchReplacesFirst(p) ==
  /\ At(p, "fetch", "replace")
  /\ cache' = part[p]
  /\ part' = [part EXCEPT ![p] = "absent"]
  /\ Ends(p)
  /\ UNCHANGED << temp, output, lock, embedded, ghosts, runs, faults >>

\* Size and hash, then os.replace(); the part is gone in each case.
FetchReplaces(p) ==
  /\ At(p, "fetch", "replace")
  /\ cache' = IF part[p] = "whole" THEN "whole" ELSE cache
  /\ part' = [part EXCEPT ![p] = "absent"]
  /\ Ends(p)
  /\ UNCHANGED << temp, output, lock, embedded, ghosts, runs, faults >>

-----------------------------------------------------------------------------
(* prepare_runtime() and prepare_browser() *)

\* No output yet, a readable lock, and the locked artifact.
PrepareBegins(p, o) ==
  /\ ~output[o].exists /\ (\E f \in Paths : Whole(f)) /\ cache = "whole"
  /\ Starts(p, Run(o))
  /\ Goes(p, "extract")
  /\ UNCHANGED << files, seen, ghosts, faults >>

\* mkdtemp(), the extraction, and the files compared with the lock (runtime)
\* or the identity with that of the lock (browser).
PrepareExtracts(p, o) ==
  /\ At(p, o, "extract")
  /\ temp' = [temp EXCEPT ![p] = TRUE]
  /\ Goes(p, "make")
  /\ UNCHANGED << cache, part, output, lock, embedded, tool, seen, ghosts,
                  runs, faults >>

\* mkdir() of the output; it fails when another process was faster.
PrepareMakes(p, o) ==
  /\ At(p, o, "make") /\ ~output[o].exists
  /\ output' = [output EXCEPT ![o].exists = TRUE]
  /\ Goes(p, "copy")
  /\ UNCHANGED << cache, part, temp, lock, embedded, tool, seen, ghosts,
                  runs, faults >>

\* The copy of a file begins, and ends.
PrepareCopies(p, o) ==
  /\ At(p, o, "copy")
  /\ \E f \in Files : \E next \in {"partial", "whole"} :
       /\ output[o].files[f] = (IF next = "partial" THEN "absent" ELSE "partial")
       /\ output' = [output EXCEPT ![o].files[f] = next]
  /\ UNCHANGED << cache, part, temp, lock, embedded, tool, pc, seen, ghosts,
                  runs, faults >>

\* copytree() has copied everything: created_output is set only now.
BrowserCopied(p) ==
  /\ At(p, "browser", "copy") /\ output["browser"].files = AllWhole
  /\ Goes(p, "check")
  /\ UNCHANGED << files, tool, seen, ghosts, runs, faults >>

\* Every copy has been compared with the lock, and the temporary directory is
\* removed on the way out.
PrepareReturns(p, o) ==
  /\ At(p, o, IF o = "runtime" THEN "copy" ELSE "check")
  /\ output[o].files = AllWhole
  /\ prepared' = prepared \cup {o}
  /\ temp' = [temp EXCEPT ![p] = FALSE]
  /\ Ends(p)
  /\ UNCHANGED << cache, part, output, lock, embedded, released, spoilt,
                  runs, faults >>

-----------------------------------------------------------------------------
(* lock_release() *)

\* No file at the path yet, and the locked artifact.
LockBegins(p, run) ==
  /\ lock[run.path] = "absent" /\ cache = "whole"
  /\ Starts(p, run)
  /\ Goes(p, "extract")
  /\ UNCHANGED << files, seen, ghosts, faults >>

LockExtracts(p) ==
  /\ At(p, "lock", "extract")
  /\ temp' = [temp EXCEPT ![p] = TRUE]
  /\ Goes(p, "create")
  /\ UNCHANGED << cache, part, output, lock, embedded, tool, seen, ghosts,
                  runs, faults >>

\* open("x"); it fails when another process was faster with the same path.
LockCreates(p) ==
  /\ At(p, "lock", "create") /\ lock[tool[p].path] = "absent"
  /\ lock' = [lock EXCEPT ![tool[p].path] = "partial"]
  /\ Goes(p, "write")
  /\ UNCHANGED << cache, part, temp, output, embedded, tool, seen, ghosts,
                  runs, faults >>

LockWrites(p) ==
  /\ At(p, "lock", "write")
  /\ lock' = [lock EXCEPT ![tool[p].path] = tool[p].key]
  /\ temp' = [temp EXCEPT ![p] = FALSE]
  /\ Goes(p, "list")
  /\ UNCHANGED << cache, part, output, embedded, tool, seen, ghosts, runs,
                  faults >>

\* Without a module to write the lock is all there is to report.
LockReturns(p) ==
  /\ At(p, "lock", "list") /\ ~tool[p].embeds
  /\ Ends(p)
  /\ UNCHANGED << files, ghosts, runs, faults >>

\* regenerate_embedded_locks(): the list of the lock files, then each is read.
Regenerating(p) == tool[p].does = "lock" /\ pc[p] \in {"read", "truncate", "render"}

\* The canonical locks beside the new one, which need not be one of them.
RegenerateLists(p) ==
  /\ At(p, "lock", "list") /\ tool[p].embeds
  /\ seen' = [seen EXCEPT ![p] =
                {f \in Canonical : /\ lock[f] # "absent"
                                   /\ Directory[f] = Directory[tool[p].path]}]
  /\ spoilt' = (spoilt \/ \E q \in Processes : Regenerating(q))
  /\ Goes(p, "read")
  /\ UNCHANGED << files, tool, prepared, released, runs, faults >>

\* No two of these locks are for the same release.
OfDistinctKeys(paths) == \A f, g \in paths : lock[f] = lock[g] => f = g

\* Mutant: of two locks for the same release the last one counts.
RegenerateReadsLast(p) ==
  /\ At(p, "lock", "read")
  /\ IF \A f \in seen[p] : Whole(f)
       THEN /\ Goes(p, "truncate") /\ UNCHANGED tool
            /\ \E last \in SUBSET seen[p] :
                 /\ OfDistinctKeys(last)
                 /\ {lock[f] : f \in last} = {lock[f] : f \in seen[p]}
                 /\ seen' = [seen EXCEPT ![p] = last]
       ELSE Ends(p)
  /\ UNCHANGED << files, ghosts, runs, faults >>

\* A lock that cannot be read, because a process is writing it or left it
\* half written, is an error, and so is a second one for the same release.
RegenerateReads(p) ==
  /\ At(p, "lock", "read")
  /\ IF (\A f \in seen[p] : Whole(f)) /\ OfDistinctKeys(seen[p])
       THEN Goes(p, "truncate") /\ UNCHANGED << tool, seen >>
       ELSE Ends(p)
  /\ UNCHANGED << files, ghosts, runs, faults >>

\* write_text(): the file is cut to nothing and then written from its start.
RegenerateTruncates(p) ==
  /\ At(p, "lock", "truncate")
  /\ embedded' = [from |-> "none", locks |-> {}, text |-> "empty"]
  /\ Goes(p, "render")
  /\ UNCHANGED << cache, part, temp, output, lock, tool, seen, ghosts, runs,
                  faults >>

\* A shorter text over a longer one, that another process has just written,
\* leaves the rest of it.
RegenerateWrites(p) ==
  /\ At(p, "lock", "render")
  /\ \E text \in {"whole", "mixed"} :
       /\ embedded.text = "empty" => text = "whole"
       /\ embedded' = [from |-> Directory[tool[p].path], locks |-> seen[p],
                       text |-> text]
  /\ released' = released \cup {tool[p].path}
  /\ Ends(p)
  /\ UNCHANGED << cache, part, temp, output, lock, prepared, spoilt,
                  runs, faults >>

-----------------------------------------------------------------------------
(* Errors, interrupts, kills *)

\* `finally`, or for what never began nothing.
FinallyRuns(p) ==
  /\ part' = [part EXCEPT ![p] = "absent"]
  /\ temp' = [temp EXCEPT ![p] = FALSE]

Stops(p) ==
  /\ pc[p] # "idle"
  /\ Ends(p)
  /\ spoilt' = (spoilt \/ At(p, "lock", "render"))

\* Mutant: created_output is set before mkdir().
RaisesEagerly(p) ==
  LET created == \/ At(p, "runtime", "make") \/ At(p, "runtime", "copy")
                 \/ At(p, "browser", "check")
  IN  /\ Stops(p)
      /\ FinallyRuns(p)
      /\ output' = IF created
                     THEN [output EXCEPT ![tool[p].does] = NoDirectory]
                     ELSE output
      /\ UNCHANGED << cache, lock, embedded, prepared, released, runs,
                      faults >>

\* Mutant: no output is removed.
RaisesIdly(p) ==
  /\ Stops(p)
  /\ FinallyRuns(p)
  /\ UNCHANGED << cache, output, lock, embedded, prepared, released,
                  runs, faults >>

\* Any step may raise; an output is removed when it was created by this run,
\* which for the browser is known only once the copy is complete.
Raises(p) ==
  LET created == At(p, "runtime", "copy") \/ At(p, "browser", "check")
  IN  /\ Stops(p)
      /\ FinallyRuns(p)
      /\ output' = IF created
                     THEN [output EXCEPT ![tool[p].does] = NoDirectory]
                     ELSE output
      /\ UNCHANGED << cache, lock, embedded, prepared, released, runs,
                      faults >>

Interrupted(p) ==
  /\ interrupts < MaxInterrupts
  /\ interrupts' = interrupts + 1
  /\ Stops(p)
  /\ FinallyRuns(p)
  /\ UNCHANGED << cache, output, lock, embedded, prepared, released,
                  runs, kills >>

Killed(p) ==
  /\ kills < MaxKills
  /\ kills' = kills + 1
  /\ Stops(p)
  /\ UNCHANGED << files, prepared, released, runs, interrupts >>

\* Somebody removes an output, to prepare it again, while nothing runs.
UserRemoves(o) ==
  /\ output[o].exists /\ runs < MaxRuns
  /\ \A p \in Processes : pc[p] = "idle"
  /\ output' = [output EXCEPT ![o] = NoDirectory]
  /\ prepared' = prepared \ {o}
  /\ UNCHANGED << cache, part, temp, lock, embedded, tool, pc, seen, released,
                  spoilt, runs, faults >>

Next ==
  \/ \E p \in Processes :
       \/ FetchBegins(p) \/ FetchOpens(p) \/ FetchReceives(p) \/ FetchReplaces(p)
       \/ \E o \in Outputs :
            \/ PrepareBegins(p, o)
            \/ PrepareExtracts(p, o) \/ PrepareMakes(p, o)
            \/ PrepareCopies(p, o) \/ PrepareReturns(p, o)
       \/ BrowserCopied(p)
       \/ \E run \in LockRuns : LockBegins(p, run)
       \/ LockExtracts(p) \/ LockCreates(p) \/ LockWrites(p) \/ LockReturns(p)
       \/ RegenerateLists(p) \/ RegenerateReads(p)
       \/ RegenerateTruncates(p) \/ RegenerateWrites(p)
       \/ Raises(p) \/ Interrupted(p) \/ Killed(p)
  \/ \E o \in Outputs : UserRemoves(o)

Spec == Init /\ [][Next]_vars

-----------------------------------------------------------------------------
(* Properties *)

Places == {"idle", "open", "receive", "replace", "extract", "make", "copy", "check",
           "create", "write", "list", "read", "truncate", "render"}
Contents == {"absent", "partial", "whole"}
Directories == [exists : BOOLEAN, files : [Files -> Contents]]
LockTexts == Keys \cup {"absent", "partial"}
Modules == [from : {Directory[f] : f \in Paths} \cup {"none"},
            locks : SUBSET Canonical, text : {"whole", "empty", "mixed"}]
Runs == {Run(does) : does \in {"none", "fetch"} \cup Outputs} \cup LockRuns

TypeOK ==
  /\ cache \in {"absent", "wrong", "whole"}
  /\ part \in [Processes -> Contents \cup {"wrong"}]
  /\ temp \in [Processes -> BOOLEAN]
  /\ output \in [Outputs -> Directories]
  /\ lock \in [Paths -> LockTexts]
  /\ embedded \in Modules
  /\ tool \in [Processes -> Runs]
  /\ pc \in [Processes -> Places]
  /\ seen \in [Processes -> SUBSET Canonical]
  /\ prepared \subseteq Outputs /\ released \subseteq Paths /\ spoilt \in BOOLEAN
  /\ runs \in Nat /\ interrupts \in Nat /\ kills \in Nat

\* Whatever other process downloads the same artifact, fails or is killed at
\* any moment, the file in the cache changes only to the locked artifact: a
\* complete one is never replaced by anything else.
CacheOnlyImproves == [][cache' # cache => cache' = "whole"]_cache

\* An output that was reported as prepared stays complete, also when another
\* process prepares the same output and fails.
PreparedStaysLocked ==
  \A o \in prepared : output[o] = Complete

\* Without kill or interrupt, a tool that has ended leaves no part file, no
\* temporary directory and no incomplete runtime.
FailureLeavesNothing ==
  kills = 0 /\ interrupts = 0 =>
    /\ \A p \in Processes :
         pc[p] = "idle" => part[p] = "absent" /\ ~temp[p]
    /\ (\A p \in Processes : tool[p].does # "runtime") =>
         output["runtime"] \in {NoDirectory, Complete}

\* A lock is reviewed and committed: once written it never changes, though two
\* processes lock the same release, to the same path or to another.
LockIsWrittenOnce ==
  [][\A f \in Paths : Whole(f) => lock'[f] = lock[f]]_lock

\* The module that ships in the wheel has whole locks only, one for a release,
\* and among them every lock of the directory it was last made from that was
\* reported by a run that was to embed it: what a run has reported, no later one
\* for the same directory drops.  Unless two regenerations overlapped, or one
\* stopped between emptying the module and writing it.  Not in the module, though
\* their runs report success, are locks whose name is not firefox-*.lock.json,
\* and those of another directory, which the module had until it was made from
\* this one.
ReleasedIsEmbedded ==
  ~spoilt /\ ~(\E p \in Processes : At(p, "lock", "render")) =>
    /\ embedded.text = "whole"
    /\ \A f \in released \cap Canonical :
         Directory[f] = embedded.from => f \in embedded.locks
    /\ \A f \in embedded.locks : Whole(f)
    /\ OfDistinctKeys(embedded.locks)

-----------------------------------------------------------------------------
(* Properties of the rules, in the states in which the tools consult them.   *)

\* Whatever the lock on disk says, the three programs that judge runtime locks
\* agree on it: the build, the start of a worker, which has a copy of the rules,
\* and lock_release(), which has the reader of the build and writes by rules of
\* its own.  A lock that the build accepts is refused when a worker starts for
\* these reasons only: the Firefox version is not the one of the profile; the
\* build or a version of NSS or NSPR is not numeric, or in a lock of schema 1 not
\* the very one of that release; or two files differ in case only.  And a lock
\* that lock_release() writes is accepted by the regeneration that follows,
\* unless one of the files is empty.
LocksAgree ==
  (\E f \in Paths : Whole(f)) => Disagreements = {} /\ Unreadable = {}

\* An archive is extracted only when its members, taken together, are files
\* and directories with safe names that differ on every file system, and stay
\* within the limits on their number and on the sum of their sizes; the source
\* lock of a fetch gives each source a file of its own in the cache, if the file
\* system of the cache tells upper from lower case; and an accepted profile lock
\* refers to known sources only and has for every platform either all of its
\* evidence or none, and for one at least all.
InputsAreSafe ==
  /\ (\E p \in Processes : pc[p] = "make") => Misjudged = {}
  /\ (\E p \in Processes : tool[p].does = "fetch") => Ambiguous = {} /\ Open = {}

=============================================================================
