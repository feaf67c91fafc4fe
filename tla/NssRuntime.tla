----------------------------- MODULE NssRuntime -----------------------------
(***************************************************************************)
(* The process-wide NSS runtime of native/nss-shim/src/runtime.c and what  *)
(* keeps it in use: runtime handles, and the session caches and            *)
(* connections (connection.c) that retain them.                            *)
(*                                                                         *)
(* Every thread may hold runtimes of its own.  The global part is only     *)
(* touched under its mutex, so global_acquire() and global_release() are   *)
(* atomic; between either of them and the rest of a call other threads     *)
(* may run.  A caller does not use a handle after it has freed it.         *)
(***************************************************************************)
EXTENDS Naturals, FiniteSets

CONSTANTS Runtimes,      \* the runtime handles that can be allocated
          NoRuntime,
          Objects,       \* the caches and connections that can be allocated
          Configs,       \* a runtime directory and a profile identifier
          NoConfig,      \* no library is loaded
          Bundles,       \* encoded trust anchors, none of them empty
          NoBundle,      \* the empty bundle
          MaxReferences  \* UINT32_MAX

ASSUME RuntimesAssumption == IsFiniteSet(Runtimes) /\ NoRuntime \notin Runtimes
ASSUME ObjectsAssumption == IsFiniteSet(Objects)
ASSUME ConfigsAssumption == NoConfig \notin Configs
ASSUME BundlesAssumption == NoBundle \notin Bundles
ASSUME MaxReferencesAssumption == MaxReferences \in Nat \ {0}

VARIABLES
  references,  \* global_runtime.references
  loaded,      \* the configuration of the libraries that are loaded
  trust,       \* the bundle whose certificates NSS trusts
  at,          \* per handle: how far its life is
  refs,        \* per handle: runtime->references
  config,      \* per handle: the configuration it was asked for
  bundle,      \* per handle: the trust anchors it was asked for
  result,      \* per handle: the result of runtime_create()
  owner        \* per object: the runtime it retains

vars == << references, loaded, trust, at, refs, config, bundle, result, owner >>
globalVars == << references, loaded, trust >>

Anchors == Bundles \cup {NoBundle}
Results == {"none", "ok", "tls", "state", "trust", "memory"}

\* The handles that count in global_runtime.references.
HeldStates == {"acquired", "live", "invalid", "releasing"}
Held == {r \in Runtimes : at[r] \in HeldStates}

\* The handles whose memory is allocated and not being given back.
Alive(r) == at[r] \in {"live", "invalid"}

Owned(r) == {o \in Objects : owner[o] = r}

Init ==
  /\ references = 0 /\ loaded = NoConfig /\ trust = NoBundle
  /\ at     = [r \in Runtimes |-> "absent"]
  /\ refs   = [r \in Runtimes |-> 0]
  /\ config = [r \in Runtimes |-> NoConfig]
  /\ bundle = [r \in Runtimes |-> NoBundle]
  /\ result = [r \in Runtimes |-> "none"]
  /\ owner  = [o \in Objects |-> NoRuntime]

-----------------------------------------------------------------------------
(* global_acquire() and global_release(), under the mutex *)

Refused(r, why) ==
  /\ result' = [result EXCEPT ![r] = why]
  /\ UNCHANGED << at, references, trust >>

\* install_trust_locked() on behalf of the first handle: the whole bundle is
\* trusted, or none of it is and its certificates are released.
Installs(r, b) ==
  \/ /\ trust' = b
     /\ references' = 1
     /\ at' = [at EXCEPT ![r] = "acquired"]
     /\ UNCHANGED result
  \/ /\ b # NoBundle
     /\ \E why \in {"trust", "memory"} : Refused(r, why)

\* The first handle of the process loads the libraries, which stay loaded
\* when its trust anchors turn out to be unusable.
AcquiresFirst(r, c, b) ==
  /\ references = 0
  /\ loaded = NoConfig
  /\ \/ /\ Refused(r, "tls")
        /\ UNCHANGED loaded
     \/ /\ loaded' = c
        /\ Installs(r, b)

\* No handle is left of those that used the libraries before.
AcquiresAgain(r, c, b) ==
  /\ references = 0
  /\ loaded # NoConfig
  /\ UNCHANGED loaded
  /\ \/ loaded # c /\ Refused(r, "state")
     \/ loaded = c /\ Installs(r, b)

\* Mutant: the trust anchors of the handles in use are not compared.
AcquiresSharedLoosely(r, c, b) ==
  /\ references > 0
  /\ UNCHANGED << loaded, trust >>
  /\ \/ /\ loaded # c \/ references = MaxReferences
        /\ Refused(r, "state")
     \/ /\ loaded = c /\ references < MaxReferences
        /\ references' = references + 1
        /\ at' = [at EXCEPT ![r] = "acquired"]
        /\ UNCHANGED result

\* Handles that are in use together share configuration and trust anchors.
AcquiresShared(r, c, b) ==
  /\ references > 0
  /\ UNCHANGED << loaded, trust >>
  /\ \/ /\ loaded # c \/ trust # b \/ references = MaxReferences
        /\ Refused(r, "state")
     \/ /\ loaded = c /\ trust = b /\ references < MaxReferences
        /\ references' = references + 1
        /\ at' = [at EXCEPT ![r] = "acquired"]
        /\ UNCHANGED result

\* The last handle takes the trust anchors with it; the libraries stay.
GlobalRelease ==
  /\ references' = IF references > 0 THEN references - 1 ELSE 0
  /\ trust' = IF references = 1 THEN NoBundle ELSE trust
  /\ UNCHANGED loaded

-----------------------------------------------------------------------------
(* runtime_create() and runtime_free() *)

Acquires(r, c, b) ==
  /\ at[r] = "absent"
  /\ config' = [config EXCEPT ![r] = c]
  /\ bundle' = [bundle EXCEPT ![r] = b]
  /\ \/ AcquiresFirst(r, c, b)
     \/ AcquiresAgain(r, c, b)
     \/ AcquiresShared(r, c, b)
  /\ UNCHANGED << refs, owner >>

Allocates(r) ==
  /\ at[r] = "acquired"
  /\ at' = [at EXCEPT ![r] = "live"]
  /\ refs' = [refs EXCEPT ![r] = 1]
  /\ result' = [result EXCEPT ![r] = "ok"]
  /\ UNCHANGED << globalVars, config, bundle, owner >>

AllocationFails(r) ==
  /\ at[r] = "acquired"
  /\ GlobalRelease
  /\ at' = [at EXCEPT ![r] = "absent"]
  /\ result' = [result EXCEPT ![r] = "memory"]
  /\ UNCHANGED << refs, config, bundle, owner >>

\* foxreq_real_runtime_release(): whoever takes the counter to zero gives the
\* global reference back and frees the memory.
DropsReference(r, otherwise) ==
  /\ refs' = [refs EXCEPT ![r] = @ - 1]
  /\ at' = [at EXCEPT ![r] = IF refs[r] = 1 THEN "releasing" ELSE otherwise]

RuntimeFree(r) ==
  /\ at[r] = "live"
  /\ DropsReference(r, "invalid")
  /\ UNCHANGED << globalVars, config, bundle, result, owner >>

Releases(r) ==
  /\ at[r] = "releasing"
  /\ GlobalRelease
  /\ at' = [at EXCEPT ![r] = "absent"]
  /\ UNCHANGED << refs, config, bundle, result, owner >>

-----------------------------------------------------------------------------
(* session_cache_create(), connect(), and the calls that free their results *)

\* Mutant: the new object does not retain its runtime.
ObjectCreateUnretained(o, r) ==
  /\ owner[o] = NoRuntime
  /\ at[r] = "live"
  /\ owner' = [owner EXCEPT ![o] = r]
  /\ UNCHANGED << globalVars, at, refs, config, bundle, result >>

\* Also a connection that failed retains its runtime, when it is returned for
\* the sake of its error.
ObjectCreate(o, r) ==
  /\ owner[o] = NoRuntime
  /\ at[r] = "live"
  /\ owner' = [owner EXCEPT ![o] = r]
  /\ refs' = [refs EXCEPT ![r] = @ + 1]
  /\ UNCHANGED << globalVars, at, config, bundle, result >>

ObjectFree(o, r) ==
  /\ owner[o] = r
  /\ owner' = [owner EXCEPT ![o] = NoRuntime]
  /\ DropsReference(r, at[r])
  /\ UNCHANGED << globalVars, config, bundle, result >>

-----------------------------------------------------------------------------
Next ==
  \E r \in Runtimes :
    \/ \E c \in Configs, b \in Anchors : Acquires(r, c, b)
    \/ Allocates(r) \/ AllocationFails(r)
    \/ RuntimeFree(r) \/ Releases(r)
    \/ \E o \in Objects : ObjectCreate(o, r) \/ ObjectFree(o, r)

Spec == Init /\ [][Next]_vars

-----------------------------------------------------------------------------
(* Properties *)

TypeOK ==
  /\ references \in 0 .. MaxReferences
  /\ loaded \in Configs \cup {NoConfig}
  /\ trust \in Anchors
  /\ at \in [Runtimes -> HeldStates \cup {"absent"}]
  /\ refs \in [Runtimes -> Nat]
  /\ config \in [Runtimes -> Configs \cup {NoConfig}]
  /\ bundle \in [Runtimes -> Anchors]
  /\ result \in [Runtimes -> Results]
  /\ owner \in [Objects -> Runtimes \cup {NoRuntime}]

\* A session verifies its peers with the trust anchors it was created with,
\* by the libraries of its own directory and profile, whatever other sessions
\* of the process are created and freed meanwhile.
TrustIsOwn ==
  \A r \in Held : trust = bundle[r] /\ loaded = config[r]

\* Trust anchors are gone once no session is left that brought them: creations
\* that failed half-way leave nothing behind.
TrustGone == Held = {} => trust = NoBundle

\* The memory of a runtime outlives the caches and connections that point to
\* it, in whatever order they are freed.
ObjectsKeepRuntime ==
  \A o \in Objects : owner[o] # NoRuntime => Alive(owner[o])

\* The libraries of a process are loaded once, and belong to one directory and
\* profile until it ends.
LoadedForGood == [][loaded # NoConfig => loaded' = loaded]_vars

=============================================================================
