------------------------------ MODULE NssProofs ------------------------------
(***************************************************************************)
(* Proofs about the NSS shim: the runtime of the process (NssRuntime) and  *)
(* one TLS connection over it (NssConnection).                             *)
(*                                                                         *)
(* The runtime is correct for every number of handles and objects and any  *)
(* limit of the reference counter: the counters of the code are tied to    *)
(* the sets that they count, and the rest follows from what the sets are.  *)
(* A connection gives its socket back once and keeps its deadlines for     *)
(* every timeout, number of addresses and limit of the resolver.           *)
(***************************************************************************)
EXTENDS NssRuntime, NssConnection, FiniteSetTheorems, TLAPS

-----------------------------------------------------------------------------
(* The runtime *)

\* The global counter counts the handles that hold the global runtime.
CountInv == references = Cardinality(Held)

\* The counter of a handle counts the objects that point to it, and its
\* creator for as long as the handle has not been freed.
RefsInv ==
  \A r \in Runtimes :
    /\ at[r] = "live"    => refs[r] = Cardinality(Owned(r)) + 1
    /\ at[r] = "invalid" => refs[r] = Cardinality(Owned(r)) /\ Owned(r) # {}
    /\ ~Alive(r)         => Owned(r) = {}

IInv == TypeOK /\ CountInv /\ RefsInv /\ TrustIsOwn /\ TrustGone

-----------------------------------------------------------------------------
(* The counted sets *)

LEMMA HeldFinite == IsFiniteSet(Held) /\ Cardinality(Held) \in Nat
<1>1. Held \subseteq Runtimes
  BY DEF Held
<1> QED
  BY <1>1, RuntimesAssumption, FS_Subset, FS_CardinalityType

LEMMA OwnedFinite ==
  ASSUME NEW r
  PROVE  IsFiniteSet(Owned(r)) /\ Cardinality(Owned(r)) \in Nat
<1>1. Owned(r) \subseteq Objects
  BY DEF Owned
<1> QED
  BY <1>1, ObjectsAssumption, FS_Subset, FS_CardinalityType

\* A handle joins those that hold the global runtime.
LEMMA HeldGains ==
  ASSUME TypeOK, NEW r \in Runtimes, at[r] = "absent",
         at' = [at EXCEPT ![r] = "acquired"]
  PROVE  /\ Held' = Held \cup {r} /\ r \notin Held
         /\ Cardinality(Held') = Cardinality(Held) + 1
<1>1. Held' = Held \cup {r} /\ r \notin Held
  BY DEF Held, HeldStates, TypeOK
<1> QED
  BY <1>1, HeldFinite, FS_AddElement

\* A handle leaves them.
LEMMA HeldLoses ==
  ASSUME TypeOK, NEW r \in Held, at' = [at EXCEPT ![r] = "absent"]
  PROVE  /\ Held' = Held \ {r}
         /\ Cardinality(Held') = Cardinality(Held) - 1
         /\ Cardinality(Held) > 0
<1>1. Held' = Held \ {r}
  BY DEF Held, HeldStates, TypeOK
<1>2. Cardinality(Held) # 0
  BY HeldFinite, FS_EmptySet
<1> QED
  BY <1>1, <1>2, HeldFinite, FS_RemoveElement

\* A handle moves from one of their states to another.
LEMMA HeldStays ==
  ASSUME TypeOK, NEW r \in Held, NEW state \in HeldStates,
         at' = [at EXCEPT ![r] = state]
  PROVE  Held' = Held
BY DEF Held, TypeOK

-----------------------------------------------------------------------------
(* Steps *)

LEMMA InitInv == Init => IInv
<1> SUFFICES ASSUME Init PROVE IInv
  OBVIOUS
<1>1. Held = {}
  BY DEF Init, Held, HeldStates
<1>2. \A r \in Runtimes : Owned(r) = {}
  BY RuntimesAssumption DEF Init, Owned
<1>3. TypeOK
  BY MaxReferencesAssumption
     DEF Init, TypeOK, Anchors, Results, HeldStates
<1>4. CountInv
  BY <1>1, FS_EmptySet DEF Init, CountInv
<1>5. RefsInv
  BY <1>2 DEF Init, RefsInv
<1>6. TrustIsOwn /\ TrustGone
  BY <1>1 DEF Init, TrustIsOwn, TrustGone
<1> QED
  BY <1>3, <1>4, <1>5, <1>6 DEF IInv

\* What runtime_create() does to the global runtime: nothing that a handle in
\* use could notice, or one more handle that agrees with all of them.
LEMMA AcquiresOutcome ==
  ASSUME IInv, NEW r \in Runtimes, NEW c \in Configs, NEW b \in Anchors,
         Acquires(r, c, b)
  PROVE  \/ /\ UNCHANGED << at, references, trust >>
            /\ references > 0 => loaded' = loaded
            /\ loaded' \in Configs \cup {NoConfig}
         \/ /\ at' = [at EXCEPT ![r] = "acquired"]
            /\ references' = references + 1 /\ references' \in 0 .. MaxReferences
            /\ trust' = b /\ loaded' = c
            /\ references > 0 => trust = b /\ loaded = c
<1> USE DEF IInv, TypeOK, Refused, Installs
<1>1. CASE AcquiresFirst(r, c, b)
  BY <1>1, MaxReferencesAssumption DEF AcquiresFirst
<1>2. CASE AcquiresAgain(r, c, b)
  BY <1>2, MaxReferencesAssumption DEF AcquiresAgain
<1>3. CASE AcquiresShared(r, c, b)
  BY <1>3, MaxReferencesAssumption DEF AcquiresShared
<1> QED
  BY <1>1, <1>2, <1>3 DEF Acquires

LEMMA AcquiresInv ==
  ASSUME IInv, NEW r \in Runtimes, NEW c \in Configs, NEW b \in Anchors,
         Acquires(r, c, b)
  PROVE  IInv'
<1>1. /\ at[r] = "absent" /\ UNCHANGED << refs, owner >>
      /\ config' = [config EXCEPT ![r] = c] /\ bundle' = [bundle EXCEPT ![r] = b]
      /\ result' \in [Runtimes -> Results]
  BY DEF Acquires, AcquiresFirst, AcquiresAgain, AcquiresShared, Refused,
         Installs, IInv, TypeOK, Results
<1>2. \A q \in Runtimes : Owned(q)' = Owned(q)
  BY <1>1 DEF Owned
<1>3. r \notin Held
  BY <1>1 DEF Held, HeldStates
<1>4. CASE /\ UNCHANGED << at, references, trust >>
           /\ references > 0 => loaded' = loaded
           /\ loaded' \in Configs \cup {NoConfig}
  <2>1. Held' = Held
    BY <1>4 DEF Held
  <2>2. TypeOK'
    BY <1>1, <1>4 DEF IInv, TypeOK
  <2>3. CountInv'
    BY <1>4, <2>1 DEF IInv, CountInv
  <2>4. RefsInv'
    BY <1>1, <1>2, <1>4 DEF IInv, RefsInv, Alive
  <2>5. Held # {} => references > 0
    BY HeldFinite, FS_EmptySet DEF IInv, CountInv
  <2>6. TrustIsOwn' /\ TrustGone'
    BY <1>1, <1>3, <1>4, <2>1, <2>5
       DEF IInv, TypeOK, TrustIsOwn, TrustGone, Held
  <2> QED
    BY <2>2, <2>3, <2>4, <2>6 DEF IInv
<1>5. CASE /\ at' = [at EXCEPT ![r] = "acquired"]
           /\ references' = references + 1 /\ references' \in 0 .. MaxReferences
           /\ trust' = b /\ loaded' = c
           /\ references > 0 => trust = b /\ loaded = c
  <2>1. /\ Held' = Held \cup {r}
        /\ Cardinality(Held') = Cardinality(Held) + 1
    BY <1>1, <1>5, HeldGains DEF IInv
  <2>2. TypeOK'
    BY <1>1, <1>5 DEF IInv, TypeOK, HeldStates
  <2>3. CountInv'
    BY <1>5, <2>1 DEF IInv, CountInv
  <2>4. RefsInv'
    BY <1>1, <1>2, <1>5 DEF IInv, TypeOK, RefsInv, Alive
  <2>5. Held # {} => references > 0
    BY HeldFinite, FS_EmptySet DEF IInv, CountInv
  <2>6. TrustIsOwn'
    BY <1>1, <1>5, <2>1, <2>5 DEF IInv, TypeOK, TrustIsOwn, Held
  <2>7. TrustGone'
    BY <2>1 DEF TrustGone
  <2> QED
    BY <2>2, <2>3, <2>4, <2>6, <2>7 DEF IInv
<1> QED
  BY <1>4, <1>5, AcquiresOutcome

\* The memory of the new handle: its counter stands for its creator.
LEMMA AllocatesInv ==
  ASSUME IInv, NEW r \in Runtimes, Allocates(r)
  PROVE  IInv'
<1>1. Held' = Held /\ \A q \in Runtimes : Owned(q)' = Owned(q)
  BY DEF Allocates, IInv, TypeOK, Held, HeldStates, Owned
<1>2. Owned(r) = {} /\ Cardinality(Owned(r)) = 0
  BY FS_EmptySet DEF Allocates, IInv, RefsInv, Alive
<1>3. TypeOK'
  BY DEF Allocates, globalVars, IInv, TypeOK, HeldStates, Results
<1>4. CountInv' /\ TrustIsOwn' /\ TrustGone'
  BY <1>1 DEF Allocates, globalVars, IInv, CountInv, TrustIsOwn, TrustGone
<1>5. /\ at' = [at EXCEPT ![r] = "live"] /\ refs' = [refs EXCEPT ![r] = 1]
      /\ UNCHANGED owner
  BY DEF Allocates
<1>6. refs'[r] = Cardinality(Owned(r)') + 1 /\ at'[r] = "live"
  <2>1. Owned(r)' = {}
    BY <1>1, <1>2
  <2>2. Cardinality(Owned(r)') = 0
    BY <2>1, FS_EmptySet
  <2> QED
    BY <1>5, <2>2 DEF IInv, TypeOK
<1>7. \A q \in Runtimes \ {r} : refs'[q] = refs[q] /\ at'[q] = at[q]
  BY <1>5 DEF IInv, TypeOK
<1>8. RefsInv'
  <2> SUFFICES ASSUME NEW q \in Runtimes
      PROVE  /\ at'[q] = "live" => refs'[q] = Cardinality(Owned(q)') + 1
             /\ at'[q] = "invalid" =>
                  refs'[q] = Cardinality(Owned(q)') /\ Owned(q)' # {}
             /\ ~Alive(q)' => Owned(q)' = {}
    BY DEF RefsInv
  <2>1. CASE q = r
    BY <1>6, <2>1 DEF Alive
  <2>2. CASE q # r
    BY <1>1, <1>7, <2>2 DEF IInv, RefsInv, Alive
  <2> QED
    BY <2>1, <2>2
<1> QED
  BY <1>3, <1>4, <1>8 DEF IInv

\* A handle without objects gives its global reference back.
LEMMA ReleaseInv ==
  ASSUME IInv, NEW r \in Runtimes, at[r] \in {"acquired", "releasing"},
         GlobalRelease, at' = [at EXCEPT ![r] = "absent"],
         UNCHANGED << refs, config, bundle, owner >>,
         result' \in [Runtimes -> Results]
  PROVE  IInv'
<1>1. r \in Held
  BY DEF Held, HeldStates
<1>2. /\ Held' = Held \ {r}
      /\ Cardinality(Held') = Cardinality(Held) - 1
      /\ Cardinality(Held) > 0
  BY <1>1, HeldLoses DEF IInv
<1>3. references' = references - 1 /\ loaded' = loaded
  BY <1>2 DEF GlobalRelease, IInv, CountInv
<1>4. TypeOK'
  <2>1. references \in Nat /\ references > 0 /\ references <= MaxReferences
    BY <1>2 DEF IInv, TypeOK, CountInv
  <2>2. references' \in 0 .. MaxReferences
    BY <1>3, <2>1, MaxReferencesAssumption
  <2>3. trust' \in Anchors
    BY DEF GlobalRelease, IInv, TypeOK, Anchors
  <2> QED
    BY <1>3, <2>2, <2>3 DEF IInv, TypeOK
<1>5. CountInv'
  BY <1>2, <1>3 DEF IInv, CountInv
<1>6. \A q \in Runtimes : Owned(q)' = Owned(q)
  BY DEF Owned
<1>7. RefsInv'
  BY <1>6 DEF IInv, TypeOK, RefsInv, Alive
<1>8. Held' = {} <=> references = 1
  BY <1>2, <1>3, HeldFinite, FS_EmptySet, FS_RemoveElement, FS_Subset
     DEF IInv, CountInv
<1>9. TrustIsOwn' /\ TrustGone'
  BY <1>2, <1>3, <1>8 DEF GlobalRelease, IInv, TrustIsOwn, TrustGone
<1> QED
  BY <1>4, <1>5, <1>7, <1>9 DEF IInv

\* The global part of the invariant does not see how far a handle that stays
\* held has got.
LEMMA LocalInv ==
  ASSUME IInv, NEW r \in Held, NEW state \in HeldStates,
         at' = [at EXCEPT ![r] = state],
         UNCHANGED << references, loaded, trust, config, bundle, result >>
  PROVE  CountInv' /\ TrustIsOwn' /\ TrustGone'
<1>1. Held' = Held
  BY HeldStays DEF IInv
<1> QED
  BY <1>1 DEF IInv, CountInv, TrustIsOwn, TrustGone

LEMMA RuntimeFreeInv ==
  ASSUME IInv, NEW r \in Runtimes, RuntimeFree(r)
  PROVE  IInv'
<1>1. /\ at[r] = "live" /\ r \in Held
      /\ UNCHANGED << references, loaded, trust, config, bundle, result, owner >>
  BY DEF RuntimeFree, globalVars, Held, HeldStates
<1>2. PICK state \in {"invalid", "releasing"} :
        at' = [at EXCEPT ![r] = state]
  BY DEF RuntimeFree, DropsReference
<1>3. \A q \in Runtimes : Owned(q)' = Owned(q)
  BY <1>1 DEF Owned
<1>4. refs[r] = Cardinality(Owned(r)) + 1 /\ Cardinality(Owned(r)) \in Nat
  BY <1>1, OwnedFinite DEF IInv, RefsInv
<1>5. refs[r] = 1 <=> Owned(r) = {}
  BY <1>4, OwnedFinite, FS_EmptySet
<1>6. TypeOK'
  BY <1>1, <1>2, <1>4 DEF RuntimeFree, DropsReference, IInv, TypeOK, HeldStates
<1>7. RefsInv'
  BY <1>1, <1>3, <1>4, <1>5
     DEF RuntimeFree, DropsReference, IInv, TypeOK, RefsInv, Alive
<1>8. CountInv' /\ TrustIsOwn' /\ TrustGone'
  BY <1>1, <1>2, LocalInv DEF HeldStates
<1> QED
  BY <1>6, <1>7, <1>8 DEF IInv

LEMMA ObjectCreateInv ==
  ASSUME IInv, NEW r \in Runtimes, NEW o \in Objects, ObjectCreate(o, r)
  PROVE  IInv'
<1>1. /\ at[r] = "live" /\ owner[o] = NoRuntime
      /\ owner' = [owner EXCEPT ![o] = r]
      /\ refs' = [refs EXCEPT ![r] = @ + 1]
      /\ UNCHANGED << references, loaded, trust, at, config, bundle, result >>
  BY DEF ObjectCreate, globalVars
<1>2. Owned(r)' = Owned(r) \cup {o} /\ o \notin Owned(r)
  BY <1>1, RuntimesAssumption DEF IInv, TypeOK, Owned
<1>3. Cardinality(Owned(r)') = Cardinality(Owned(r)) + 1
  BY <1>2, OwnedFinite, FS_AddElement
<1>4. \A q \in Runtimes \ {r} : Owned(q)' = Owned(q)
  BY <1>1, RuntimesAssumption DEF IInv, TypeOK, Owned
<1>5. TypeOK'
  BY <1>1 DEF IInv, TypeOK
<1>6. RefsInv'
  BY <1>1, <1>3, <1>4, OwnedFinite DEF IInv, TypeOK, RefsInv, Alive
<1>7. CountInv' /\ TrustIsOwn' /\ TrustGone'
  BY <1>1 DEF IInv, Held, CountInv, TrustIsOwn, TrustGone
<1> QED
  BY <1>5, <1>6, <1>7 DEF IInv

LEMMA ObjectFreeInv ==
  ASSUME IInv, NEW r \in Runtimes, NEW o \in Objects, ObjectFree(o, r)
  PROVE  IInv'
<1>1. /\ owner[o] = r
      /\ owner' = [owner EXCEPT ![o] = NoRuntime]
      /\ refs' = [refs EXCEPT ![r] = @ - 1]
      /\ UNCHANGED << references, loaded, trust, config, bundle, result >>
  BY DEF ObjectFree, DropsReference, globalVars
<1>2. Owned(r)' = Owned(r) \ {o} /\ o \in Owned(r)
  BY <1>1, RuntimesAssumption DEF IInv, TypeOK, Owned
<1>3. /\ Cardinality(Owned(r)') = Cardinality(Owned(r)) - 1
      /\ Cardinality(Owned(r)) \in Nat /\ Cardinality(Owned(r)) # 0
  BY <1>2, OwnedFinite, FS_RemoveElement, FS_EmptySet
<1>4. Owned(r)' = {} <=> Cardinality(Owned(r)) = 1
  BY <1>2, <1>3, OwnedFinite, FS_EmptySet, FS_RemoveElement, FS_Subset
<1>5. \A q \in Runtimes \ {r} : Owned(q)' = Owned(q)
  BY <1>1, RuntimesAssumption DEF IInv, TypeOK, Owned
<1>6. Alive(r)
  BY <1>2 DEF IInv, RefsInv
<1>7. PICK state \in {"live", "invalid", "releasing"} :
        at' = [at EXCEPT ![r] = state]
  BY <1>6 DEF ObjectFree, DropsReference, Alive
<1>8. TypeOK'
  BY <1>1, <1>3, <1>6, <1>7
     DEF IInv, TypeOK, RefsInv, Alive, HeldStates
<1>9. RefsInv'
  BY <1>1, <1>3, <1>4, <1>5, <1>6
     DEF ObjectFree, DropsReference, IInv, TypeOK, RefsInv, Alive
<1>10. r \in Held
  BY <1>6 DEF Alive, Held, HeldStates
<1>11. CountInv' /\ TrustIsOwn' /\ TrustGone'
  BY <1>1, <1>7, <1>10, LocalInv DEF HeldStates
<1> QED
  BY <1>8, <1>9, <1>11 DEF IInv

-----------------------------------------------------------------------------
(* The invariant *)

LEMMA StepInv == IInv /\ [Next]_vars => IInv'
<1> SUFFICES ASSUME IInv, [Next]_vars PROVE IInv'
  OBVIOUS
<1>1. CASE UNCHANGED vars
  BY <1>1 DEF vars, IInv, TypeOK, CountInv, RefsInv, TrustIsOwn, TrustGone,
         Held, Owned, Alive
<1>2. ASSUME NEW r \in Runtimes, NEW c \in Configs, NEW b \in Anchors,
             Acquires(r, c, b)
      PROVE  IInv'
  BY <1>2, AcquiresInv
<1>3. ASSUME NEW r \in Runtimes, Allocates(r) PROVE IInv'
  BY <1>3, AllocatesInv
<1>4. ASSUME NEW r \in Runtimes, AllocationFails(r) PROVE IInv'
  <2>1. result' \in [Runtimes -> Results]
    BY <1>4 DEF AllocationFails, IInv, TypeOK, Results
  <2> QED
    BY <1>4, <2>1, ReleaseInv DEF AllocationFails
<1>5. ASSUME NEW r \in Runtimes, RuntimeFree(r) PROVE IInv'
  BY <1>5, RuntimeFreeInv
<1>6. ASSUME NEW r \in Runtimes, Releases(r) PROVE IInv'
  <2>1. result' \in [Runtimes -> Results]
    BY <1>6 DEF Releases, IInv, TypeOK
  <2> QED
    BY <1>6, <2>1, ReleaseInv DEF Releases
<1>7. ASSUME NEW r \in Runtimes, NEW o \in Objects, ObjectCreate(o, r)
      PROVE  IInv'
  BY <1>7, ObjectCreateInv
<1>8. ASSUME NEW r \in Runtimes, NEW o \in Objects, ObjectFree(o, r)
      PROVE  IInv'
  BY <1>8, ObjectFreeInv
<1> HIDE DEF IInv
<1> QED
  BY <1>1, <1>2, <1>3, <1>4, <1>5, <1>6, <1>7, <1>8 DEF Next

LEMMA Invariance == Spec => []IInv
BY InitInv, StepInv, PTL DEF Spec

-----------------------------------------------------------------------------
(* What it means *)

\* The variables keep their types; above all, the counter of the process-wide
\* runtime never passes its limit (runtime.c, global_acquire).
THEOREM TypeCorrect == Spec => []TypeOK
BY Invariance, PTL DEF IInv

\* A session verifies its peers with the trust anchors and the libraries it
\* was created with (runtime.c, global_acquire and global_release).
THEOREM OwnTrust == Spec => []TrustIsOwn
BY Invariance, PTL DEF IInv

\* No trust anchor outlives the sessions that brought it (runtime.c,
\* clear_trust_locked).
THEOREM TrustReleased == Spec => []TrustGone
BY Invariance, PTL DEF IInv

\* A cache or a connection never points to a runtime whose memory has been
\* given back (runtime.c, foxreq_real_runtime_retain and _release).
THEOREM RuntimeOutlives == Spec => []ObjectsKeepRuntime
<1>1. IInv => ObjectsKeepRuntime
  BY DEF IInv, TypeOK, RefsInv, ObjectsKeepRuntime, Owned
<1> QED
  BY <1>1, Invariance, PTL

\* Whatever succeeds or fails, the libraries that were loaded first stay
\* (runtime.c, global_acquire).
THEOREM LoadedOnce == Spec => LoadedForGood
<1>1. ASSUME [Next]_vars
      PROVE  [loaded # NoConfig => loaded' = loaded]_vars
  BY <1>1 DEF Next, vars, globalVars, Acquires, AcquiresFirst, AcquiresAgain,
     AcquiresShared, Allocates, AllocationFails, GlobalRelease, RuntimeFree,
     Releases, ObjectCreate, ObjectFree
<1> QED
  BY <1>1, PTL DEF Spec, LoadedForGood

-----------------------------------------------------------------------------
(* Multiples of the timeout *)

LEMMA Distributes ==
  ASSUME NEW a \in Nat, NEW t \in Nat
  PROVE  /\ a * t \in Nat /\ (a + 1) * t = a * t + t
  BY SMT

LEMMA Grows ==
  ASSUME NEW a \in Nat, NEW b \in Nat, NEW t \in Nat, a <= b
  PROVE  a * t <= b * t
<1>1. PICK d \in Nat : b = a + d
  <2>1. b - a \in Nat /\ b = a + (b - a)
    BY SMT
  <2> QED
    BY <2>1
<1>2. b * t = a * t + d * t
  BY <1>1, SMT
<1>3. d * t >= 0 /\ a * t \in Nat /\ d * t \in Nat
  BY SMT
<1> QED
  BY <1>2, <1>3, SMT

\* What connecting may take when n of the addresses have had their wait.
Spent(n) == ResolverTime + n * Timeout

LEMMA SpentIs ==
  /\ Spent(0) = ResolverTime /\ ResolverTime \in Nat
  /\ \A n \in Nat : Spent(n) \in Nat /\ Spent(n + 1) = Spent(n) + Timeout
  /\ \A m, n \in Nat : m <= n => Spent(m) <= Spent(n)
  /\ Timeout <= Spent(MaxAddresses + 1)
<1>1. Timeout \in Nat /\ ResolverTime \in Nat /\ MaxAddresses \in Nat
  BY TimesAssumption
<1>2. 0 * Timeout = 0
  BY <1>1, SMT
<1>3. \A n \in Nat : Spent(n) \in Nat /\ Spent(n + 1) = Spent(n) + Timeout
  BY <1>1, Distributes, SMT DEF Spent
<1>4. \A m, n \in Nat : m <= n => Spent(m) <= Spent(n)
  <2> SUFFICES ASSUME NEW m \in Nat, NEW n \in Nat, m <= n
               PROVE  Spent(m) <= Spent(n)
    OBVIOUS
  <2>1. m * Timeout <= n * Timeout
    BY <1>1, Grows
  <2>2. m * Timeout \in Nat /\ n * Timeout \in Nat
    BY <1>1, Distributes
  <2> QED
    BY <1>1, <2>1, <2>2, SMT DEF Spent
<1>5. Timeout <= Spent(MaxAddresses + 1)
  <2>1. Spent(MaxAddresses) \in Nat /\ Spent(MaxAddresses + 1) = Spent(MaxAddresses) + Timeout
    BY <1>1, <1>3
  <2> HIDE DEF Spent
  <2> QED
    BY <1>1, <2>1, SMT
<1>6. Spent(0) = ResolverTime
  BY <1>1, <1>2, SMT DEF Spent
<1> QED
  BY <1>1, <1>3, <1>4, <1>5, <1>6

-----------------------------------------------------------------------------
(* Types *)

LEMMA ConnectionInitTypes == ConnectionInit => ConnectionTypeOK
<1> SUFFICES ASSUME ConnectionInit PROVE ConnectionTypeOK
  OBVIOUS
<1>1. addresses \in 0 .. MaxAddresses /\ releases \in 0 .. 1 /\ now \in Nat /\ until \in Nat
  BY TimesAssumption, SMT DEF ConnectionInit
<1>2. insecure \in BOOLEAN /\ shut \in BOOLEAN
  BY Zenon DEF ConnectionInit
<1>3. phase \in Phases /\ descriptor \in Descriptors
  BY SMT DEF ConnectionInit, Phases, Waits, Descriptors
<1>4. trouble \in Troubles /\ outcome \in Errors \cup {"none"}
  BY SMT DEF ConnectionInit, Troubles, Errors
<1>5. protocol \in {"unknown", "http/1.1", "other"}
  BY SMT DEF ConnectionInit
<1>6. phase = "start" /\ descriptor = "none"
  BY DEF ConnectionInit
<1> QED
  BY <1>1, <1>2, <1>3, <1>4, <1>5, <1>6 DEF ConnectionTypeOK

\* The socket has not been given back while something owns it, nor before
\* there was one, and is owned from the connection of TCP to the first close.
OwnerInv ==
  /\ descriptor # "none" => releases = 0
  /\ phase \in {"start", "resolving", "connecting"} => releases = 0
  /\ phase = "importing" => descriptor \in {"socket", "transport"}

LEMMA TypesKept ==
  ConnectionTypeOK /\ OwnerInv /\ [ConnectionNext]_connectionVars
    => ConnectionTypeOK' /\ OwnerInv'
<1> SUFFICES ASSUME ConnectionTypeOK, OwnerInv, [ConnectionNext]_connectionVars
             PROVE  ConnectionTypeOK' /\ OwnerInv'
  OBVIOUS
<1> USE TimesAssumption DEF ConnectionTypeOK, OwnerInv, Phases, Waits, Descriptors, Errors,
   Troubles
<1>1. CASE Tick
  BY <1>1, SMT DEF Tick
<1>2. CASE Resolve
  BY <1>2, SMT DEF Resolve
<1>3. CASE Resolved
  BY <1>3, SMT DEF Resolved, TryAddress, Fails, Release
<1>4. CASE AddressFails
  BY <1>4, SMT DEF AddressFails, TryAddress, Fails, Release
<1>5. CASE Connected
  BY <1>5, SMT DEF Connected
<1>6. CASE Imports
  BY <1>6, SMT DEF Imports, Fails, Release
<1>7. CASE Configures
  BY <1>7, SMT DEF Configures, Fails, Release
<1>8. CASE Handshakes
  BY <1>8, SMT DEF Handshakes
<1>9. CASE HandshakeTimesOut
  BY <1>9, SMT DEF HandshakeTimesOut, Fails, Release
<1>10. ASSUME NEW why \in Troubles \ {"none"}, HandshakeFails(why)
       PROVE  ConnectionTypeOK' /\ OwnerInv'
  BY <1>10, SMT DEF HandshakeFails, Fails, Release, HandshakeError
<1>11. CASE Inspects
  BY <1>11, SMT DEF Inspects
<1>12. CASE Operates
  BY <1>12, SMT DEF Operates
<1>13. CASE OperationEnds
  BY <1>13, SMT DEF OperationEnds
<1>14. CASE ExchangeEnds
  BY <1>14, SMT DEF ExchangeEnds
<1>15. CASE Closes
  BY <1>15, SMT DEF Closes, Release
<1>16. CASE Drops
  BY <1>16, SMT DEF Drops, Release
<1>17. CASE UNCHANGED connectionVars
  BY <1>17, SMT DEF connectionVars
<1> QED
  BY <1>1, <1>2, <1>3, <1>4, <1>5, <1>6, <1>7, <1>8, <1>9, <1>10, <1>11, <1>12,
     <1>13, <1>14, <1>15, <1>16, <1>17 DEF ConnectionNext, Steps

-----------------------------------------------------------------------------
(* Time.  A wait ends in time, and what has been waited for is bounded by    *)
(* where the connection is.                                                  *)

TimeInv ==
  /\ phase \in Waits => now <= until
  /\ phase = "start" => now = 0
  /\ phase = "resolving" => until = ResolverTime
  /\ phase = "connecting" => until <= Spent(MaxAddresses - addresses)
  /\ phase \in {"importing", "configuring"} => now <= Spent(MaxAddresses)
  /\ phase = "handshaking" => until <= Spent(MaxAddresses + 1)
  /\ phase = "waiting" => until = Timeout
  /\ now <= Spent(MaxAddresses + 1)

LEMMA TimeKept == ConnectionTypeOK /\ TimeInv /\ [ConnectionNext]_connectionVars => TimeInv'
<1> SUFFICES ASSUME ConnectionTypeOK, TimeInv, [ConnectionNext]_connectionVars PROVE TimeInv'
  OBVIOUS
<1> USE DEF ConnectionTypeOK, TimeInv, Waits
<1>c. Timeout \in Nat \ {0} /\ MaxAddresses \in Nat /\ ResolverTime \in Nat
  BY TimesAssumption
<1>s. /\ Spent(0) = ResolverTime
      /\ Spent(MaxAddresses) \in Nat
      /\ Spent(MaxAddresses + 1) = Spent(MaxAddresses) + Timeout
      /\ ResolverTime <= Spent(MaxAddresses)
      /\ Timeout <= Spent(MaxAddresses + 1)
  <2>1. 0 <= MaxAddresses /\ 0 \in Nat
    BY <1>c, SMT
  <2> QED
    BY <1>c, <2>1, SpentIs
<1>a. /\ MaxAddresses - addresses \in Nat
      /\ Spent(MaxAddresses - addresses) \in Nat
      /\ Spent(MaxAddresses - addresses + 1) = Spent(MaxAddresses - addresses) + Timeout
      /\ Spent(MaxAddresses - addresses) <= Spent(MaxAddresses)
  <2>1. MaxAddresses - addresses \in Nat /\ MaxAddresses - addresses <= MaxAddresses
    BY <1>c, SMT
  <2> QED
    BY <1>c, <2>1, SpentIs
<1>1. CASE Tick
  BY <1>1, <1>c, <1>s, <1>a, SMT DEF Tick
<1>2. CASE Resolve
  BY <1>2, <1>c, <1>s, <1>a, SMT DEF Resolve
<1>3. CASE Resolved
  <2>1. ASSUME NEW n \in 1 .. MaxAddresses, TryAddress(n - 1)
        PROVE  TimeInv'
    <3>1. /\ MaxAddresses - (n - 1) \in Nat /\ 1 <= MaxAddresses - (n - 1)
          /\ 1 = 0 + 1 /\ 0 \in Nat /\ 1 \in Nat
      BY <1>c, SMT
    <3>2. Spent(1) = ResolverTime + Timeout /\ Spent(1) <= Spent(MaxAddresses - (n - 1))
      BY <3>1, SpentIs
    <3>3. addresses' = n - 1 /\ phase' = "connecting" /\ until' = now + Timeout
      BY <2>1 DEF TryAddress
    <3>4. now' = now /\ phase = "resolving"
      BY <1>3 DEF Resolved
    <3>5. now <= ResolverTime /\ now \in Nat
      BY <3>4
    <3>6. until' <= Spent(MaxAddresses - addresses')
      <4>1. Spent(MaxAddresses - (n - 1)) \in Nat
        BY <3>1, SpentIs
      <4> QED
        BY <1>c, <3>2, <3>3, <3>5, <4>1, SMT
    <3> QED
      BY <1>c, <1>s, <3>3, <3>4, <3>5, <3>6, SMT
  <2>2. CASE Fails("io") /\ UNCHANGED now
    BY <1>c, <1>s, <2>2, SMT DEF Fails
  <2> QED
    BY <1>3, <2>1, <2>2 DEF Resolved
<1>4. CASE AddressFails
  BY <1>4, <1>c, <1>s, <1>a, SMT DEF AddressFails, TryAddress, Fails, Release
<1>5. CASE Connected
  BY <1>5, <1>c, <1>s, <1>a, SMT DEF Connected
<1>6. CASE Imports
  BY <1>6, <1>c, <1>s, <1>a, SMT DEF Imports, Fails, Release
<1>7. CASE Configures
  BY <1>7, <1>c, <1>s, <1>a, SMT DEF Configures, Fails, Release
<1>8. CASE Handshakes
  BY <1>8, <1>c, <1>s, <1>a, SMT DEF Handshakes
<1>9. CASE HandshakeTimesOut
  BY <1>9, <1>c, <1>s, <1>a, SMT DEF HandshakeTimesOut, Fails, Release
<1>10. ASSUME NEW why \in Troubles \ {"none"}, HandshakeFails(why) PROVE TimeInv'
  BY <1>10, <1>c, <1>s, <1>a, SMT DEF HandshakeFails, Fails, Release
<1>11. CASE Inspects
  BY <1>11, <1>c, <1>s, <1>a, SMT DEF Inspects
<1>12. CASE Operates
  BY <1>12, <1>c, <1>s, <1>a, SMT DEF Operates
<1>13. CASE OperationEnds
  BY <1>13, <1>c, <1>s, <1>a, SMT DEF OperationEnds
<1>14. CASE ExchangeEnds
  BY <1>14, <1>c, <1>s, <1>a, SMT DEF ExchangeEnds
<1>15. CASE Closes
  BY <1>15, <1>c, <1>s, <1>a, SMT DEF Closes, Release
<1>16. CASE Drops
  BY <1>16, <1>c, <1>s, <1>a, SMT DEF Drops, Release
<1>17. CASE UNCHANGED connectionVars
  BY <1>17, SMT DEF connectionVars
<1> QED
  BY <1>1, <1>2, <1>3, <1>4, <1>5, <1>6, <1>7, <1>8, <1>9, <1>10, <1>11, <1>12,
     <1>13, <1>14, <1>15, <1>16, <1>17 DEF ConnectionNext, Steps

-----------------------------------------------------------------------------
\* The inductive invariant.
ConnectionInv == ConnectionTypeOK /\ OwnerInv /\ TimeInv

LEMMA ConnectionInitInv == ConnectionInit => ConnectionInv
<1> SUFFICES ASSUME ConnectionInit PROVE ConnectionInv
  OBVIOUS
<1>1. ConnectionTypeOK
  BY ConnectionInitTypes
<1>2. OwnerInv
  BY SMT DEF ConnectionInit, OwnerInv
<1>3. 0 <= Spent(MaxAddresses + 1)
  BY SpentIs, TimesAssumption, SMT
<1>4. TimeInv
  BY <1>3, SMT DEF ConnectionInit, TimeInv, Waits
<1> QED
  BY <1>1, <1>2, <1>4 DEF ConnectionInv

LEMMA ConnectionInductive == ConnectionInv /\ [ConnectionNext]_connectionVars => ConnectionInv'
  BY TypesKept, TimeKept, Zenon DEF ConnectionInv

LEMMA ConnectionInvariance == ConnectionSpec => []ConnectionInv
  BY ConnectionInitInv, ConnectionInductive, PTL DEF ConnectionSpec

\* The variables keep their types, and the owner of the socket fits the phase.
THEOREM ConnectionTypeCorrect == ConnectionSpec => []ConnectionTypeOK
  BY ConnectionInvariance, PTL DEF ConnectionInv

\* The socket is closed exactly once, wherever an attempt fails and whether or
\* not PR_Close does.
THEOREM SocketReleasedOnce == ConnectionSpec => []ReleasedOnce
<1>1. ConnectionInv => ReleasedOnce
  BY SMT DEF ConnectionInv, ConnectionTypeOK, OwnerInv, ReleasedOnce
<1> QED
  BY <1>1, ConnectionInvariance, PTL

\* Connecting, and with it the whole request, takes no longer than the
\* resolver, a timeout for each address and one for the handshake.
THEOREM ConnectBounded == ConnectionSpec => []ConnectIsBounded
<1>1. ConnectionInv => ConnectIsBounded
  BY SMT DEF ConnectionInv, TimeInv, ConnectIsBounded, Spent
<1> QED
  BY <1>1, ConnectionInvariance, PTL

\* No read or write of the exchange outlasts the deadline of the request.
THEOREM ExchangesInTime == ConnectionSpec => []ExchangeInTime
<1>1. ConnectionInv => ExchangeInTime
  BY TimesAssumption, SMT DEF ConnectionInv, ConnectionTypeOK, TimeInv, Waits, ExchangeInTime
<1> QED
  BY <1>1, ConnectionInvariance, PTL

=============================================================================
