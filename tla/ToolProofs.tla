------------------------------ MODULE ToolProofs ------------------------------
(***************************************************************************)
(* Proofs about the repository's tools: those that fetch, lock and prepare *)
(* Firefox runtimes (RuntimeFiles), for any number of processes, paths and *)
(* files and any bounds on runs, interrupts and kills, with the rules they *)
(* consult (RuntimeLocks), for any locks and archives of any length; and   *)
(* the capture suite (BrowserCapture), for any number of handshakes and of *)
(* attempts, with the verdict (FingerprintEvidence) on any captures.       *)
(***************************************************************************)
EXTENDS RuntimeFiles, BrowserCapture, SequenceFolds, FiniteSetTheorems, TLAPS

-----------------------------------------------------------------------------
(* The files of the release tools *)

LEMMA InitTypes == Init => TypeOK
<1> SUFFICES ASSUME Init PROVE TypeOK
  OBVIOUS
<1>1. output \in [Outputs -> Directories]
  BY SMT DEF Init, NoFiles, NoDirectory, Contents, Directories
<1>2. tool \in [Processes -> Runs] /\ embedded \in Modules
  BY SMT DEF Init, NoTool, Runs, Modules
<1>3. part \in [Processes -> Contents \cup {"wrong"}] /\ temp \in [Processes -> BOOLEAN]
  BY SMT DEF Init, Contents
<1>4. lock \in [Paths -> LockTexts] /\ pc \in [Processes -> Places]
      /\ seen \in [Processes -> SUBSET Canonical]
  BY SMT DEF Init, LockTexts, Places
<1>5. cache \in {"absent", "wrong", "whole"} /\ runs \in Nat /\ interrupts \in Nat
      /\ kills \in Nat
  BY SMT DEF Init
<1>6. spoilt \in BOOLEAN /\ prepared \subseteq Outputs /\ released \subseteq Paths
  BY Zenon DEF Init
<1> QED
  BY <1>1, <1>2, <1>3, <1>4, <1>5, <1>6, Zenon DEF TypeOK

LEMMA TypesKept == TypeOK /\ [Next]_vars => TypeOK'
<1> SUFFICES ASSUME TypeOK, [Next]_vars PROVE TypeOK'
  OBVIOUS
<1> USE DEF TypeOK, Contents, Places
<1>l. ASSUME NEW p \in Processes, tool[p].does = "lock"
      PROVE  tool[p].path \in Paths /\ tool[p].key \in Keys
  BY <1>l, SMT DEF Runs, LockRuns, Run, Outputs
<1>e. ASSUME NEW p \in Processes, Ends(p)
      PROVE  /\ pc' \in [Processes -> Places] /\ tool' \in [Processes -> Runs]
             /\ seen' \in [Processes -> SUBSET Canonical]
  <2>1. NoTool \in Runs
    BY Zenon DEF NoTool, Runs
  <2>2. "idle" \in Places /\ {} \in SUBSET Canonical
    OBVIOUS
  <2> HIDE DEF Places
  <2> QED
    BY <1>e, <2>1, <2>2, Zenon DEF Ends, Goes
<1>1. ASSUME NEW p \in Processes, FetchBegins(p) PROVE TypeOK'
  <2>1. pc' \in [Processes -> Places]
    BY <1>1, SMT DEF FetchBegins, Run, Goes
  <2>2. tool' \in [Processes -> Runs]
    BY <1>1, SMT DEF FetchBegins, Run, Runs
  <2>3. runs' \in Nat
    BY <1>1, SMT DEF FetchBegins, Run
  <2> QED
    BY <1>1, <2>1, <2>2, <2>3, Zenon DEF FetchBegins, Run, ghosts, faults, files
<1>2. ASSUME NEW p \in Processes, FetchOpens(p) PROVE TypeOK'
  BY <1>2, SMT DEF FetchOpens, At, Goes, ghosts, faults
<1>3. ASSUME NEW p \in Processes, FetchReceives(p) PROVE TypeOK'
  BY <1>3, SMT DEF FetchReceives, At, Goes, ghosts, faults
<1>4. ASSUME NEW p \in Processes, FetchReplaces(p) PROVE TypeOK'
  BY <1>4, SMT DEF FetchReplaces, At, Ends, ghosts, faults, Goes, NoTool, Runs
<1>5. ASSUME NEW p \in Processes, BrowserCopied(p) PROVE TypeOK'
  BY <1>5, SMT DEF BrowserCopied, At, Goes, files, ghosts, faults
<1>6. ASSUME NEW p \in Processes, LockExtracts(p) PROVE TypeOK'
  BY <1>6, SMT DEF LockExtracts, At, Goes, ghosts, faults
<1>7. ASSUME NEW p \in Processes, LockCreates(p) PROVE TypeOK'
  <2>1. pc' \in [Processes -> Places]
    BY <1>7, SMT DEF LockCreates, At, Goes
  <2>2. lock' \in [Paths -> LockTexts]
    <3>1. "partial" \in LockTexts
      BY DEF LockTexts
    <3> QED
      BY <1>7, <3>1, Zenon DEF LockCreates
  <2> QED
    BY <1>7, <2>1, <2>2, Zenon DEF LockCreates, ghosts, faults, files
<1>8. ASSUME NEW p \in Processes, LockWrites(p) PROVE TypeOK'
  <2>1. pc' \in [Processes -> Places]
    BY <1>8, SMT DEF LockWrites, At, Goes
  <2>2. lock' \in [Paths -> LockTexts]
    BY <1>8, <1>l, SMT DEF LockWrites, At, LockTexts
  <2>3. temp' \in [Processes -> BOOLEAN]
    BY <1>8, SMT DEF LockWrites, At, Runs, Outputs
  <2> QED
    BY <1>8, <2>1, <2>2, <2>3, Zenon DEF LockWrites, ghosts, faults, files
<1>9. ASSUME NEW p \in Processes, RegenerateLists(p) PROVE TypeOK'
  BY <1>9, SMT DEF RegenerateLists, At, Goes, files, faults
<1>10. ASSUME NEW p \in Processes, RegenerateReads(p) PROVE TypeOK'
  <2>1. /\ pc' \in [Processes -> Places] /\ tool' \in [Processes -> Runs]
        /\ seen' \in [Processes -> SUBSET Canonical]
    BY <1>10, <1>e, SMT DEF RegenerateReads, Goes
  <2> QED
    BY <1>10, <2>1, Zenon DEF RegenerateReads, ghosts, faults, files
<1>11. ASSUME NEW p \in Processes, RegenerateTruncates(p) PROVE TypeOK'
  BY <1>11, SMT DEF RegenerateTruncates, At, Goes, ghosts, faults, Modules
<1>12. ASSUME NEW p \in Processes, RegenerateWrites(p) PROVE TypeOK'
  <2>1. tool[p].path \in Paths
    BY <1>12, <1>l DEF RegenerateWrites, At
  <2>2. /\ pc' \in [Processes -> Places] /\ tool' \in [Processes -> Runs]
        /\ seen' \in [Processes -> SUBSET Canonical]
    BY <1>12, <1>e DEF RegenerateWrites
  <2>3. embedded' \in Modules
    BY <1>12, <2>1, SMT DEF RegenerateWrites, Modules
  <2>4. released' \subseteq Paths
    BY <1>12, <2>1, SMT DEF RegenerateWrites
  <2> QED
    BY <1>12, <2>2, <2>3, <2>4, Zenon DEF RegenerateWrites, ghosts, faults, files
<1>13. ASSUME NEW p \in Processes, Raises(p) PROVE TypeOK'
  <2>1. /\ pc' \in [Processes -> Places] /\ tool' \in [Processes -> Runs]
        /\ seen' \in [Processes -> SUBSET Canonical]
    BY <1>13, <1>e DEF Raises, Stops
  <2>2. /\ part' \in [Processes -> Contents \cup {"wrong"}]
        /\ temp' \in [Processes -> BOOLEAN] /\ spoilt' \in BOOLEAN
    BY <1>13, SMT DEF Raises, FinallyRuns, Stops, At
  <2>3. output' \in [Outputs -> Directories]
    <3>1. NoDirectory \in Directories
      BY SMT DEF NoDirectory, NoFiles, Directories
    <3> QED
      BY <1>13, <3>1, Zenon DEF Raises
  <2> QED
    BY <1>13, <2>1, <2>2, <2>3, Zenon DEF Raises, faults
<1>14. ASSUME NEW p \in Processes, Interrupted(p) PROVE TypeOK'
  BY <1>14, SMT DEF Interrupted, Stops, FinallyRuns, At, Ends, Goes, NoTool, Runs
<1>15. ASSUME NEW p \in Processes, Killed(p) PROVE TypeOK'
  BY <1>15, SMT DEF Killed, Stops, files, At, Ends, Goes, NoTool, Runs
<1>16. ASSUME NEW p \in Processes, NEW o \in Outputs, PrepareExtracts(p, o)
       PROVE  TypeOK'
  BY <1>16, SMT DEF PrepareExtracts, At, Goes, ghosts, faults
<1>17. ASSUME NEW p \in Processes, NEW o \in Outputs, PrepareMakes(p, o) PROVE TypeOK'
  <2>1. pc' \in [Processes -> Places]
    BY <1>17, SMT DEF PrepareMakes, At, Goes
  <2>2. output' \in [Outputs -> Directories]
    <3> DEFINE yes == TRUE
    <3>0. yes \in BOOLEAN
      OBVIOUS
    <3> HIDE DEF yes
    <3>1. [output[o] EXCEPT !.exists = yes] \in Directories
      BY <3>0, SMT DEF Directories
    <3> QED
      BY <1>17, <3>1, Zenon DEF PrepareMakes, yes
  <2> QED
    BY <1>17, <2>1, <2>2, Zenon DEF PrepareMakes, ghosts, faults, files
<1>18. ASSUME NEW p \in Processes, NEW o \in Outputs, PrepareCopies(p, o) PROVE TypeOK'
  <2>1. output' \in [Outputs -> Directories]
    <3>1. PICK f \in Files, next \in {"partial", "whole"} :
            output' = [output EXCEPT ![o].files[f] = next]
      BY <1>18, Zenon DEF PrepareCopies
    <3>2. [output[o].files EXCEPT ![f] = next] \in [Files -> Contents]
      BY SMT DEF Directories
    <3>3. [output[o] EXCEPT !.files = [output[o].files EXCEPT ![f] = next]] \in Directories
      BY <3>2, SMT DEF Directories
    <3>4. output' = [output EXCEPT ![o] =
             [output[o] EXCEPT !.files = [output[o].files EXCEPT ![f] = next]]]
      BY <3>1
    <3> QED
      BY <3>3, <3>4, Zenon
  <2> QED
    BY <1>18, <2>1, Zenon DEF PrepareCopies, ghosts, faults, files
<1>19. ASSUME NEW p \in Processes, NEW o \in Outputs, PrepareReturns(p, o) PROVE TypeOK'
  <2>1. temp' \in [Processes -> BOOLEAN] /\ prepared' \subseteq Outputs
    BY <1>19, SMT DEF PrepareReturns
  <2> QED
    BY <1>19, <1>e, <2>1, Zenon DEF PrepareReturns, files, faults
<1>20. ASSUME NEW p \in Processes, NEW o \in Outputs, PrepareBegins(p, o)
       PROVE  TypeOK'
  <2>1. Run(o) \in Runs
    BY Zenon DEF Runs
  <2>2. tool' \in [Processes -> Runs]
    BY <1>20, <2>1, Zenon DEF PrepareBegins, Starts
  <2>3. pc' \in [Processes -> Places] /\ runs' \in Nat
    BY <1>20, SMT DEF PrepareBegins, Starts, Goes
  <2> QED
    BY <1>20, <2>2, <2>3, Zenon DEF PrepareBegins, files, ghosts, faults
<1>21. ASSUME NEW p \in Processes, NEW run \in LockRuns, LockBegins(p, run) PROVE TypeOK'
  BY <1>21, SMT DEF LockBegins, Goes, Starts, Run, files, ghosts, faults, Runs
<1>22. ASSUME NEW o \in Outputs, UserRemoves(o) PROVE TypeOK'
  BY <1>22, SMT DEF UserRemoves, NoDirectory, faults, NoFiles, Directories
<1>23. ASSUME NEW p \in Processes, LockReturns(p) PROVE TypeOK'
  BY <1>23, <1>e, Zenon DEF LockReturns, files, ghosts, faults
<1>24. CASE UNCHANGED vars
  BY <1>24, SMT DEF vars, files
<1> QED
  BY <1>1, <1>2, <1>3, <1>4, <1>5, <1>6, <1>7, <1>8, <1>9, <1>10, <1>11, <1>12,
     <1>13, <1>14, <1>15, <1>16, <1>17, <1>18, <1>19, <1>20, <1>21, <1>22,
     <1>23, <1>24 DEF Next

-----------------------------------------------------------------------------
(* Prepared outputs.  Whoever has made an output may remove it again; it is  *)
(* the only one, and has not reported the output yet.                        *)

Owns(p, o) == tool[p].does = o /\ pc[p] \in {"copy", "check"}

OwnerInv ==
  \A p, q \in Processes, o \in Outputs :
    Owns(p, o) => /\ output[o].exists /\ o \notin prepared
                  /\ Owns(q, o) => p = q

\* What is reported is complete.
LEMMA ReturnsComplete ==
  ASSUME TypeOK, OwnerInv, NEW p \in Processes, NEW o \in Outputs, PrepareReturns(p, o)
  PROVE  output[o] = Complete
<1>1. Owns(p, o) /\ output[o].files = AllWhole
  BY SMT DEF PrepareReturns, At, Owns
<1>2. output[o].exists
  BY <1>1 DEF OwnerInv
<1>3. output[o] \in Directories
  BY DEF TypeOK
<1> QED
  BY <1>1, <1>2, <1>3, Zenon DEF Complete, Directories

LEMMA OwnerKept ==
  TypeOK /\ PreparedStaysLocked /\ OwnerInv /\ [Next]_vars
    => PreparedStaysLocked' /\ OwnerInv'
<1> SUFFICES ASSUME TypeOK, PreparedStaysLocked, OwnerInv, [Next]_vars
             PROVE  PreparedStaysLocked' /\ OwnerInv'
  OBVIOUS
<1>t. /\ tool \in [Processes -> Runs] /\ pc \in [Processes -> Places]
      /\ output \in [Outputs -> Directories] /\ prepared \subseteq Outputs
  BY DEF TypeOK
<1>c. Complete.exists
  BY Zenon DEF Complete
<1> USE DEF PreparedStaysLocked, OwnerInv, Owns
<1>1. ASSUME NEW p \in Processes, FetchBegins(p) PROVE PreparedStaysLocked' /\ OwnerInv'
  BY <1>1, <1>t, SMT DEF FetchBegins, Run, Goes, files, ghosts, faults
<1>2. ASSUME NEW p \in Processes, FetchOpens(p) PROVE PreparedStaysLocked' /\ OwnerInv'
  BY <1>2, <1>t, SMT DEF FetchOpens, At, Goes, ghosts, faults
<1>3. ASSUME NEW p \in Processes, FetchReceives(p)
      PROVE  PreparedStaysLocked' /\ OwnerInv'
  BY <1>3, <1>t, SMT DEF FetchReceives, At, Goes, ghosts, faults
<1>4. ASSUME NEW p \in Processes, FetchReplaces(p)
      PROVE  PreparedStaysLocked' /\ OwnerInv'
  BY <1>4, <1>t, SMT DEF FetchReplaces, At, Ends, ghosts, faults, Goes, NoTool, Run
<1>5. ASSUME NEW p \in Processes, BrowserCopied(p)
      PROVE  PreparedStaysLocked' /\ OwnerInv'
  BY <1>5, <1>t, SMT DEF BrowserCopied, At, Goes, files, ghosts, faults
<1>6. ASSUME NEW p \in Processes, LockExtracts(p)
      PROVE  PreparedStaysLocked' /\ OwnerInv'
  BY <1>6, <1>t, SMT DEF LockExtracts, At, Goes, ghosts, faults
<1>7. ASSUME NEW p \in Processes, LockCreates(p) PROVE PreparedStaysLocked' /\ OwnerInv'
  BY <1>7, <1>t, SMT DEF LockCreates, At, Goes, ghosts, faults
<1>8. ASSUME NEW p \in Processes, LockWrites(p) PROVE PreparedStaysLocked' /\ OwnerInv'
  BY <1>8, <1>t, SMT DEF LockWrites, At, Goes, ghosts, faults
<1>9. ASSUME NEW p \in Processes, RegenerateLists(p)
      PROVE  PreparedStaysLocked' /\ OwnerInv'
  BY <1>9, <1>t, SMT DEF RegenerateLists, At, Goes, files, faults, Regenerating
<1>10. ASSUME NEW p \in Processes, RegenerateReads(p)
       PROVE  PreparedStaysLocked' /\ OwnerInv'
  BY <1>10, <1>t, SMT DEF RegenerateReads, At, Goes, Ends, files, ghosts, faults,
     NoTool, Run
<1>11. ASSUME NEW p \in Processes, RegenerateTruncates(p)
       PROVE  PreparedStaysLocked' /\ OwnerInv'
  BY <1>11, <1>t, SMT DEF RegenerateTruncates, At, Goes, ghosts, faults
<1>12. ASSUME NEW p \in Processes, RegenerateWrites(p)
       PROVE  PreparedStaysLocked' /\ OwnerInv'
  BY <1>12, <1>t, SMT DEF RegenerateWrites, At, Ends, faults, Goes, NoTool, Run
<1>13. ASSUME NEW p \in Processes, Raises(p) PROVE PreparedStaysLocked' /\ OwnerInv'
  BY <1>13, <1>t, SMT DEF Raises, At, Stops, FinallyRuns, NoDirectory, faults,
     Ends, Goes, NoTool, Run, NoFiles
<1>14. ASSUME NEW p \in Processes, Interrupted(p)
       PROVE  PreparedStaysLocked' /\ OwnerInv'
  BY <1>14, <1>t, SMT DEF Interrupted, Stops, FinallyRuns, At, Ends, Goes, NoTool, Run
<1>15. ASSUME NEW p \in Processes, Killed(p) PROVE PreparedStaysLocked' /\ OwnerInv'
  BY <1>15, <1>t, SMT DEF Killed, Stops, files, At, Ends, Goes, NoTool, Run
<1>16. ASSUME NEW p \in Processes, NEW o \in Outputs, PrepareExtracts(p, o)
       PROVE  PreparedStaysLocked' /\ OwnerInv'
  BY <1>16, <1>t, SMT DEF PrepareExtracts, At, Goes, ghosts, faults
<1>17. ASSUME NEW p \in Processes, NEW o \in Outputs, PrepareMakes(p, o)
       PROVE  PreparedStaysLocked' /\ OwnerInv'
  BY <1>17, <1>t, <1>c, SMT DEF PrepareMakes, At, Goes, ghosts, faults
<1>18. ASSUME NEW p \in Processes, NEW o \in Outputs, PrepareCopies(p, o)
       PROVE  PreparedStaysLocked' /\ OwnerInv'
  BY <1>18, <1>t, SMT DEF PrepareCopies, At, files, ghosts, faults
<1>19. ASSUME NEW p \in Processes, NEW o \in Outputs, PrepareReturns(p, o)
       PROVE  PreparedStaysLocked' /\ OwnerInv'
  <2>1. output[o] = Complete
    BY <1>19, ReturnsComplete
  <2> QED
    BY <1>19, <2>1, <1>t, SMT DEF PrepareReturns, At, Ends, files, faults, Goes,
       NoTool, Run
<1>20. ASSUME NEW p \in Processes, NEW o \in Outputs, PrepareBegins(p, o)
       PROVE  PreparedStaysLocked' /\ OwnerInv'
  BY <1>20, <1>t, SMT DEF PrepareBegins, Goes, Starts, Run, files, ghosts, faults
<1>21. ASSUME NEW p \in Processes, NEW run \in LockRuns, LockBegins(p, run)
       PROVE  PreparedStaysLocked' /\ OwnerInv'
  BY <1>21, <1>t, SMT DEF LockBegins, Goes, Starts, Run, files, ghosts, faults
<1>22. ASSUME NEW o \in Outputs, UserRemoves(o) PROVE PreparedStaysLocked' /\ OwnerInv'
  BY <1>22, <1>t, SMT DEF UserRemoves, NoDirectory, faults, NoFiles
<1>23. ASSUME NEW p \in Processes, LockReturns(p)
       PROVE  PreparedStaysLocked' /\ OwnerInv'
  BY <1>23, <1>t, SMT DEF LockReturns, At, Goes, Ends, files, ghosts, faults,
     NoTool, Run
<1>24. CASE UNCHANGED vars
  BY <1>24, <1>t, SMT DEF vars, files
<1> QED
  BY <1>1, <1>2, <1>3, <1>4, <1>5, <1>6, <1>7, <1>8, <1>9, <1>10, <1>11, <1>12,
     <1>13, <1>14, <1>15, <1>16, <1>17, <1>18, <1>19, <1>20, <1>21, <1>22,
     <1>23, <1>24
     DEF Next

\* As long as nothing was killed, files of its own are left with a process
\* only where its `finally` removes them.
LeftInv ==
  kills = 0 => \A p \in Processes :
    /\ part[p] # "absent" => tool[p].does = "fetch" /\ pc[p] \in {"receive", "replace"}
    /\ temp[p] => /\ tool[p].does # "fetch"
                  /\ pc[p] \in {"make", "copy", "check", "create", "write"}

LEMMA LeftKept == TypeOK /\ LeftInv /\ [Next]_vars => LeftInv'
<1> SUFFICES ASSUME TypeOK, LeftInv, [Next]_vars PROVE LeftInv'
  OBVIOUS
<1>t. /\ tool \in [Processes -> Runs] /\ pc \in [Processes -> Places] /\ kills \in Nat
      /\ part \in [Processes -> Contents \cup {"wrong"}] /\ temp \in [Processes -> BOOLEAN]
  BY DEF TypeOK
<1> USE DEF LeftInv
<1>1. ASSUME NEW p \in Processes, FetchBegins(p) PROVE LeftInv'
  BY <1>1, <1>t, SMT DEF FetchBegins, Run, Goes, files, ghosts, faults
<1>2. ASSUME NEW p \in Processes, FetchOpens(p) PROVE LeftInv'
  BY <1>2, <1>t, SMT DEF FetchOpens, At, Goes, ghosts, faults
<1>3. ASSUME NEW p \in Processes, FetchReceives(p) PROVE LeftInv'
  BY <1>3, <1>t, SMT DEF FetchReceives, At, Goes, ghosts, faults
<1>4. ASSUME NEW p \in Processes, FetchReplaces(p) PROVE LeftInv'
  BY <1>4, <1>t, SMT DEF FetchReplaces, At, Ends, ghosts, faults, Goes, NoTool, Run
<1>5. ASSUME NEW p \in Processes, BrowserCopied(p) PROVE LeftInv'
  BY <1>5, <1>t, SMT DEF BrowserCopied, At, Goes, files, ghosts, faults
<1>6. ASSUME NEW p \in Processes, LockExtracts(p) PROVE LeftInv'
  BY <1>6, <1>t, SMT DEF LockExtracts, At, Goes, ghosts, faults
<1>7. ASSUME NEW p \in Processes, LockCreates(p) PROVE LeftInv'
  BY <1>7, <1>t, SMT DEF LockCreates, At, Goes, ghosts, faults
<1>8. ASSUME NEW p \in Processes, LockWrites(p) PROVE LeftInv'
  BY <1>8, <1>t, SMT DEF LockWrites, At, Goes, ghosts, faults
<1>9. ASSUME NEW p \in Processes, RegenerateLists(p) PROVE LeftInv'
  BY <1>9, <1>t, SMT DEF RegenerateLists, At, Goes, files, faults, Regenerating
<1>10. ASSUME NEW p \in Processes, RegenerateReads(p) PROVE LeftInv'
  BY <1>10, <1>t, SMT DEF RegenerateReads, At, Goes, Ends, files, ghosts, faults,
     NoTool, Run
<1>11. ASSUME NEW p \in Processes, RegenerateTruncates(p) PROVE LeftInv'
  BY <1>11, <1>t, SMT DEF RegenerateTruncates, At, Goes, ghosts, faults
<1>12. ASSUME NEW p \in Processes, RegenerateWrites(p) PROVE LeftInv'
  BY <1>12, <1>t, SMT DEF RegenerateWrites, At, Ends, faults, Goes, NoTool, Run
<1>13. ASSUME NEW p \in Processes, Raises(p) PROVE LeftInv'
  BY <1>13, <1>t, SMT DEF Raises, At, Stops, FinallyRuns, NoDirectory, faults,
     Ends, Goes, NoTool, Run, NoFiles
<1>14. ASSUME NEW p \in Processes, Interrupted(p) PROVE LeftInv'
  BY <1>14, <1>t, SMT DEF Interrupted, Stops, FinallyRuns, At, Ends, Goes, NoTool, Run
<1>15. ASSUME NEW p \in Processes, Killed(p) PROVE LeftInv'
  BY <1>15, <1>t, SMT DEF Killed, Stops, files, At, Ends, Goes, NoTool, Run
<1>16. ASSUME NEW p \in Processes, NEW o \in Outputs, PrepareExtracts(p, o)
       PROVE  LeftInv'
  BY <1>16, <1>t, SMT DEF PrepareExtracts, At, Goes, ghosts, faults, Outputs
<1>17. ASSUME NEW p \in Processes, NEW o \in Outputs, PrepareMakes(p, o) PROVE LeftInv'
  BY <1>17, <1>t, SMT DEF PrepareMakes, At, Goes, ghosts, faults
<1>18. ASSUME NEW p \in Processes, NEW o \in Outputs, PrepareCopies(p, o) PROVE LeftInv'
  BY <1>18, <1>t, SMT DEF PrepareCopies, At, files, ghosts, faults
<1>19. ASSUME NEW p \in Processes, NEW o \in Outputs, PrepareReturns(p, o)
       PROVE  LeftInv'
  BY <1>19, <1>t, SMT DEF PrepareReturns, At, Ends, files, faults, Goes, NoTool, Run
<1>20. ASSUME NEW p \in Processes, NEW o \in Outputs, PrepareBegins(p, o)
       PROVE  LeftInv'
  BY <1>20, <1>t, SMT DEF PrepareBegins, Goes, Starts, Run, files, ghosts, faults
<1>21. ASSUME NEW p \in Processes, NEW run \in LockRuns, LockBegins(p, run) PROVE LeftInv'
  BY <1>21, <1>t, SMT DEF LockBegins, Goes, Starts, Run, files, ghosts, faults
<1>22. ASSUME NEW o \in Outputs, UserRemoves(o) PROVE LeftInv'
  BY <1>22, <1>t, SMT DEF UserRemoves, NoDirectory, faults, NoFiles
<1>23. ASSUME NEW p \in Processes, LockReturns(p)
       PROVE  LeftInv'
  BY <1>23, <1>t, SMT DEF LockReturns, At, Goes, Ends, files, ghosts, faults,
     NoTool, Run
<1>24. CASE UNCHANGED vars
  BY <1>24, <1>t, SMT DEF vars, files
<1> QED
  BY <1>1, <1>2, <1>3, <1>4, <1>5, <1>6, <1>7, <1>8, <1>9, <1>10, <1>11, <1>12,
     <1>13, <1>14, <1>15, <1>16, <1>17, <1>18, <1>19, <1>20, <1>21, <1>22,
     <1>23, <1>24
     DEF Next

\* An incomplete runtime has an owner that goes on with it or removes it.
Unfinished == output["runtime"] \notin {NoDirectory, Complete}
RuntimeInv ==
  kills = 0 /\ interrupts = 0 /\ Unfinished => \E p \in Processes : At(p, "runtime", "copy")

LEMMA RuntimeKept ==
  TypeOK /\ RuntimeInv /\ OwnerInv /\ [Next]_vars => RuntimeInv'
<1> SUFFICES ASSUME TypeOK, RuntimeInv, OwnerInv, [Next]_vars PROVE RuntimeInv'
  OBVIOUS
<1>t. /\ tool \in [Processes -> Runs] /\ pc \in [Processes -> Places]
      /\ kills \in Nat /\ interrupts \in Nat
      /\ output \in [Outputs -> Directories] /\ prepared \subseteq Outputs
  BY DEF TypeOK
<1> USE DEF RuntimeInv, Unfinished, OwnerInv, Owns, At, Outputs
<1>1. ASSUME NEW p \in Processes, FetchBegins(p) PROVE RuntimeInv'
  BY <1>1, <1>t, SMT DEF FetchBegins, Run, Goes, files, ghosts, faults
<1>2. ASSUME NEW p \in Processes, FetchOpens(p) PROVE RuntimeInv'
  BY <1>2, <1>t, SMT DEF FetchOpens, At, Goes, ghosts, faults
<1>3. ASSUME NEW p \in Processes, FetchReceives(p) PROVE RuntimeInv'
  BY <1>3, <1>t, SMT DEF FetchReceives, At, Goes, ghosts, faults
<1>4. ASSUME NEW p \in Processes, FetchReplaces(p) PROVE RuntimeInv'
  BY <1>4, <1>t, SMT DEF FetchReplaces, At, Ends, ghosts, faults, Goes, NoTool, Run
<1>5. ASSUME NEW p \in Processes, BrowserCopied(p) PROVE RuntimeInv'
  BY <1>5, <1>t, SMT DEF BrowserCopied, At, Goes, files, ghosts, faults
<1>6. ASSUME NEW p \in Processes, LockExtracts(p) PROVE RuntimeInv'
  BY <1>6, <1>t, SMT DEF LockExtracts, At, Goes, ghosts, faults
<1>7. ASSUME NEW p \in Processes, LockCreates(p) PROVE RuntimeInv'
  BY <1>7, <1>t, SMT DEF LockCreates, At, Goes, ghosts, faults
<1>8. ASSUME NEW p \in Processes, LockWrites(p) PROVE RuntimeInv'
  BY <1>8, <1>t, SMT DEF LockWrites, At, Goes, ghosts, faults
<1>9. ASSUME NEW p \in Processes, RegenerateLists(p) PROVE RuntimeInv'
  BY <1>9, <1>t, SMT DEF RegenerateLists, At, Goes, files, faults, Regenerating
<1>10. ASSUME NEW p \in Processes, RegenerateReads(p) PROVE RuntimeInv'
  BY <1>10, <1>t, SMT DEF RegenerateReads, At, Goes, Ends, files, ghosts, faults,
     NoTool, Run
<1>11. ASSUME NEW p \in Processes, RegenerateTruncates(p) PROVE RuntimeInv'
  BY <1>11, <1>t, SMT DEF RegenerateTruncates, At, Goes, ghosts, faults
<1>12. ASSUME NEW p \in Processes, RegenerateWrites(p) PROVE RuntimeInv'
  BY <1>12, <1>t, SMT DEF RegenerateWrites, At, Ends, faults, Goes, NoTool, Run
<1>13. ASSUME NEW p \in Processes, Raises(p) PROVE RuntimeInv'
  BY <1>13, <1>t, SMT DEF Raises, At, Stops, FinallyRuns, NoDirectory, faults,
     Ends, Goes, NoTool, Run, NoFiles
<1>14. ASSUME NEW p \in Processes, Interrupted(p) PROVE RuntimeInv'
  BY <1>14, <1>t, SMT DEF Interrupted, Stops, FinallyRuns, At, Ends, Goes, NoTool, Run
<1>15. ASSUME NEW p \in Processes, Killed(p) PROVE RuntimeInv'
  BY <1>15, <1>t, SMT DEF Killed, Stops, files, At, Ends, Goes, NoTool, Run
<1>16. ASSUME NEW p \in Processes, NEW o \in Outputs, PrepareExtracts(p, o)
       PROVE  RuntimeInv'
  BY <1>16, <1>t, SMT DEF PrepareExtracts, At, Goes, ghosts, faults
<1>17. ASSUME NEW p \in Processes, NEW o \in Outputs, PrepareMakes(p, o)
       PROVE  RuntimeInv'
  BY <1>17, <1>t, SMT DEF PrepareMakes, At, Goes, ghosts, faults
<1>18. ASSUME NEW p \in Processes, NEW o \in Outputs, PrepareCopies(p, o)
       PROVE  RuntimeInv'
  BY <1>18, <1>t, SMT DEF PrepareCopies, At, files, ghosts, faults
<1>19. ASSUME NEW p \in Processes, NEW o \in Outputs, PrepareReturns(p, o)
       PROVE  RuntimeInv'
  <2>1. output[o] = Complete
    BY <1>19, ReturnsComplete
  <2> QED
    BY <1>19, <2>1, <1>t, SMT DEF PrepareReturns, At, Ends, files, faults, Goes,
       NoTool, Run
<1>20. ASSUME NEW p \in Processes, NEW o \in Outputs, PrepareBegins(p, o)
       PROVE  RuntimeInv'
  BY <1>20, <1>t, SMT DEF PrepareBegins, Goes, Starts, Run, files, ghosts, faults
<1>21. ASSUME NEW p \in Processes, NEW run \in LockRuns, LockBegins(p, run)
       PROVE  RuntimeInv'
  BY <1>21, <1>t, SMT DEF LockBegins, Goes, Starts, Run, files, ghosts, faults
<1>22. ASSUME NEW o \in Outputs, UserRemoves(o) PROVE RuntimeInv'
  BY <1>22, <1>t, SMT DEF UserRemoves, NoDirectory, faults, NoFiles
<1>23. ASSUME NEW p \in Processes, LockReturns(p)
       PROVE  RuntimeInv'
  BY <1>23, <1>t, SMT DEF LockReturns, At, Goes, Ends, files, ghosts, faults,
     NoTool, Run
<1>24. CASE UNCHANGED vars
  BY <1>24, <1>t, SMT DEF vars, files
<1> QED
  BY <1>1, <1>2, <1>3, <1>4, <1>5, <1>6, <1>7, <1>8, <1>9, <1>10, <1>11, <1>12,
     <1>13, <1>14, <1>15, <1>16, <1>17, <1>18, <1>19, <1>20, <1>21, <1>22,
     <1>23, <1>24
     DEF Next

-----------------------------------------------------------------------------
(* Locks, and the module that embeds them.  As long as regenerations have    *)
(* not overlapped, the one that runs has seen every release that was         *)
(* reported.                                                                 *)

\* A process that writes a lock has made the file, and is the only one that has.
WriterInv ==
  \A p, q \in Processes :
    At(p, "lock", "write") =>
      /\ lock[tool[p].path] = "partial"
      /\ At(q, "lock", "write") /\ tool[q].path = tool[p].path => p = q

LEMMA WriterKept ==
  TypeOK /\ WriterInv /\ [Next]_vars => WriterInv'
<1> SUFFICES ASSUME TypeOK, WriterInv, [Next]_vars PROVE WriterInv'
  OBVIOUS
<1>t. /\ tool \in [Processes -> Runs] /\ pc \in [Processes -> Places]
      /\ lock \in [Paths -> LockTexts]
      /\ \A p \in Processes : tool[p].does = "lock" => tool[p].path \in Paths
  BY SMT DEF TypeOK, Runs, LockRuns, Run, Outputs
<1> USE DEF WriterInv, At
<1>1. ASSUME NEW p \in Processes, FetchBegins(p) PROVE WriterInv'
  BY <1>1, <1>t, SMT DEF FetchBegins, Run, Goes, files, ghosts, faults
<1>2. ASSUME NEW p \in Processes, FetchOpens(p) PROVE WriterInv'
  BY <1>2, <1>t, SMT DEF FetchOpens, At, Goes, ghosts, faults
<1>3. ASSUME NEW p \in Processes, FetchReceives(p) PROVE WriterInv'
  BY <1>3, <1>t, SMT DEF FetchReceives, At, Goes, ghosts, faults
<1>4. ASSUME NEW p \in Processes, FetchReplaces(p) PROVE WriterInv'
  BY <1>4, <1>t, SMT DEF FetchReplaces, At, Ends, ghosts, faults, Goes, NoTool, Run
<1>5. ASSUME NEW p \in Processes, BrowserCopied(p) PROVE WriterInv'
  BY <1>5, <1>t, SMT DEF BrowserCopied, At, Goes, files, ghosts, faults
<1>6. ASSUME NEW p \in Processes, LockExtracts(p) PROVE WriterInv'
  BY <1>6, <1>t, SMT DEF LockExtracts, At, Goes, ghosts, faults
<1>7. ASSUME NEW p \in Processes, LockCreates(p) PROVE WriterInv'
  BY <1>7, <1>t, SMT DEF LockCreates, At, Goes, ghosts, faults
<1>8. ASSUME NEW p \in Processes, LockWrites(p) PROVE WriterInv'
  BY <1>8, <1>t, SMT DEF LockWrites, At, Goes, ghosts, faults
<1>9. ASSUME NEW p \in Processes, RegenerateLists(p) PROVE WriterInv'
  BY <1>9, <1>t, SMT DEF RegenerateLists, At, Goes, files, faults
<1>10. ASSUME NEW p \in Processes, RegenerateReads(p) PROVE WriterInv'
  BY <1>10, <1>t, SMT DEF RegenerateReads, At, Goes, Ends, files, ghosts, faults,
     NoTool, Run
<1>11. ASSUME NEW p \in Processes, RegenerateTruncates(p) PROVE WriterInv'
  BY <1>11, <1>t, SMT DEF RegenerateTruncates, At, Goes, ghosts, faults
<1>12. ASSUME NEW p \in Processes, RegenerateWrites(p) PROVE WriterInv'
  BY <1>12, <1>t, SMT DEF RegenerateWrites, At, Ends, faults, Goes, NoTool, Run
<1>13. ASSUME NEW p \in Processes, Raises(p) PROVE WriterInv'
  BY <1>13, <1>t, SMT DEF Raises, At, Stops, FinallyRuns, NoDirectory, faults,
     Ends, Goes, NoTool, Run, NoFiles
<1>14. ASSUME NEW p \in Processes, Interrupted(p) PROVE WriterInv'
  BY <1>14, <1>t, SMT DEF Interrupted, Stops, FinallyRuns, At, Ends, Goes, NoTool, Run
<1>15. ASSUME NEW p \in Processes, Killed(p) PROVE WriterInv'
  BY <1>15, <1>t, SMT DEF Killed, Stops, files, At, Ends, Goes, NoTool, Run
<1>16. ASSUME NEW p \in Processes, NEW o \in Outputs, PrepareExtracts(p, o)
       PROVE  WriterInv'
  BY <1>16, <1>t, SMT DEF PrepareExtracts, At, Goes, ghosts, faults
<1>17. ASSUME NEW p \in Processes, NEW o \in Outputs, PrepareMakes(p, o) PROVE WriterInv'
  BY <1>17, <1>t, SMT DEF PrepareMakes, At, Goes, ghosts, faults
<1>18. ASSUME NEW p \in Processes, NEW o \in Outputs, PrepareCopies(p, o)
       PROVE  WriterInv'
  BY <1>18, <1>t, SMT DEF PrepareCopies, At, files, ghosts, faults
<1>19. ASSUME NEW p \in Processes, NEW o \in Outputs, PrepareReturns(p, o)
       PROVE  WriterInv'
  BY <1>19, <1>t, SMT DEF PrepareReturns, At, Ends, files, faults, Goes, NoTool, Run
<1>20. ASSUME NEW p \in Processes, NEW o \in Outputs, PrepareBegins(p, o)
       PROVE  WriterInv'
  BY <1>20, <1>t, SMT DEF PrepareBegins, Goes, Starts, Run, files, ghosts, faults
<1>21. ASSUME NEW p \in Processes, NEW run \in LockRuns, LockBegins(p, run) PROVE WriterInv'
  BY <1>21, <1>t, SMT DEF LockBegins, Goes, Starts, Run, files, ghosts, faults
<1>22. ASSUME NEW o \in Outputs, UserRemoves(o) PROVE WriterInv'
  BY <1>22, <1>t, SMT DEF UserRemoves, NoDirectory, faults, NoFiles
<1>23. ASSUME NEW p \in Processes, LockReturns(p)
       PROVE  WriterInv'
  BY <1>23, <1>t, SMT DEF LockReturns, At, Goes, Ends, files, ghosts, faults,
     NoTool, Run
<1>24. CASE UNCHANGED vars
  BY <1>24, <1>t, SMT DEF vars, files
<1> QED
  BY <1>1, <1>2, <1>3, <1>4, <1>5, <1>6, <1>7, <1>8, <1>9, <1>10, <1>11, <1>12,
     <1>13, <1>14, <1>15, <1>16, <1>17, <1>18, <1>19, <1>20, <1>21, <1>22,
     <1>23, <1>24
     DEF Next

LEMMA WholeStays ==
  TypeOK /\ WriterInv /\ [Next]_vars =>
    \A f \in Paths : Whole(f) => lock'[f] = lock[f]
<1> SUFFICES ASSUME TypeOK, WriterInv, [Next]_vars, NEW f \in Paths, Whole(f)
             PROVE  lock'[f] = lock[f]
  OBVIOUS
<1>t. /\ lock \in [Paths -> LockTexts]
      /\ lock[f] # "absent" /\ lock[f] # "partial"
  BY LocksAssumption DEF TypeOK, Whole
<1>1. ASSUME NEW p \in Processes, FetchBegins(p) PROVE lock'[f] = lock[f]
  BY <1>1, <1>t, SMT DEF FetchBegins, Run, Goes, files, ghosts, faults
<1>2. ASSUME NEW p \in Processes, FetchOpens(p) PROVE lock'[f] = lock[f]
  BY <1>2, <1>t, SMT DEF FetchOpens, At, Goes, ghosts, faults
<1>3. ASSUME NEW p \in Processes, FetchReceives(p) PROVE lock'[f] = lock[f]
  BY <1>3, <1>t, SMT DEF FetchReceives, At, Goes, ghosts, faults
<1>4. ASSUME NEW p \in Processes, FetchReplaces(p) PROVE lock'[f] = lock[f]
  BY <1>4, <1>t, SMT DEF FetchReplaces, At, Ends, ghosts, faults, Goes, NoTool, Run
<1>5. ASSUME NEW p \in Processes, BrowserCopied(p) PROVE lock'[f] = lock[f]
  BY <1>5, <1>t, SMT DEF BrowserCopied, At, Goes, files, ghosts, faults
<1>6. ASSUME NEW p \in Processes, LockExtracts(p) PROVE lock'[f] = lock[f]
  BY <1>6, <1>t, SMT DEF LockExtracts, At, Goes, ghosts, faults
<1>7. ASSUME NEW p \in Processes, LockCreates(p) PROVE lock'[f] = lock[f]
  BY <1>7, <1>t, SMT DEF LockCreates, At, Goes, ghosts, faults
<1>8. ASSUME NEW p \in Processes, LockWrites(p) PROVE lock'[f] = lock[f]
  BY <1>8, <1>t, SMT DEF LockWrites, WriterInv, At, Goes, ghosts, faults
<1>9. ASSUME NEW p \in Processes, RegenerateLists(p) PROVE lock'[f] = lock[f]
  BY <1>9, <1>t, SMT DEF RegenerateLists, At, Goes, files, faults, Regenerating
<1>10. ASSUME NEW p \in Processes, RegenerateReads(p) PROVE lock'[f] = lock[f]
  BY <1>10, <1>t, SMT DEF RegenerateReads, At, Goes, Ends, files, ghosts, faults,
     NoTool, Run
<1>11. ASSUME NEW p \in Processes, RegenerateTruncates(p) PROVE lock'[f] = lock[f]
  BY <1>11, <1>t, SMT DEF RegenerateTruncates, At, Goes, ghosts, faults
<1>12. ASSUME NEW p \in Processes, RegenerateWrites(p) PROVE lock'[f] = lock[f]
  BY <1>12, <1>t, SMT DEF RegenerateWrites, At, Ends, faults, Goes, NoTool, Run
<1>13. ASSUME NEW p \in Processes, Raises(p) PROVE lock'[f] = lock[f]
  BY <1>13, <1>t, SMT DEF Raises, At, Stops, FinallyRuns, NoDirectory, faults,
     Ends, Goes, NoTool, Run, NoFiles
<1>14. ASSUME NEW p \in Processes, Interrupted(p) PROVE lock'[f] = lock[f]
  BY <1>14, <1>t, SMT DEF Interrupted, Stops, FinallyRuns, At, Ends, Goes, NoTool, Run
<1>15. ASSUME NEW p \in Processes, Killed(p) PROVE lock'[f] = lock[f]
  BY <1>15, <1>t, SMT DEF Killed, Stops, files, At, Ends, Goes, NoTool, Run
<1>16. ASSUME NEW p \in Processes, NEW o \in Outputs, PrepareExtracts(p, o)
       PROVE  lock'[f] = lock[f]
  BY <1>16, <1>t, SMT DEF PrepareExtracts, At, Goes, ghosts, faults
<1>17. ASSUME NEW p \in Processes, NEW o \in Outputs, PrepareMakes(p, o)
       PROVE  lock'[f] = lock[f]
  BY <1>17, <1>t, SMT DEF PrepareMakes, At, Goes, ghosts, faults
<1>18. ASSUME NEW p \in Processes, NEW o \in Outputs, PrepareCopies(p, o)
       PROVE  lock'[f] = lock[f]
  BY <1>18, <1>t, SMT DEF PrepareCopies, At, files, ghosts, faults
<1>19. ASSUME NEW p \in Processes, NEW o \in Outputs, PrepareReturns(p, o)
       PROVE  lock'[f] = lock[f]
  BY <1>19, <1>t, SMT DEF PrepareReturns, At, Ends, files, faults, Goes, NoTool, Run
<1>20. ASSUME NEW p \in Processes, NEW o \in Outputs, PrepareBegins(p, o)
       PROVE  lock'[f] = lock[f]
  BY <1>20, <1>t, SMT DEF PrepareBegins, Goes, Starts, Run, files, ghosts, faults
<1>21. ASSUME NEW p \in Processes, NEW run \in LockRuns, LockBegins(p, run)
       PROVE  lock'[f] = lock[f]
  BY <1>21, <1>t, SMT DEF LockBegins, Goes, Starts, Run, files, ghosts, faults
<1>22. ASSUME NEW o \in Outputs, UserRemoves(o) PROVE lock'[f] = lock[f]
  BY <1>22, <1>t, SMT DEF UserRemoves, NoDirectory, faults, NoFiles
<1>23. ASSUME NEW p \in Processes, LockReturns(p)
       PROVE  lock'[f] = lock[f]
  BY <1>23, <1>t, SMT DEF LockReturns, At, Goes, Ends, files, ghosts, faults,
     NoTool, Run
<1>24. CASE UNCHANGED vars
  BY <1>24, <1>t, SMT DEF vars, files
<1> QED
  BY <1>1, <1>2, <1>3, <1>4, <1>5, <1>6, <1>7, <1>8, <1>9, <1>10, <1>11, <1>12,
     <1>13, <1>14, <1>15, <1>16, <1>17, <1>18, <1>19, <1>20, <1>21, <1>22,
     <1>23, <1>24
     DEF Next

Beside(f, p) == Directory[f] = Directory[tool[p].path]

RegeneratorInv ==
  \A p \in Processes :
    /\ tool[p].does = "lock" /\ pc[p] \in {"list", "read", "truncate", "render"} =>
         Whole(tool[p].path)
    /\ Regenerating(p) /\ tool[p].path \in Canonical => tool[p].path \in seen[p]
    /\ Regenerating(p) /\ pc[p] # "read" =>
         (\A f \in seen[p] : Whole(f)) /\ OfDistinctKeys(seen[p])

WholeInv ==
  /\ \A f \in released : Whole(f)
  /\ \A f \in embedded.locks : Whole(f)
  /\ OfDistinctKeys(embedded.locks)

AloneInv ==
  ~spoilt => \A p, q \in Processes :
    Regenerating(p) =>
      /\ \A f \in released \cap Canonical : Beside(f, p) => f \in seen[p]
      /\ Regenerating(q) => p = q
      /\ pc[p] = "render" => embedded.text = "empty"

LEMMA RegeneratorKept ==
  TypeOK /\ WriterInv /\ RegeneratorInv /\ [Next]_vars => RegeneratorInv'
<1> SUFFICES ASSUME TypeOK, WriterInv, RegeneratorInv, [Next]_vars PROVE RegeneratorInv'
  OBVIOUS
<1>t. /\ tool \in [Processes -> Runs] /\ pc \in [Processes -> Places]
      /\ lock \in [Paths -> LockTexts] /\ seen \in [Processes -> SUBSET Canonical]
      /\ \A p \in Processes : tool[p].does = "lock" =>
           tool[p].path \in Paths /\ tool[p].key \in Keys
      /\ Canonical \subseteq Paths /\ "absent" \notin Keys /\ "partial" \notin Keys
  BY LocksAssumption, SMT DEF TypeOK, Runs, LockRuns, Run, Outputs
<1>w. \A f \in Paths : Whole(f) => lock'[f] = lock[f]
  BY WholeStays
<1> USE DEF RegeneratorInv, Regenerating, Whole, OfDistinctKeys
<1>1. ASSUME NEW p \in Processes, FetchBegins(p) PROVE RegeneratorInv'
  BY <1>1, <1>t, <1>w, SMT DEF FetchBegins, Run, Goes, files, ghosts, faults
<1>2. ASSUME NEW p \in Processes, FetchOpens(p) PROVE RegeneratorInv'
  BY <1>2, <1>t, <1>w, SMT DEF FetchOpens, At, Goes, ghosts, faults
<1>3. ASSUME NEW p \in Processes, FetchReceives(p) PROVE RegeneratorInv'
  BY <1>3, <1>t, <1>w, SMT DEF FetchReceives, At, Goes, ghosts, faults
<1>4. ASSUME NEW p \in Processes, FetchReplaces(p) PROVE RegeneratorInv'
  BY <1>4, <1>t, <1>w, SMT DEF FetchReplaces, At, Ends, ghosts, faults, Goes,
     NoTool, Run
<1>5. ASSUME NEW p \in Processes, BrowserCopied(p) PROVE RegeneratorInv'
  BY <1>5, <1>t, <1>w, SMT DEF BrowserCopied, At, Goes, files, ghosts, faults
<1>6. ASSUME NEW p \in Processes, LockExtracts(p) PROVE RegeneratorInv'
  BY <1>6, <1>t, <1>w, SMT DEF LockExtracts, At, Goes, ghosts, faults
<1>7. ASSUME NEW p \in Processes, LockCreates(p) PROVE RegeneratorInv'
  BY <1>7, <1>t, <1>w, SMT DEF LockCreates, At, Goes, ghosts, faults
<1>8. ASSUME NEW p \in Processes, LockWrites(p) PROVE RegeneratorInv'
  BY <1>8, <1>t, <1>w, SMT DEF LockWrites, At, Goes, ghosts, faults
<1>9. ASSUME NEW p \in Processes, RegenerateLists(p) PROVE RegeneratorInv'
  BY <1>9, <1>t, <1>w, SMT DEF RegenerateLists, At, Goes, files, faults,
     Regenerating
<1>10. ASSUME NEW p \in Processes, RegenerateReads(p) PROVE RegeneratorInv'
  BY <1>10, <1>t, <1>w, SMT DEF RegenerateReads, At, Goes, Ends, files, ghosts,
     faults, NoTool, Run
<1>11. ASSUME NEW p \in Processes, RegenerateTruncates(p) PROVE RegeneratorInv'
  BY <1>11, <1>t, <1>w, SMT DEF RegenerateTruncates, At, Goes, ghosts, faults
<1>12. ASSUME NEW p \in Processes, RegenerateWrites(p) PROVE RegeneratorInv'
  BY <1>12, <1>t, <1>w, SMT DEF RegenerateWrites, At, Ends, faults, Goes, NoTool, Run
<1>13. ASSUME NEW p \in Processes, Raises(p) PROVE RegeneratorInv'
  BY <1>13, <1>t, <1>w, SMT DEF Raises, At, Stops, FinallyRuns, NoDirectory,
     faults, Ends, Goes, NoTool, Run, NoFiles
<1>14. ASSUME NEW p \in Processes, Interrupted(p) PROVE RegeneratorInv'
  BY <1>14, <1>t, <1>w, SMT DEF Interrupted, Stops, FinallyRuns, At, Ends, Goes,
     NoTool, Run
<1>15. ASSUME NEW p \in Processes, Killed(p) PROVE RegeneratorInv'
  BY <1>15, <1>t, <1>w, SMT DEF Killed, Stops, files, At, Ends, Goes, NoTool, Run
<1>16. ASSUME NEW p \in Processes, NEW o \in Outputs, PrepareExtracts(p, o)
       PROVE  RegeneratorInv'
  BY <1>16, <1>t, <1>w, SMT DEF PrepareExtracts, At, Goes, ghosts, faults
<1>17. ASSUME NEW p \in Processes, NEW o \in Outputs, PrepareMakes(p, o)
       PROVE  RegeneratorInv'
  BY <1>17, <1>t, <1>w, SMT DEF PrepareMakes, At, Goes, ghosts, faults
<1>18. ASSUME NEW p \in Processes, NEW o \in Outputs, PrepareCopies(p, o)
       PROVE  RegeneratorInv'
  BY <1>18, <1>t, <1>w, SMT DEF PrepareCopies, At, files, ghosts, faults
<1>19. ASSUME NEW p \in Processes, NEW o \in Outputs, PrepareReturns(p, o)
       PROVE  RegeneratorInv'
  BY <1>19, <1>t, <1>w, SMT DEF PrepareReturns, At, Ends, files, faults, Goes,
     NoTool, Run
<1>20. ASSUME NEW p \in Processes, NEW o \in Outputs, PrepareBegins(p, o)
       PROVE  RegeneratorInv'
  BY <1>20, <1>t, <1>w, SMT DEF PrepareBegins, Goes, Starts, Run, files, ghosts, faults
<1>21. ASSUME NEW p \in Processes, NEW run \in LockRuns, LockBegins(p, run)
       PROVE  RegeneratorInv'
  BY <1>21, <1>t, <1>w, SMT DEF LockBegins, Goes, Starts, Run, files, ghosts, faults
<1>22. ASSUME NEW o \in Outputs, UserRemoves(o) PROVE RegeneratorInv'
  BY <1>22, <1>t, <1>w, SMT DEF UserRemoves, NoDirectory, faults, NoFiles
<1>23. ASSUME NEW p \in Processes, LockReturns(p)
       PROVE  RegeneratorInv'
  BY <1>23, <1>t, <1>w, SMT DEF LockReturns, At, Goes, Ends, files, ghosts, faults,
     NoTool, Run
<1>24. CASE UNCHANGED vars
  BY <1>24, <1>t, <1>w, SMT DEF vars, files
<1> QED
  BY <1>1, <1>2, <1>3, <1>4, <1>5, <1>6, <1>7, <1>8, <1>9, <1>10, <1>11, <1>12,
     <1>13, <1>14, <1>15, <1>16, <1>17, <1>18, <1>19, <1>20, <1>21, <1>22,
     <1>23, <1>24
     DEF Next

LEMMA WholeKept ==
  TypeOK /\ WriterInv /\ RegeneratorInv /\ WholeInv /\ [Next]_vars => WholeInv'
<1> SUFFICES ASSUME TypeOK, WriterInv, RegeneratorInv, WholeInv, [Next]_vars PROVE WholeInv'
  OBVIOUS
<1>t. /\ embedded.locks \subseteq Paths /\ released \subseteq Paths
      /\ seen \in [Processes -> SUBSET Paths]
  BY LocksAssumption, SMT DEF TypeOK, Modules
<1>w. \A f \in Paths : Whole(f) => lock'[f] = lock[f]
  BY WholeStays
<1> USE DEF WholeInv, Whole, OfDistinctKeys
<1>1. ASSUME NEW p \in Processes, FetchBegins(p) PROVE WholeInv'
  BY <1>1, <1>t, <1>w, SMT DEF FetchBegins, Run, Goes, files, ghosts, faults,
     Regenerating
<1>2. ASSUME NEW p \in Processes, FetchOpens(p) PROVE WholeInv'
  BY <1>2, <1>t, <1>w, SMT DEF FetchOpens, At, Goes, ghosts, faults, Regenerating
<1>3. ASSUME NEW p \in Processes, FetchReceives(p) PROVE WholeInv'
  BY <1>3, <1>t, <1>w, SMT DEF FetchReceives, At, Goes, ghosts, faults,
     Regenerating
<1>4. ASSUME NEW p \in Processes, FetchReplaces(p) PROVE WholeInv'
  BY <1>4, <1>t, <1>w, SMT DEF FetchReplaces, At, Ends, ghosts, faults, Goes,
     NoTool, Run, Regenerating
<1>5. ASSUME NEW p \in Processes, BrowserCopied(p) PROVE WholeInv'
  BY <1>5, <1>t, <1>w, SMT DEF BrowserCopied, At, Goes, files, ghosts, faults,
     Regenerating
<1>6. ASSUME NEW p \in Processes, LockExtracts(p) PROVE WholeInv'
  BY <1>6, <1>t, <1>w, SMT DEF LockExtracts, At, Goes, ghosts, faults, Regenerating
<1>7. ASSUME NEW p \in Processes, LockCreates(p) PROVE WholeInv'
  BY <1>7, <1>t, <1>w, SMT DEF LockCreates, At, Goes, ghosts, faults, Regenerating
<1>8. ASSUME NEW p \in Processes, LockWrites(p) PROVE WholeInv'
  BY <1>8, <1>t, <1>w, SMT DEF LockWrites, At, Goes, ghosts, faults, Regenerating
<1>9. ASSUME NEW p \in Processes, RegenerateLists(p) PROVE WholeInv'
  BY <1>9, <1>t, <1>w, SMT DEF RegenerateLists, At, Goes, files, faults,
     Regenerating
<1>10. ASSUME NEW p \in Processes, RegenerateReads(p) PROVE WholeInv'
  BY <1>10, <1>t, <1>w, SMT DEF RegenerateReads, At, Goes, Ends, files, ghosts,
     faults, NoTool, Run, Regenerating
<1>11. ASSUME NEW p \in Processes, RegenerateTruncates(p) PROVE WholeInv'
  BY <1>11, <1>t, <1>w, SMT DEF RegenerateTruncates, At, Goes, ghosts, faults,
     Regenerating
<1>12. ASSUME NEW p \in Processes, RegenerateWrites(p) PROVE WholeInv'
  BY <1>12, <1>t, <1>w, SMT DEF RegenerateWrites, RegeneratorInv, At, Ends, faults,
     Goes, NoTool, Run,
     Regenerating
<1>13. ASSUME NEW p \in Processes, Raises(p) PROVE WholeInv'
  BY <1>13, <1>t, <1>w, SMT DEF Raises, At, Stops, FinallyRuns, NoDirectory,
     faults, Ends, Goes, NoTool, Run, NoFiles, Regenerating
<1>14. ASSUME NEW p \in Processes, Interrupted(p) PROVE WholeInv'
  BY <1>14, <1>t, <1>w, SMT DEF Interrupted, Stops, FinallyRuns, At, Ends, Goes,
     NoTool, Run, Regenerating
<1>15. ASSUME NEW p \in Processes, Killed(p) PROVE WholeInv'
  BY <1>15, <1>t, <1>w, SMT DEF Killed, Stops, files, At, Ends, Goes, NoTool, Run,
     Regenerating
<1>16. ASSUME NEW p \in Processes, NEW o \in Outputs, PrepareExtracts(p, o)
       PROVE  WholeInv'
  BY <1>16, <1>t, <1>w, SMT DEF PrepareExtracts, At, Goes, ghosts, faults,
     Regenerating
<1>17. ASSUME NEW p \in Processes, NEW o \in Outputs, PrepareMakes(p, o) PROVE WholeInv'
  BY <1>17, <1>t, <1>w, SMT DEF PrepareMakes, At, Goes, ghosts, faults,
     Regenerating
<1>18. ASSUME NEW p \in Processes, NEW o \in Outputs, PrepareCopies(p, o)
       PROVE  WholeInv'
  BY <1>18, <1>t, <1>w, SMT DEF PrepareCopies, At, files, ghosts, faults,
     Regenerating
<1>19. ASSUME NEW p \in Processes, NEW o \in Outputs, PrepareReturns(p, o)
       PROVE  WholeInv'
  BY <1>19, <1>t, <1>w, SMT DEF PrepareReturns, At, Ends, files, faults, Goes,
     NoTool, Run, Regenerating
<1>20. ASSUME NEW p \in Processes, NEW o \in Outputs, PrepareBegins(p, o)
       PROVE  WholeInv'
  BY <1>20, <1>t, <1>w, SMT DEF PrepareBegins, Goes, Starts, Run, files, ghosts, faults,
     Regenerating
<1>21. ASSUME NEW p \in Processes, NEW run \in LockRuns, LockBegins(p, run) PROVE WholeInv'
  BY <1>21, <1>t, <1>w, SMT DEF LockBegins, Goes, Starts, Run, files, ghosts, faults,
     Regenerating
<1>22. ASSUME NEW o \in Outputs, UserRemoves(o) PROVE WholeInv'
  BY <1>22, <1>t, <1>w, SMT DEF UserRemoves, NoDirectory, faults, NoFiles,
     Regenerating
<1>23. ASSUME NEW p \in Processes, LockReturns(p)
       PROVE  WholeInv'
  BY <1>23, <1>t, <1>w, SMT DEF LockReturns, At, Goes, Ends, files, ghosts, faults,
     NoTool, Run,
     Regenerating
<1>24. CASE UNCHANGED vars
  BY <1>24, <1>t, <1>w, SMT DEF vars, files, Regenerating
<1> QED
  BY <1>1, <1>2, <1>3, <1>4, <1>5, <1>6, <1>7, <1>8, <1>9, <1>10, <1>11, <1>12,
     <1>13, <1>14, <1>15, <1>16, <1>17, <1>18, <1>19, <1>20, <1>21, <1>22,
     <1>23, <1>24
     DEF Next

LEMMA AloneKept ==
  TypeOK /\ RegeneratorInv /\ WholeInv /\ AloneInv /\ [Next]_vars => AloneInv'
<1> SUFFICES ASSUME TypeOK, RegeneratorInv, WholeInv, AloneInv, [Next]_vars
    PROVE  AloneInv'
  OBVIOUS
<1>t. /\ tool \in [Processes -> Runs] /\ pc \in [Processes -> Places]
      /\ lock \in [Paths -> LockTexts] /\ seen \in [Processes -> SUBSET Canonical]
      /\ released \subseteq Paths /\ spoilt \in BOOLEAN
      /\ Canonical \subseteq Paths /\ "absent" \notin Keys
  BY LocksAssumption DEF TypeOK
<1> USE DEF AloneInv, Regenerating, Beside
<1>1. ASSUME NEW p \in Processes, FetchBegins(p) PROVE AloneInv'
  BY <1>1, <1>t, SMT DEF FetchBegins, Run, Goes, files, ghosts, faults
<1>2. ASSUME NEW p \in Processes, FetchOpens(p) PROVE AloneInv'
  BY <1>2, <1>t, SMT DEF FetchOpens, At, Goes, ghosts, faults
<1>3. ASSUME NEW p \in Processes, FetchReceives(p) PROVE AloneInv'
  BY <1>3, <1>t, SMT DEF FetchReceives, At, Goes, ghosts, faults
<1>4. ASSUME NEW p \in Processes, FetchReplaces(p) PROVE AloneInv'
  BY <1>4, <1>t, SMT DEF FetchReplaces, At, Ends, ghosts, faults, Goes, NoTool, Run
<1>5. ASSUME NEW p \in Processes, BrowserCopied(p) PROVE AloneInv'
  BY <1>5, <1>t, SMT DEF BrowserCopied, At, Goes, files, ghosts, faults
<1>6. ASSUME NEW p \in Processes, LockExtracts(p) PROVE AloneInv'
  BY <1>6, <1>t, SMT DEF LockExtracts, At, Goes, ghosts, faults
<1>7. ASSUME NEW p \in Processes, LockCreates(p) PROVE AloneInv'
  BY <1>7, <1>t, SMT DEF LockCreates, At, Goes, ghosts, faults
<1>8. ASSUME NEW p \in Processes, LockWrites(p) PROVE AloneInv'
  BY <1>8, <1>t, SMT DEF LockWrites, At, Goes, ghosts, faults
<1>9. ASSUME NEW p \in Processes, RegenerateLists(p) PROVE AloneInv'
  <2>1. SUFFICES ASSUME ~spoilt' PROVE AloneInv'
    BY Zenon DEF AloneInv
  <2>2. \A q \in Processes : ~Regenerating(q)
    BY <1>9, <2>1, Zenon DEF RegenerateLists
  <2>3. \A f \in released : lock[f] # "absent"
    BY <1>t, SMT DEF WholeInv, Whole
  <2>4. \A f \in released' \cap Canonical : Beside(f, p)' => f \in seen'[p]
    BY <1>9, <1>t, <2>3, SMT DEF RegenerateLists, files
  <2>5. \A q \in Processes \ {p} : ~Regenerating(q)'
    BY <1>9, <1>t, <2>2, SMT DEF RegenerateLists, Goes, files
  <2>6. pc'[p] = "read"
    BY <1>9, <1>t, SMT DEF RegenerateLists, Goes
  <2> QED
    BY <2>4, <2>5, <2>6, SMT
<1>10. ASSUME NEW p \in Processes, RegenerateReads(p) PROVE AloneInv'
  BY <1>10, <1>t, SMT DEF RegenerateReads, At, Goes, Ends, files, ghosts, faults,
     NoTool, Run
<1>11. ASSUME NEW p \in Processes, RegenerateTruncates(p) PROVE AloneInv'
  BY <1>11, <1>t, SMT DEF RegenerateTruncates, At, Goes, ghosts, faults
<1>12. ASSUME NEW p \in Processes, RegenerateWrites(p) PROVE AloneInv'
  BY <1>12, <1>t, SMT DEF RegenerateWrites, At, Ends, faults, Goes, NoTool, Run
<1>13. ASSUME NEW p \in Processes, Raises(p) PROVE AloneInv'
  BY <1>13, <1>t, SMT DEF Raises, At, Stops, FinallyRuns, NoDirectory, faults,
     Ends, Goes, NoTool, Run, NoFiles
<1>14. ASSUME NEW p \in Processes, Interrupted(p) PROVE AloneInv'
  BY <1>14, <1>t, SMT DEF Interrupted, Stops, FinallyRuns, At, Ends, Goes, NoTool, Run
<1>15. ASSUME NEW p \in Processes, Killed(p) PROVE AloneInv'
  BY <1>15, <1>t, SMT DEF Killed, Stops, files, At, Ends, Goes, NoTool, Run
<1>16. ASSUME NEW p \in Processes, NEW o \in Outputs, PrepareExtracts(p, o)
       PROVE  AloneInv'
  BY <1>16, <1>t, SMT DEF PrepareExtracts, At, Goes, ghosts, faults
<1>17. ASSUME NEW p \in Processes, NEW o \in Outputs, PrepareMakes(p, o) PROVE AloneInv'
  BY <1>17, <1>t, SMT DEF PrepareMakes, At, Goes, ghosts, faults
<1>18. ASSUME NEW p \in Processes, NEW o \in Outputs, PrepareCopies(p, o)
       PROVE  AloneInv'
  BY <1>18, <1>t, SMT DEF PrepareCopies, At, files, ghosts, faults
<1>19. ASSUME NEW p \in Processes, NEW o \in Outputs, PrepareReturns(p, o)
       PROVE  AloneInv'
  BY <1>19, <1>t, SMT DEF PrepareReturns, At, Ends, files, faults, Goes, NoTool, Run
<1>20. ASSUME NEW p \in Processes, NEW o \in Outputs, PrepareBegins(p, o)
       PROVE  AloneInv'
  BY <1>20, <1>t, SMT DEF PrepareBegins, Goes, Starts, Run, files, ghosts, faults
<1>21. ASSUME NEW p \in Processes, NEW run \in LockRuns, LockBegins(p, run) PROVE AloneInv'
  BY <1>21, <1>t, SMT DEF LockBegins, Goes, Starts, Run, files, ghosts, faults
<1>22. ASSUME NEW o \in Outputs, UserRemoves(o) PROVE AloneInv'
  BY <1>22, <1>t, SMT DEF UserRemoves, NoDirectory, faults, NoFiles
<1>23. ASSUME NEW p \in Processes, LockReturns(p)
       PROVE  AloneInv'
  BY <1>23, <1>t, SMT DEF LockReturns, At, Goes, Ends, files, ghosts, faults,
     NoTool, Run
<1>24. CASE UNCHANGED vars
  BY <1>24, <1>t, SMT DEF vars, files
<1> QED
  BY <1>1, <1>2, <1>3, <1>4, <1>5, <1>6, <1>7, <1>8, <1>9, <1>10, <1>11, <1>12,
     <1>13, <1>14, <1>15, <1>16, <1>17, <1>18, <1>19, <1>20, <1>21, <1>22,
     <1>23, <1>24
     DEF Next

EmbedsAll ==
  /\ embedded.text = "whole"
  /\ \A f \in released \cap Canonical :
       Directory[f] = embedded.from => f \in embedded.locks

LEMMA EmbeddedKept ==
  TypeOK /\ RegeneratorInv /\ WholeInv /\ AloneInv /\ ReleasedIsEmbedded
      /\ WholeInv' /\ [Next]_vars
    => ReleasedIsEmbedded'
<1> SUFFICES ASSUME TypeOK, RegeneratorInv, WholeInv, AloneInv, ReleasedIsEmbedded,
                    WholeInv', [Next]_vars
             PROVE  ReleasedIsEmbedded'
  OBVIOUS
<1>k. ((\A f \in embedded.locks : Whole(f)) /\ OfDistinctKeys(embedded.locks))'
  BY DEF WholeInv
<1> SUFFICES ASSUME ~spoilt', ~(\E p \in Processes : At(p, "lock", "render"))'
               PROVE  EmbedsAll'
  BY <1>k, Zenon DEF ReleasedIsEmbedded, EmbedsAll
<1>t. /\ tool \in [Processes -> Runs] /\ pc \in [Processes -> Places]
      /\ released \subseteq Paths
  BY DEF TypeOK
<1> USE DEF ReleasedIsEmbedded, EmbedsAll
<1>1. ASSUME NEW p \in Processes, FetchBegins(p) PROVE EmbedsAll'
  BY <1>1, <1>t, SMT DEF FetchBegins, Run, Goes, files, ghosts, faults, At
<1>2. ASSUME NEW p \in Processes, FetchOpens(p) PROVE EmbedsAll'
  BY <1>2, <1>t, SMT DEF FetchOpens, At, Goes, ghosts, faults
<1>3. ASSUME NEW p \in Processes, FetchReceives(p) PROVE EmbedsAll'
  BY <1>3, <1>t, SMT DEF FetchReceives, At, Goes, ghosts, faults
<1>4. ASSUME NEW p \in Processes, FetchReplaces(p) PROVE EmbedsAll'
  BY <1>4, <1>t, SMT DEF FetchReplaces, At, Ends, ghosts, faults, Goes, NoTool, Run
<1>5. ASSUME NEW p \in Processes, BrowserCopied(p) PROVE EmbedsAll'
  BY <1>5, <1>t, SMT DEF BrowserCopied, At, Goes, files, ghosts, faults
<1>6. ASSUME NEW p \in Processes, LockExtracts(p) PROVE EmbedsAll'
  BY <1>6, <1>t, SMT DEF LockExtracts, At, Goes, ghosts, faults
<1>7. ASSUME NEW p \in Processes, LockCreates(p) PROVE EmbedsAll'
  BY <1>7, <1>t, SMT DEF LockCreates, At, Goes, ghosts, faults
<1>8. ASSUME NEW p \in Processes, LockWrites(p) PROVE EmbedsAll'
  BY <1>8, <1>t, SMT DEF LockWrites, At, Goes, ghosts, faults
<1>9. ASSUME NEW p \in Processes, RegenerateLists(p) PROVE EmbedsAll'
  <2>1. ~spoilt
    BY <1>9, Zenon DEF RegenerateLists
  <2> QED
    BY <1>9, <2>1, <1>t, SMT DEF RegenerateLists, At, Goes, files, faults,
       Regenerating
<1>10. ASSUME NEW p \in Processes, RegenerateReads(p) PROVE EmbedsAll'
  BY <1>10, <1>t, SMT DEF RegenerateReads, At, Goes, Ends, files, ghosts, faults,
     NoTool, Run
<1>11. ASSUME NEW p \in Processes, RegenerateTruncates(p) PROVE EmbedsAll'
  BY <1>11, <1>t, SMT DEF RegenerateTruncates, At, Goes, ghosts, faults
<1>12. ASSUME NEW p \in Processes, RegenerateWrites(p) PROVE EmbedsAll'
  <2>1. Regenerating(p) /\ pc[p] = "render" /\ ~spoilt
    BY <1>12 DEF RegenerateWrites, At, Regenerating
  <2>2. /\ embedded.text = "empty"
        /\ \A f \in released \cap Canonical : Beside(f, p) => f \in seen[p]
        /\ tool[p].path \in Canonical => tool[p].path \in seen[p]
    BY <2>1 DEF AloneInv, RegeneratorInv
  <2>3. /\ embedded'.from = Directory[tool[p].path] /\ embedded'.locks = seen[p]
        /\ embedded'.text = "whole"
    BY <1>12, <2>2, SMT DEF RegenerateWrites
  <2>4. released' = released \cup {tool[p].path}
    BY <1>12 DEF RegenerateWrites
  <2> QED
    BY <2>2, <2>3, <2>4, SMT DEF Beside
<1>13. ASSUME NEW p \in Processes, Raises(p) PROVE EmbedsAll'
  <2>1. ~spoilt /\ ~At(p, "lock", "render")
    BY <1>13, Zenon DEF Raises, Stops
  <2> QED
    BY <1>13, <2>1, <1>t, SMT DEF Raises, At, Stops, FinallyRuns, NoDirectory, faults,
     Ends, Goes, NoTool, Run, NoFiles
<1>14. ASSUME NEW p \in Processes, Interrupted(p) PROVE EmbedsAll'
  <2>1. ~spoilt /\ ~At(p, "lock", "render")
    BY <1>14, Zenon DEF Interrupted, Stops
  <2> QED
    BY <1>14, <2>1, <1>t, SMT DEF Interrupted, Stops, FinallyRuns, At, Ends, Goes,
       NoTool, Run
<1>15. ASSUME NEW p \in Processes, Killed(p) PROVE EmbedsAll'
  <2>1. ~spoilt /\ ~At(p, "lock", "render")
    BY <1>15, Zenon DEF Killed, Stops
  <2> QED
    BY <1>15, <2>1, <1>t, SMT DEF Killed, Stops, files, At, Ends, Goes, NoTool, Run
<1>16. ASSUME NEW p \in Processes, NEW o \in Outputs, PrepareExtracts(p, o) PROVE EmbedsAll'
  BY <1>16, <1>t, SMT DEF PrepareExtracts, At, Goes, ghosts, faults
<1>17. ASSUME NEW p \in Processes, NEW o \in Outputs, PrepareMakes(p, o) PROVE EmbedsAll'
  BY <1>17, <1>t, SMT DEF PrepareMakes, At, Goes, ghosts, faults
<1>18. ASSUME NEW p \in Processes, NEW o \in Outputs, PrepareCopies(p, o) PROVE EmbedsAll'
  BY <1>18, <1>t, SMT DEF PrepareCopies, At, files, ghosts, faults
<1>19. ASSUME NEW p \in Processes, NEW o \in Outputs, PrepareReturns(p, o) PROVE EmbedsAll'
  BY <1>19, <1>t, SMT DEF PrepareReturns, At, Ends, files, faults, Goes, NoTool, Run
<1>20. ASSUME NEW p \in Processes, NEW o \in Outputs, PrepareBegins(p, o) PROVE EmbedsAll'
  BY <1>20, <1>t, SMT DEF PrepareBegins, Goes, Starts, Run, files, ghosts, faults, At
<1>21. ASSUME NEW p \in Processes, NEW run \in LockRuns, LockBegins(p, run) PROVE EmbedsAll'
  BY <1>21, <1>t, SMT DEF LockBegins, Goes, Starts, Run, files, ghosts, faults, At
<1>22. ASSUME NEW o \in Outputs, UserRemoves(o) PROVE EmbedsAll'
  BY <1>22, <1>t, SMT DEF UserRemoves, NoDirectory, faults, NoFiles, At
<1>23. ASSUME NEW p \in Processes, LockReturns(p) PROVE EmbedsAll'
  BY <1>23, <1>t, SMT DEF LockReturns, At, Goes, Ends, files, ghosts, faults,
     NoTool, Run
<1>24. CASE UNCHANGED vars
  BY <1>24, <1>t, SMT DEF vars, files, At
<1> QED
  BY <1>1, <1>2, <1>3, <1>4, <1>5, <1>6, <1>7, <1>8, <1>9, <1>10, <1>11, <1>12,
     <1>13, <1>14, <1>15, <1>16, <1>17, <1>18, <1>19, <1>20, <1>21, <1>22,
     <1>23, <1>24
     DEF Next

-----------------------------------------------------------------------------

IInv ==
  /\ TypeOK
  /\ PreparedStaysLocked /\ OwnerInv
  /\ LeftInv /\ RuntimeInv
  /\ WriterInv /\ RegeneratorInv /\ WholeInv /\ AloneInv /\ ReleasedIsEmbedded

LEMMA InitInv == Init => IInv
<1> SUFFICES ASSUME Init PROVE IInv
  OBVIOUS
<1>1. TypeOK
  BY InitTypes
<1>2. \A p \in Processes : pc[p] = "idle" /\ part[p] = "absent" /\ temp[p] = FALSE
  BY Zenon DEF Init
<1>3. PreparedStaysLocked /\ WholeInv /\ ReleasedIsEmbedded
  BY SMT DEF Init, PreparedStaysLocked, WholeInv, ReleasedIsEmbedded, OfDistinctKeys
<1>4. OwnerInv /\ RegeneratorInv /\ AloneInv /\ LeftInv /\ WriterInv
  BY <1>2, SMT DEF OwnerInv, Owns, RegeneratorInv, AloneInv, Regenerating, LeftInv,
     WriterInv, At
<1>5. RuntimeInv
  BY Zenon DEF Init, RuntimeInv, Unfinished, Outputs
<1> QED
  BY <1>1, <1>3, <1>4, <1>5 DEF IInv

LEMMA Inductive == IInv /\ [Next]_vars => IInv'
  BY TypesKept, OwnerKept, LeftKept, RuntimeKept, WriterKept, RegeneratorKept, WholeKept,
     AloneKept, EmbeddedKept DEF IInv

LEMMA Invariance == Spec => []IInv
  BY InitInv, Inductive, PTL DEF Spec

\* The files and the tools keep their types; a run of lock_release() has a
\* path and a key.
THEOREM TypeCorrect == Spec => []TypeOK
  BY Invariance, PTL DEF IInv

\* However many processes prepare the same output, fail or are killed, an output
\* that was reported stays complete until it is removed on purpose.
THEOREM PreparedHolds == Spec => []PreparedStaysLocked
  BY Invariance, PTL DEF IInv

\* A tool that ended by itself has removed what it made and did not finish.
THEOREM NothingLeft == Spec => []FailureLeavesNothing
<1>1. IInv => FailureLeavesNothing
  <2> SUFFICES ASSUME IInv, kills = 0, interrupts = 0
               PROVE  /\ \A p \in Processes :
                           pc[p] = "idle" => part[p] = "absent" /\ ~temp[p]
                      /\ (\A p \in Processes : tool[p].does # "runtime") => ~Unfinished
    BY DEF FailureLeavesNothing, Unfinished
  <2>1. \A p \in Processes : pc[p] = "idle" => part[p] = "absent" /\ ~temp[p]
    BY DEF IInv, LeftInv
  <2>2. (\A p \in Processes : tool[p].does # "runtime") => ~Unfinished
    BY DEF IInv, RuntimeInv, At
  <2> QED
    BY <2>1, <2>2
<1> QED
  BY <1>1, Invariance, PTL

\* Every canonical lock that was reported and lies in the directory of the last
\* regeneration is in the module that ships, no broken lock is, and no two are for
\* the same release.
THEOREM ReleasesEmbedded == Spec => []ReleasedIsEmbedded
  BY Invariance, PTL DEF IInv

\* The cached artifact is replaced by nothing but the locked one.
THEOREM CacheImproves == Spec => CacheOnlyImproves
<1>1. [Next]_vars => [cache' # cache => cache' = "whole"]_cache
<2> SUFFICES ASSUME [Next]_vars, cache' # cache PROVE cache' = "whole"
  OBVIOUS
<2>1. ASSUME NEW p \in Processes, FetchBegins(p) PROVE cache' = "whole"
  BY <2>1, SMT DEF FetchBegins, Run, Goes, files, ghosts, faults
<2>2. ASSUME NEW p \in Processes, FetchOpens(p) PROVE cache' = "whole"
  BY <2>2, SMT DEF FetchOpens, At, Goes, ghosts, faults
<2>3. ASSUME NEW p \in Processes, FetchReceives(p) PROVE cache' = "whole"
  BY <2>3, SMT DEF FetchReceives, At, Goes, ghosts, faults
<2>4. ASSUME NEW p \in Processes, FetchReplaces(p) PROVE cache' = "whole"
  BY <2>4, SMT DEF FetchReplaces, At, Ends, ghosts, faults, Goes, NoTool, Run
<2>5. ASSUME NEW p \in Processes, BrowserCopied(p) PROVE cache' = "whole"
  BY <2>5, SMT DEF BrowserCopied, At, Goes, files, ghosts, faults
<2>6. ASSUME NEW p \in Processes, LockExtracts(p) PROVE cache' = "whole"
  BY <2>6, SMT DEF LockExtracts, At, Goes, ghosts, faults
<2>7. ASSUME NEW p \in Processes, LockCreates(p) PROVE cache' = "whole"
  BY <2>7, SMT DEF LockCreates, At, Goes, ghosts, faults
<2>8. ASSUME NEW p \in Processes, LockWrites(p) PROVE cache' = "whole"
  BY <2>8, SMT DEF LockWrites, At, Goes, ghosts, faults
<2>9. ASSUME NEW p \in Processes, RegenerateLists(p) PROVE cache' = "whole"
  BY <2>9, SMT DEF RegenerateLists, At, Goes, files, faults, Regenerating
<2>10. ASSUME NEW p \in Processes, RegenerateReads(p) PROVE cache' = "whole"
  BY <2>10, SMT DEF RegenerateReads, At, Goes, Ends, files, ghosts, faults,
     NoTool, Run
<2>11. ASSUME NEW p \in Processes, RegenerateTruncates(p) PROVE cache' = "whole"
  BY <2>11, SMT DEF RegenerateTruncates, At, Goes, ghosts, faults
<2>12. ASSUME NEW p \in Processes, RegenerateWrites(p) PROVE cache' = "whole"
  BY <2>12, SMT DEF RegenerateWrites, At, Ends, faults, Goes, NoTool, Run
<2>13. ASSUME NEW p \in Processes, Raises(p) PROVE cache' = "whole"
  BY <2>13, SMT DEF Raises, At, Stops, FinallyRuns, NoDirectory, faults,
     Ends, Goes, NoTool, Run, NoFiles
<2>14. ASSUME NEW p \in Processes, Interrupted(p) PROVE cache' = "whole"
  BY <2>14, SMT DEF Interrupted, Stops, FinallyRuns, At, Ends, Goes, NoTool, Run
<2>15. ASSUME NEW p \in Processes, Killed(p) PROVE cache' = "whole"
  BY <2>15, SMT DEF Killed, Stops, files, At, Ends, Goes, NoTool, Run
<2>16. ASSUME NEW p \in Processes, NEW o \in Outputs, PrepareExtracts(p, o)
       PROVE  cache' = "whole"
  BY <2>16, SMT DEF PrepareExtracts, At, Goes, ghosts, faults
<2>17. ASSUME NEW p \in Processes, NEW o \in Outputs, PrepareMakes(p, o)
       PROVE  cache' = "whole"
  BY <2>17, SMT DEF PrepareMakes, At, Goes, ghosts, faults
<2>18. ASSUME NEW p \in Processes, NEW o \in Outputs, PrepareCopies(p, o)
       PROVE  cache' = "whole"
  BY <2>18, SMT DEF PrepareCopies, At, files, ghosts, faults
<2>19. ASSUME NEW p \in Processes, NEW o \in Outputs, PrepareReturns(p, o)
       PROVE  cache' = "whole"
  BY <2>19, SMT DEF PrepareReturns, At, Ends, files, faults, Goes, NoTool, Run
<2>20. ASSUME NEW p \in Processes, NEW o \in Outputs, PrepareBegins(p, o)
       PROVE  cache' = "whole"
  BY <2>20, SMT DEF PrepareBegins, Goes, Starts, Run, files, ghosts, faults
<2>21. ASSUME NEW p \in Processes, NEW run \in LockRuns, LockBegins(p, run)
       PROVE  cache' = "whole"
  BY <2>21, SMT DEF LockBegins, Goes, Starts, Run, files, ghosts, faults
<2>22. ASSUME NEW o \in Outputs, UserRemoves(o) PROVE cache' = "whole"
  BY <2>22, SMT DEF UserRemoves, NoDirectory, faults, NoFiles
<2>23. ASSUME NEW p \in Processes, LockReturns(p)
       PROVE  cache' = "whole"
  BY <2>23, SMT DEF LockReturns, At, Goes, Ends, files, ghosts, faults, NoTool, Run
<2>24. CASE UNCHANGED vars
  BY <2>24, SMT DEF vars, files
<2> QED
  BY <2>1, <2>2, <2>3, <2>4, <2>5, <2>6, <2>7, <2>8, <2>9, <2>10, <2>11, <2>12,
     <2>13, <2>14, <2>15, <2>16, <2>17, <2>18, <2>19, <2>20, <2>21, <2>22,
     <2>23, <2>24
     DEF Next
<1> QED
  BY <1>1, PTL DEF Spec, CacheOnlyImproves

\* A lock that was written never changes.
THEOREM LocksAreFinal == Spec => LockIsWrittenOnce
<1>1. TypeOK /\ WriterInv /\ [Next]_vars =>
        [\A f \in Paths : Whole(f) => lock'[f] = lock[f]]_lock
  BY WholeStays
<1>2. IInv => TypeOK /\ WriterInv
  BY DEF IInv
<1> QED
  BY <1>1, <1>2, Invariance, PTL DEF Spec, LockIsWrittenOnce

-----------------------------------------------------------------------------
(* The capture suite *)

\* What the server thread has answered and written, by where it is.
CountedInv ==
  /\ completed = sequence - 1
  /\ srv \in {"accept", "hello", "request", "answer"} => sequence <= Count
  /\ srv \notin {"answer", "failed"} => Len(records) = sequence - 1
  /\ srv = "answer" =>
       Len(records) = sequence /\ records[sequence].by = current.by
  /\ srv = "request" => current.kind = "request"
  /\ srv = "done" => stop \/ sequence > Count

\* The server is asked to stop by a suite that has failed, and only then; an
\* interrupt leaves nothing to do but to remove the profile.
StopInv ==
  /\ stop => failure # "none"
  /\ stage = "returned" => srv = "done" /\ failure = "none"
  /\ failure = "interrupt" => stage \in {"cleanup", "raised"}

\* A client runs, and has a profile, while the main thread is busy with it.
LeftBehindInv ==
  /\ client = "foxreq" => profiles = {} /\ stage # "prepare"
  /\ failure # "interrupt" =>
       /\ running \ survivors \subseteq
            IF stage \in {"wait", "end"} THEN {launch} ELSE {}
       /\ profiles \ left \subseteq
            IF stage \in {"launch", "wait", "end", "cleanup"} THEN {launch} ELSE {}

\* Launches are numbered; more of them than steps means that one was repeated.
LaunchInv ==
  /\ step <= Steps /\ attempt <= Tries
  /\ step <= launch /\ launch <= (step - 1) * Attempts + attempt

\* Where the one request of a client is: not yet sent, in the backlog, with the
\* server thread, or in the capture.
RequestOf(l) == [by |-> l, kind |-> "request"]
Queued(l) == \E i \in DOMAIN backlog : backlog[i] = RequestOf(l)
InHand(l) == srv \in {"hello", "request"} /\ current = RequestOf(l)
Recorded(l) == \E i \in DOMAIN records : records[i].by = l

LaunchedInv ==
  \A l \in Launches :
    l \in wants \/ Queued(l) \/ InHand(l) \/ Recorded(l) =>
      IF stage \in {"start", "prepare", "launch"} THEN l < launch ELSE l <= launch

\* In a cold suite it is in one of these places, and there once.
OnceInv ==
  mode = "cold" =>
    /\ \A l \in Launches :
         /\ l \in wants => ~Queued(l) /\ ~InHand(l) /\ ~Recorded(l)
         /\ Queued(l) => ~InHand(l) /\ ~Recorded(l)
         /\ InHand(l) => ~Recorded(l)
    /\ \A i, j \in DOMAIN backlog :
         backlog[i] = backlog[j] /\ backlog[i].kind = "request" => i = j
    /\ \A i, j \in DOMAIN records : records[i].by = records[j].by => i = j

LabelInv ==
  \A i \in DOMAIN records :
    records[i].label = IF mode = "resumed" /\ i > 1 THEN "resumed" ELSE "cold"

\* As long as no launch of a cold suite was repeated, launch n follows the
\* n - 1 captures of those before it.
OrderInv ==
  mode = "cold" /\ launch = step =>
    /\ step - 1 <= completed
    /\ stage \in {"end", "cleanup"} /\ failure = "none" /\ outcome = "captured" =>
         step <= completed
    /\ \A l \in served : l <= completed
    /\ \A i \in DOMAIN records : records[i].by = i

CaptureInv ==
  /\ CaptureTypeOK /\ CountedInv /\ StopInv /\ LeftBehindInv /\ LaunchInv
  /\ LaunchedInv /\ OnceInv /\ LabelInv /\ OrderInv

LEMMA Extended ==
  ASSUME NEW S, NEW s \in Seq(S), NEW e \in S
  PROVE  /\ Append(s, e) \in Seq(S) /\ Len(s) \in Nat /\ DOMAIN s = 1 .. Len(s)
         /\ Len(Append(s, e)) = Len(s) + 1
         /\ DOMAIN Append(s, e) = 1 .. Len(s) + 1
         /\ \A i \in DOMAIN s : Append(s, e)[i] = s[i]
         /\ Append(s, e)[Len(s) + 1] = e
<1>1. Append(s, e) \in Seq(S) /\ Len(Append(s, e)) = Len(s) + 1
  BY SMT
<1>2. Len(s) \in Nat /\ DOMAIN s = 1 .. Len(s) /\ DOMAIN Append(s, e) = 1 .. Len(s) + 1
  BY SMT
<1>3. /\ \A i \in 1 .. Len(s) : Append(s, e)[i] = s[i]
      /\ Append(s, e)[Len(s) + 1] = e
  BY SMT
<1> QED
  BY <1>1, <1>2, <1>3

LEMMA Entries ==
  ASSUME NEW S, NEW s \in Seq(S), NEW j \in DOMAIN s
  PROVE  s[j] \in S
  BY SMT

LEMMA Advanced ==
  ASSUME NEW S, NEW s \in Seq(S), s # << >>
  PROVE  /\ Tail(s) \in Seq(S) /\ Head(s) = s[1] /\ 1 \in DOMAIN s /\ Head(s) \in S
         /\ \A i \in DOMAIN Tail(s) :
              i \in Nat /\ i + 1 \in DOMAIN s /\ i + 1 # 1 /\ Tail(s)[i] = s[i + 1]
<1>1. Tail(s) \in Seq(S) /\ Head(s) = s[1] /\ 1 \in DOMAIN s /\ Head(s) \in S
  BY SMT
<1>2. \A i \in DOMAIN Tail(s) :
        i \in Nat /\ i + 1 \in DOMAIN s /\ i + 1 # 1 /\ Tail(s)[i] = s[i + 1]
  BY SMT
<1> QED
  BY <1>1, <1>2

\* What each of the three actors leaves alone.
LEMMA MainFrame ==
  ASSUME MainStep \/ Interrupt
  PROVE  /\ UNCHANGED << mode, client, server, served, backlog >>
         /\ stop => stop'
<1>1. CASE WaitReady
  BY <1>1 DEF WaitReady, MainOnly, clients, progress
<1>2. CASE Prepare
  BY <1>2 DEF Prepare, MainOnly, clients, progress, GivesUp
<1>3. CASE Launch
  BY <1>3 DEF Launch, MainOnly, progress, GivesUp
<1>4. CASE WaitCaptured
  BY <1>4 DEF WaitCaptured, MainOnly, clients, progress
<1>5. CASE EndLaunch
  BY <1>5 DEF EndLaunch, MainOnly, progress
<1>6. CASE Cleanup
  BY <1>6 DEF Cleanup, MainOnly, clients, progress, GivesUp, GoesOn
<1>7. CASE RunClient
  BY <1>7 DEF RunClient, MainOnly, progress, GivesUp, GoesOn
<1>8. CASE Join
  BY <1>8 DEF Join, MainOnly, clients, progress
<1>9. CASE Interrupt
  BY <1>9 DEF Interrupt, MainOnly
<1> QED
  BY <1>1, <1>2, <1>3, <1>4, <1>5, <1>6, <1>7, <1>8, <1>9 DEF MainStep

ClientStep(l) == Connect(l) \/ Speculate(l) \/ Leave(l)

LEMMA ClientFrame ==
  ASSUME NEW l \in Launches, ClientStep(l)
  PROVE  /\ UNCHANGED << mode, client, server, served, directories, progress, stage,
                         outcome, survivors >>
         /\ running' \subseteq running /\ wants' \subseteq wants
  BY DEF ClientStep, Connect, Speculate, Leave, ClientOnly

LEMMA ServerFrame ==
  ASSUME ServerStep
  PROVE  UNCHANGED << mode, client, running, directories, progress, stage, outcome,
                      survivors >>
<1>1. ASSUME Elsewhere
      PROVE  UNCHANGED << mode, client, running, directories, progress, stage, outcome,
                          survivors >>
  BY <1>1 DEF Elsewhere, clients
<1>2. CASE Accept \/ Answer
  BY <1>1, <1>2 DEF Accept, Answer
<1>3. CASE ServerStarts \/ Top \/ AcceptTimesOut \/ Handshake \/ Record
  BY <1>1, <1>3 DEF ServerStarts, Top, AcceptTimesOut, Handshake, Record
<1> QED
  BY <1>2, <1>3 DEF ServerStep

\* The steps of the suite, one actor after the other.
LEMMA Actors ==
  ASSUME [CaptureNext]_captureVars
  PROVE  \/ ServerStep \/ MainStep \/ Interrupt
         \/ \E l \in Launches : ClientStep(l)
         \/ UNCHANGED captureVars
  BY DEF CaptureNext, ClientStep

-----------------------------------------------------------------------------
(* The invariant of the suite, part by part *)

LEMMA CountedKept ==
  ASSUME CaptureInv, [CaptureNext]_captureVars PROVE CountedInv'
<1>0. /\ CaptureTypeOK /\ CountedInv /\ OnceInv
  BY DEF CaptureInv
<1>t. /\ sequence \in Nat /\ completed \in Nat /\ Count \in Nat /\ sequence <= Count + 1
      /\ records \in Seq([by : Launches, label : {"cold", "resumed"}])
      /\ current \in Connections /\ backlog \in Seq(Connections)
      /\ Len(records) \in Nat
  BY <1>0, CountAssumption, SMT DEF CaptureTypeOK
<1>1. ASSUME UNCHANGED server, stop => stop' PROVE CountedInv'
  BY <1>0, <1>1 DEF CountedInv, server
<1>2. CASE MainStep \/ Interrupt
  BY <1>1, <1>2, MainFrame
<1>3. ASSUME NEW l \in Launches, ClientStep(l) PROVE CountedInv'
  BY <1>1, <1>3, ClientFrame DEF progress
<1>4. CASE UNCHANGED captureVars
  BY <1>1, <1>4 DEF captureVars, progress
<1>5. CASE ServerStep
  <2>0. stop' = stop
    BY <1>5, ServerFrame DEF progress
  <2>1. ASSUME NEW to \in {"starting", "top", "accept", "hello", "request", "done", "failed"},
               ServerGoes(to), srv \notin {"answer", "failed"} \/ to = "failed",
               to \in {"accept", "hello", "request"} => sequence <= Count,
               to = "request" => current.kind = "request",
               to = "done" => stop \/ sequence > Count
        PROVE  CountedInv'
    BY <1>0, <2>0, <2>1 DEF CountedInv, ServerGoes
  <2>2. CASE ServerStarts
    BY <2>1, <2>2 DEF ServerStarts
  <2>3. CASE Top
    <3>1. sequence > Count \/ sequence <= Count
      BY <1>t, SMT
    <3> QED
      BY <2>1, <2>3, <3>1 DEF Top
  <2>4. CASE Accept
    BY <1>0, <2>0, <2>4 DEF Accept, CountedInv
  <2>5. CASE AcceptTimesOut
    BY <2>1, <2>5 DEF AcceptTimesOut
  <2>6. CASE Handshake
    BY <1>0, <2>1, <2>6 DEF Handshake, ClosesEarly, CountedInv
  <2>7. CASE Record
    <3>1. CASE ClosesEarly \/ ServerGoes("failed")
      BY <2>1, <2>7, <3>1 DEF Record, ClosesEarly
    <3>2. CASE /\ srv' = "answer"
               /\ records' = Append(records, [by |-> current.by, label |-> Label])
               /\ UNCHANGED << sequence, completed, current >>
      <4>1. [by |-> current.by, label |-> Label] \in [by : Launches, label : {"cold", "resumed"}]
        BY <1>t DEF Label, Connections
      <4>2. srv = "request" /\ Len(records) = sequence - 1
        BY <1>0, <2>7 DEF Record, CountedInv
      <4>3. Len(records') = sequence
        BY <1>t, <3>2, <4>1, <4>2, Extended, SMT
      <4>4. records'[sequence].by = current.by
        <5>1. records'[Len(records) + 1] = [by |-> current.by, label |-> Label]
          BY <1>t, <3>2, <4>1, Extended
        <5>2. Len(records) + 1 = sequence
          BY <1>t, <4>2, SMT
        <5> QED
          BY <5>1, <5>2
      <4> QED
        BY <1>0, <2>0, <3>2, <4>2, <4>3, <4>4 DEF CountedInv
    <3> QED
      BY <2>7, <3>1, <3>2 DEF Record
  <2>8. CASE Answer
    <3>1. CASE ServerGoes("failed")
      BY <2>1, <3>1
    <3>2. CASE /\ srv' = "top" /\ completed' = sequence /\ sequence' = sequence + 1
               /\ UNCHANGED records
      <4>1. srv = "answer"
        BY <2>8 DEF Answer
      <4> QED
        BY <1>0, <1>t, <2>0, <3>2, <4>1, SMT DEF CountedInv
    <3> QED
      BY <2>8, <3>1, <3>2 DEF Answer
  <2> QED
    BY <1>5, <2>2, <2>3, <2>4, <2>5, <2>6, <2>7, <2>8 DEF ServerStep
<1> QED
  BY <1>2, <1>3, <1>4, <1>5, Actors

LEMMA StopKept ==
  ASSUME CaptureInv, [CaptureNext]_captureVars PROVE StopInv'
<1>0. StopInv /\ CountedInv
  BY DEF CaptureInv
<1>1. ASSUME UNCHANGED << stop, failure, stage >>, srv = "done" => srv' = "done"
      PROVE  StopInv'
  BY <1>0, <1>1 DEF StopInv
<1>2. CASE ServerStep
  <2>1. srv # "done"
    BY <1>2 DEF ServerStep, ServerStarts, Top, Accept, AcceptTimesOut, Handshake,
                Record, Answer
  <2> QED
    BY <1>1, <1>2, <2>1, ServerFrame DEF progress
<1>3. ASSUME NEW l \in Launches, ClientStep(l) PROVE StopInv'
  BY <1>1, <1>3, ClientFrame DEF progress, server
<1>4. CASE UNCHANGED captureVars
  BY <1>1, <1>4 DEF captureVars, progress, server
<1>5. CASE Interrupt
  BY <1>5 DEF Interrupt, StopInv
<1>6. CASE WaitReady \/ WaitCaptured
  BY <1>0, <1>6 DEF WaitReady, WaitCaptured, StopInv, progress
<1>7. CASE Prepare \/ Launch
  BY <1>0, <1>7 DEF Prepare, Launch, StopInv, progress, GivesUp
<1>8. CASE EndLaunch
  BY <1>0, <1>8 DEF EndLaunch, StopInv, progress
<1>9. CASE Cleanup
  BY <1>0, <1>9 DEF Cleanup, StopInv, progress, GivesUp, GoesOn
<1>10. CASE RunClient
  BY <1>0, <1>10 DEF RunClient, StopInv, progress, GivesUp, GoesOn
<1>11. CASE Join
  <2>1. UNCHANGED srv
    BY <1>11 DEF Join, MainOnly, server
  <2> QED
    BY <1>0, <1>11, <2>1 DEF Join, StopInv, progress
<1> QED
  BY <1>2, <1>3, <1>4, <1>5, <1>6, <1>7, <1>8, <1>9, <1>10, <1>11, Actors DEF MainStep

LEMMA LeftBehindKept ==
  ASSUME CaptureInv, [CaptureNext]_captureVars PROVE LeftBehindInv'
<1>0. /\ LeftBehindInv /\ CaptureTypeOK
      /\ failure = "interrupt" => stage \in {"cleanup", "raised"}
  BY DEF CaptureInv, StopInv
<1>1. ASSUME UNCHANGED << client, survivors, directories, stage, launch, failure >>,
             running' \subseteq running
      PROVE  LeftBehindInv'
  BY <1>0, <1>1 DEF LeftBehindInv, directories
<1>2. CASE ServerStep
  BY <1>1, <1>2, ServerFrame DEF progress
<1>3. ASSUME NEW l \in Launches, ClientStep(l) PROVE LeftBehindInv'
  BY <1>1, <1>3, ClientFrame DEF progress
<1>4. CASE UNCHANGED captureVars
  BY <1>1, <1>4 DEF captureVars, progress, clients
<1>5. CASE Interrupt
  BY <1>0, <1>5 DEF Interrupt, MainOnly, LeftBehindInv
<1>6. CASE WaitReady
  <2>1. /\ stage = "start" /\ stage' \in {"raised", "prepare", "launch"}
        /\ client = "foxreq" => stage' # "prepare"
        /\ UNCHANGED << client, running, profiles, left, survivors, launch, failure >>
    BY <1>6 DEF WaitReady, MainOnly, clients, directories, progress
  <2> QED
    BY <1>0, <2>1 DEF LeftBehindInv
<1>7. CASE Prepare
  BY <1>0, <1>7 DEF Prepare, MainOnly, clients, progress, GivesUp, LeftBehindInv
<1>8. CASE Launch
  BY <1>0, <1>8 DEF Launch, MainOnly, directories, progress, GivesUp, LeftBehindInv,
                    CaptureTypeOK
<1>9. CASE WaitCaptured
  BY <1>0, <1>9 DEF WaitCaptured, MainOnly, clients, directories, progress, LeftBehindInv
<1>10. CASE EndLaunch
  BY <1>0, <1>10 DEF EndLaunch, MainOnly, directories, progress, LeftBehindInv
<1>11. CASE Cleanup
  <2>1. /\ stage = "cleanup" /\ client' = client /\ running' = running
        /\ survivors' = survivors
        /\ profiles' \ left' \subseteq profiles \ left
        /\ launch \notin profiles' \ left'
        /\ profiles' \subseteq profiles
    BY <1>11 DEF Cleanup, MainOnly, clients
  <2>2. /\ failure = "interrupt" => failure' = "interrupt"
        /\ stage' \in {"raised", "join", "prepare", "launch"}
        /\ client = "foxreq" => stage' # "prepare"
    BY <1>11 DEF Cleanup, GivesUp, GoesOn, progress
  <2> QED
    BY <1>0, <2>1, <2>2 DEF LeftBehindInv
<1>12. CASE RunClient
  <2>1. /\ stage = "wait" /\ client = "foxreq" /\ client' = client
        /\ running' = running \ {launch}
        /\ survivors' = survivors /\ UNCHANGED << profiles, left >>
    BY <1>12 DEF RunClient, MainOnly, directories
  <2>2. /\ failure = "interrupt" => failure' \in {"interrupt", "error"}
        /\ stage' \in {"join", "launch"}
    BY <1>12 DEF RunClient, GivesUp, GoesOn, progress
  <2> QED
    BY <1>0, <2>1, <2>2 DEF LeftBehindInv
<1>13. CASE Join
  BY <1>0, <1>13 DEF Join, MainOnly, clients, directories, progress, LeftBehindInv
<1> QED
  BY <1>2, <1>3, <1>4, <1>5, <1>6, <1>7, <1>8, <1>9, <1>10, <1>11, <1>12, <1>13,
     Actors DEF MainStep

\* What the launches of the main thread come from.
LEMMA NextLaunch ==
  ASSUME MainStep \/ Interrupt
  PROVE  \/ UNCHANGED << step, attempt, launch >>
         \/ /\ launch' = launch + 1
            /\ \/ step < Steps /\ step' = step + 1 /\ attempt' = 1
               \/ attempt < Tries /\ attempt' = attempt + 1 /\ step' = step
<1>1. CASE WaitReady \/ WaitCaptured \/ Join \/ EndLaunch \/ Interrupt
  BY <1>1 DEF WaitReady, WaitCaptured, Join, EndLaunch, Interrupt, progress
<1>2. CASE Prepare \/ Launch
  BY <1>2 DEF Prepare, Launch, progress, GivesUp
<1>3. CASE Cleanup \/ RunClient
  BY <1>3 DEF Cleanup, RunClient, progress, GivesUp, GoesOn
<1> QED
  BY <1>1, <1>2, <1>3 DEF MainStep

\* There are numbers for all launches.
LEMMA Numbered ==
  ASSUME NEW s \in 1 .. Count, NEW a \in 1 .. Attempts, NEW l \in Nat \ {0},
         l <= (s - 1) * Attempts + a
  PROVE  l \in Launches
<1>1. Count \in Nat /\ Attempts \in {1, 2, 3}
  BY CountAssumption, SMT
<1>2. s - 1 \in Nat /\ a \in Nat /\ s <= Count /\ a <= Attempts
  BY <1>1, SMT
<1>3. CASE Attempts = 1
  BY <1>1, <1>2, <1>3, SMT DEF Launches
<1>4. CASE Attempts = 2
  BY <1>1, <1>2, <1>4, SMT DEF Launches
<1>5. CASE Attempts = 3
  BY <1>1, <1>2, <1>5, SMT DEF Launches
<1> QED
  BY <1>1, <1>3, <1>4, <1>5

LEMMA LaunchKept ==
  ASSUME CaptureInv, [CaptureNext]_captureVars
  PROVE  /\ LaunchInv'
         /\ step' \in 1 .. Count /\ attempt' \in 1 .. Attempts /\ launch' \in Launches
<1>0. LaunchInv /\ CaptureTypeOK
  BY DEF CaptureInv
<1>t. /\ step \in Nat \ {0} /\ attempt \in Nat \ {0} /\ launch \in Nat \ {0}
      /\ Count \in Nat \ {0} /\ Attempts \in {1, 2, 3}
  BY <1>0, CountAssumption, SMT DEF CaptureTypeOK, Launches
<1>b. Steps \in 1 .. Count /\ Tries \in 1 .. Attempts
  BY <1>t, SMT DEF Steps, Tries
<1>1. /\ mode' = mode /\ client' = client
      /\ \/ UNCHANGED << step, attempt, launch >>
         \/ /\ launch' = launch + 1
            /\ \/ step < Steps /\ step' = step + 1 /\ attempt' = 1
               \/ attempt < Tries /\ attempt' = attempt + 1 /\ step' = step
  <2>1. CASE MainStep \/ Interrupt
    BY <2>1, MainFrame, NextLaunch
  <2>2. CASE ServerStep
    BY <2>2, ServerFrame DEF progress
  <2>3. ASSUME NEW l \in Launches, ClientStep(l)
        PROVE  UNCHANGED << mode, client, step, attempt, launch >>
    BY <2>3, ClientFrame DEF progress
  <2>4. CASE UNCHANGED captureVars
    BY <2>4 DEF captureVars, progress
  <2> QED
    BY <2>1, <2>2, <2>3, <2>4, Actors
<1>2. Steps' = Steps /\ Tries' = Tries
  BY <1>1 DEF Steps, Tries
<1>3. step <= Steps /\ attempt <= Tries /\ step <= launch
        /\ launch <= (step - 1) * Attempts + attempt
  BY <1>0 DEF LaunchInv
<1>4. /\ step' \in Nat \ {0} /\ attempt' \in Nat \ {0} /\ launch' \in Nat \ {0}
      /\ step' <= Steps /\ attempt' <= Tries /\ step' <= launch'
  BY <1>1, <1>3, <1>b, <1>t, SMT
<1>5. launch' <= (step' - 1) * Attempts + attempt'
  <2>1. CASE Attempts = 1
    BY <1>1, <1>3, <1>b, <1>t, <2>1, SMT
  <2>2. CASE Attempts = 2
    BY <1>1, <1>3, <1>b, <1>t, <2>2, SMT
  <2>3. CASE Attempts = 3
    BY <1>1, <1>3, <1>b, <1>t, <2>3, SMT
  <2> QED
    BY <1>t, <2>1, <2>2, <2>3
<1>6. /\ step' \in 1 .. Count /\ attempt' \in 1 .. Attempts
  BY <1>4, <1>b, <1>t, SMT
<1>7. launch' \in Launches
  BY <1>4, <1>5, <1>6, Numbered
<1> QED
  BY <1>2, <1>4, <1>5, <1>6, <1>7 DEF LaunchInv

LEMMA CaptureTypesKept ==
  ASSUME CaptureInv, [CaptureNext]_captureVars PROVE CaptureTypeOK'
<1>0. CaptureTypeOK /\ CountedInv
  BY DEF CaptureInv
<1>1. step' \in 1 .. Count /\ attempt' \in 1 .. Attempts /\ launch' \in Launches
  BY LaunchKept
<1>2. CASE MainStep \/ Interrupt
  <2>1. UNCHANGED << mode, client, served, backlog >>
    BY <1>2, MainFrame
  <2>2. /\ UNCHANGED server
        /\ running' \subseteq Launches /\ wants' \subseteq Launches
        /\ survivors' \subseteq Launches
        /\ profiles' \subseteq Launches /\ left' \subseteq Launches
        /\ outcome' \in {"none", "captured", "timed_out"}
    <3>1. CASE WaitReady \/ Join
      BY <1>0, <3>1 DEF WaitReady, Join, MainOnly, clients, directories, CaptureTypeOK
    <3>2. CASE Prepare
      BY <1>0, <3>2 DEF Prepare, MainOnly, clients, CaptureTypeOK
    <3>3. CASE Launch
      BY <1>0, <3>3 DEF Launch, MainOnly, directories, CaptureTypeOK
    <3>4. CASE WaitCaptured
      BY <1>0, <3>4 DEF WaitCaptured, MainOnly, clients, directories, CaptureTypeOK
    <3>5. CASE EndLaunch
      BY <1>0, <3>5 DEF EndLaunch, MainOnly, directories, CaptureTypeOK
    <3>6. CASE Cleanup
      BY <1>0, <3>6 DEF Cleanup, MainOnly, clients, CaptureTypeOK
    <3>7. CASE RunClient
      BY <1>0, <3>7 DEF RunClient, MainOnly, directories, CaptureTypeOK
    <3>8. CASE Interrupt
      BY <1>0, <3>8 DEF Interrupt, MainOnly, CaptureTypeOK
    <3> QED
      BY <1>2, <3>1, <3>2, <3>3, <3>4, <3>5, <3>6, <3>7, <3>8 DEF MainStep
  <2>3. /\ stop' \in BOOLEAN /\ failure' \in {"none", "error", "interrupt"}
        /\ stage' \in {"start", "prepare", "launch", "wait", "end", "cleanup", "join",
                       "returned", "raised"}
    <3>1. CASE WaitReady \/ Join \/ WaitCaptured
      BY <1>0, <3>1 DEF WaitReady, Join, WaitCaptured, progress, CaptureTypeOK
    <3>2. CASE Prepare \/ Launch \/ EndLaunch
      BY <1>0, <3>2 DEF Prepare, Launch, EndLaunch, progress, GivesUp, CaptureTypeOK
    <3>3. CASE Cleanup \/ RunClient
      BY <1>0, <3>3 DEF Cleanup, RunClient, progress, GivesUp, GoesOn, CaptureTypeOK
    <3>4. CASE Interrupt
      BY <1>0, <3>4 DEF Interrupt, CaptureTypeOK
    <3> QED
      BY <1>2, <3>1, <3>2, <3>3, <3>4 DEF MainStep
  <2> QED
    BY <1>0, <1>1, <2>1, <2>2, <2>3 DEF CaptureTypeOK, server
<1>3. ASSUME NEW l \in Launches, ClientStep(l) PROVE CaptureTypeOK'
  <2>1. /\ UNCHANGED << mode, client, server, served, directories, progress, stage,
                        outcome, survivors >>
        /\ running' \subseteq running /\ wants' \subseteq wants
    BY <1>3, ClientFrame
  <2>2. /\ [by |-> l, kind |-> "request"] \in Connections
        /\ [by |-> l, kind |-> "silent"] \in Connections
    BY DEF Connections
  <2>3. backlog' \in Seq(Connections)
    <3>1. backlog \in Seq(Connections)
      BY <1>0 DEF CaptureTypeOK
    <3>2. /\ Append(backlog, [by |-> l, kind |-> "request"]) \in Seq(Connections)
          /\ Append(backlog, [by |-> l, kind |-> "silent"]) \in Seq(Connections)
      BY <2>2, <3>1, Extended
    <3> QED
      BY <1>3, <3>1, <3>2 DEF ClientStep, Connect, Speculate, Leave
  <2> QED
    BY <1>0, <1>1, <2>1, <2>3 DEF CaptureTypeOK, server, directories, progress
<1>4. CASE ServerStep
  <2>1. UNCHANGED << mode, client, running, directories, progress, stage, outcome,
                     survivors >>
    BY <1>4, ServerFrame
  <2>2. wants' \subseteq Launches /\ served' \subseteq Launches /\ backlog' \in Seq(Connections)
    <3>1. CASE Accept
      BY <1>0, <3>1, Advanced DEF Accept, CaptureTypeOK
    <3>2. CASE Answer
      BY <1>0, <3>2 DEF Answer, Elsewhere, clients, CaptureTypeOK, Connections
    <3>3. CASE ServerStarts \/ Top \/ AcceptTimesOut \/ Handshake \/ Record
      BY <1>0, <3>3 DEF ServerStarts, Top, AcceptTimesOut, Handshake, Record, Elsewhere,
                        clients, CaptureTypeOK
    <3> QED
      BY <1>4, <3>1, <3>2, <3>3 DEF ServerStep
  <2>3. Nobody \in Connections
    <3>1. 1 \in Launches
      <4>1. /\ 1 \in 1 .. Count /\ 1 \in 1 .. Attempts /\ 1 \in Nat \ {0}
            /\ 1 <= (1 - 1) * Attempts + 1
        BY CountAssumption, SMT
      <4> QED
        BY <4>1, Numbered
    <3> QED
      BY <3>1 DEF Nobody, Connections
  <2>4. /\ srv' \in {"starting", "top", "accept", "hello", "request", "answer", "done",
                     "failed"}
        /\ current' \in Connections
        /\ sequence' \in 1 .. Count + 1 /\ completed' \in 0 .. Count
        /\ records' \in Seq([by : Launches, label : {"cold", "resumed"}])
    <3>1. CASE Accept
      BY <1>0, <3>1, Advanced DEF Accept, CaptureTypeOK
    <3>2. CASE srv = "answer" /\ srv' = "top" /\ completed' = sequence
                 /\ sequence' = sequence + 1 /\ current' = Nobody /\ UNCHANGED records
      <4>1. sequence \in 1 .. Count + 1 /\ sequence <= Count /\ Count \in Nat
        BY <1>0, <3>2, CountAssumption DEF CaptureTypeOK, CountedInv
      <4>2. sequence + 1 \in 1 .. Count + 1 /\ sequence \in 0 .. Count
        BY <4>1, SMT
      <4> QED
        BY <1>0, <2>3, <3>2, <4>2 DEF CaptureTypeOK
    <3>3. CASE /\ srv' = "answer" /\ UNCHANGED << sequence, completed, current >>
               /\ records' = Append(records, [by |-> current.by, label |-> Label])
      <4>1. [by |-> current.by, label |-> Label]
              \in [by : Launches, label : {"cold", "resumed"}]
        BY <1>0 DEF Label, Connections, CaptureTypeOK
      <4> QED
        BY <1>0, <3>3, <4>1, Extended DEF CaptureTypeOK
    <3>4. ASSUME NEW to \in {"top", "accept", "request", "done", "failed"}, ServerGoes(to)
          PROVE  /\ srv' \in {"starting", "top", "accept", "hello", "request", "answer",
                              "done", "failed"}
                 /\ current' \in Connections
                 /\ sequence' \in 1 .. Count + 1 /\ completed' \in 0 .. Count
                 /\ records' \in Seq([by : Launches, label : {"cold", "resumed"}])
      BY <1>0, <2>3, <3>4 DEF ServerGoes, CaptureTypeOK
    <3>5. CASE ServerStarts \/ Top \/ AcceptTimesOut \/ Handshake
      BY <3>4, <3>5 DEF ServerStarts, Top, AcceptTimesOut, Handshake, ClosesEarly
    <3>6. CASE Record
      BY <3>3, <3>4, <3>6 DEF Record, ClosesEarly
    <3>7. CASE Answer
      BY <3>2, <3>4, <3>7 DEF Answer
    <3> QED
      BY <1>4, <3>1, <3>5, <3>6, <3>7 DEF ServerStep
  <2> QED
    BY <1>0, <1>1, <2>1, <2>2, <2>4 DEF CaptureTypeOK, directories, progress
<1>5. CASE UNCHANGED captureVars
  BY <1>0, <1>5 DEF captureVars, server, clients, directories, progress, CaptureTypeOK
<1> QED
  BY <1>2, <1>3, <1>4, <1>5, Actors

LEMMA LabelsKept ==
  ASSUME CaptureInv, [CaptureNext]_captureVars PROVE LabelInv'
<1>0. CaptureTypeOK /\ CountedInv /\ LabelInv
  BY DEF CaptureInv
<1>1. ASSUME UNCHANGED << mode, records >> PROVE LabelInv'
  BY <1>0, <1>1 DEF LabelInv
<1>2. CASE MainStep \/ Interrupt
  BY <1>1, <1>2, MainFrame DEF server
<1>3. ASSUME NEW l \in Launches, ClientStep(l) PROVE LabelInv'
  BY <1>1, <1>3, ClientFrame DEF server
<1>4. CASE UNCHANGED captureVars
  BY <1>1, <1>4 DEF captureVars, server
<1>5. CASE ServerStep
  <2>1. mode' = mode
    BY <1>5, ServerFrame
  <2>2. CASE UNCHANGED records
    BY <1>1, <2>1, <2>2
  <2>3. CASE /\ srv = "request"
             /\ records' = Append(records, [by |-> current.by, label |-> Label])
    <3>1. /\ [by |-> current.by, label |-> Label]
               \in [by : Launches, label : {"cold", "resumed"}]
          /\ records \in Seq([by : Launches, label : {"cold", "resumed"}])
          /\ sequence \in Nat
      BY <1>0, SMT DEF Label, Connections, CaptureTypeOK
    <3>2. Len(records) + 1 = sequence
      BY <1>0, <2>3, <3>1, SMT DEF CountedInv
    <3>3. /\ DOMAIN records' = 1 .. sequence /\ DOMAIN records = 1 .. sequence - 1
          /\ \A i \in DOMAIN records : records'[i] = records[i]
          /\ records'[sequence].label = Label
      <4>1. /\ DOMAIN records = 1 .. Len(records) /\ DOMAIN records' = 1 .. Len(records) + 1
            /\ \A i \in DOMAIN records : records'[i] = records[i]
            /\ records'[Len(records) + 1] = [by |-> current.by, label |-> Label]
            /\ Len(records) \in Nat
        BY <2>3, <3>1, Extended
      <4>2. Len(records) = sequence - 1
        BY <3>1, <3>2, <4>1, SMT
      <4> QED
        BY <3>2, <4>1, <4>2
    <3>4. \A i \in DOMAIN records' : i \in DOMAIN records \/ i = sequence
      BY <3>1, <3>3, SMT
    <3>5. Label = IF mode = "resumed" /\ sequence > 1 THEN "resumed" ELSE "cold"
      BY DEF Label
    <3> QED
      BY <1>0, <2>1, <3>3, <3>4, <3>5 DEF LabelInv
  <2>4. UNCHANGED records \/ Record
    BY <1>5 DEF ServerStep, ServerStarts, Top, Accept, AcceptTimesOut, Handshake, Answer,
                ClosesEarly, ServerGoes
  <2> QED
    BY <2>2, <2>3, <2>4 DEF Record, ClosesEarly, ServerGoes
<1> QED
  BY <1>2, <1>3, <1>4, <1>5, Actors

-----------------------------------------------------------------------------
(* How the request of a client moves on *)

\* The server thread: it drops the request that it has, takes one from the
\* backlog, writes its record, or answers.
LEMMA ServerMoves ==
  ASSUME CaptureInv, ServerStep
  PROVE  /\ mode' = mode
         /\ \/ /\ UNCHANGED << wants, backlog, records >>
               /\ \A l \in Launches : InHand(l)' => InHand(l)
            \/ Accept
            \/ /\ UNCHANGED << wants, backlog >>
               /\ srv = "request" /\ srv' = "answer"
               /\ records' = Append(records, [by |-> current.by, label |-> Label])
            \/ /\ UNCHANGED << backlog, records >> /\ srv' = "top"
               /\ Recorded(current.by)
               /\ wants' = wants \/ (mode = "resumed" /\ wants' = wants \cup {current.by})
<1>0. CaptureTypeOK /\ CountedInv
  BY DEF CaptureInv
<1>1. mode' = mode
  BY ServerFrame
<1>2. ASSUME NEW to \in {"top", "accept", "request", "done", "failed"}, ServerGoes(to),
             Elsewhere, to = "request" => srv = "hello"
      PROVE  /\ UNCHANGED << wants, backlog, records >>
             /\ \A l \in Launches : InHand(l)' => InHand(l)
  BY <1>2 DEF ServerGoes, Elsewhere, clients, InHand
<1>3. CASE ServerStarts \/ Top \/ AcceptTimesOut \/ Handshake
  BY <1>1, <1>2, <1>3 DEF ServerStarts, Top, AcceptTimesOut, Handshake, ClosesEarly
<1>4. CASE Record
  <2>1. UNCHANGED << wants, backlog >> /\ Elsewhere
    BY <1>4 DEF Record, Elsewhere, clients
  <2> QED
    BY <1>1, <1>2, <1>4, <2>1 DEF Record, ClosesEarly
<1>5. CASE Answer
  <2>1. CASE ServerGoes("failed") /\ Elsewhere
    BY <1>1, <1>2, <2>1
  <2>2. CASE /\ srv' = "top" /\ UNCHANGED << records, backlog >>
             /\ wants' = IF PeerLives /\ Again THEN wants \cup {current.by} ELSE wants
    <3>1. srv = "answer"
      BY <1>5 DEF Answer
    <3>2. sequence \in DOMAIN records /\ records[sequence].by = current.by
      BY <1>0, <3>1, SMT DEF CountedInv, CaptureTypeOK
    <3>3. Recorded(current.by) /\ (Again => mode = "resumed")
      BY <3>2 DEF Again, Recorded
    <3>4. wants' = wants \/ (mode = "resumed" /\ wants' = wants \cup {current.by})
      BY <2>2, <3>3
    <3> QED
      BY <1>1, <2>2, <3>3, <3>4
  <2> QED
    BY <1>5, <2>1, <2>2 DEF Answer
<1> QED
  BY <1>1, <1>3, <1>4, <1>5 DEF ServerStep

\* The clients: one of them sends its request to the backlog, or gives it up; a
\* connection without a request counts for nothing.
LEMMA ClientMoves ==
  ASSUME CaptureInv, NEW c \in Launches, ClientStep(c)
  PROVE  /\ UNCHANGED << mode, srv, current, records >>
         /\ \/ wants' \subseteq wants /\ backlog' = backlog
            \/ /\ c \in wants /\ wants' = wants \ {c}
               /\ backlog' = Append(backlog, RequestOf(c))
            \/ /\ wants' = wants
               /\ backlog' = Append(backlog, [by |-> c, kind |-> "silent"])
<1>1. UNCHANGED << mode, srv, current, records >>
  BY ClientFrame DEF server
<1> QED
  BY <1>1 DEF ClientStep, Connect, Speculate, Leave, RequestOf

\* The main thread: it launches the next client.
LEMMA MainMoves ==
  ASSUME MainStep \/ Interrupt
  PROVE  /\ UNCHANGED << mode, srv, current, records, backlog >>
         /\ \/ wants' = wants
            \/ /\ stage = "launch" /\ stage' = "wait" /\ launch' = launch
               /\ wants' = wants \cup {launch}
<1>1. UNCHANGED << mode, srv, current, records, backlog >>
  BY MainFrame DEF server
<1>2. CASE WaitReady \/ Prepare \/ WaitCaptured \/ EndLaunch \/ Cleanup \/ RunClient
             \/ Join \/ Interrupt
  BY <1>1, <1>2 DEF WaitReady, Prepare, WaitCaptured, EndLaunch, Cleanup, RunClient,
                    Join, Interrupt, clients
<1>3. CASE Launch
  BY <1>1, <1>3 DEF Launch, progress
<1> QED
  BY <1>2, <1>3 DEF MainStep

LEMMA QueuedAfter ==
  ASSUME CaptureTypeOK, NEW c \in Launches, NEW kind \in {"request", "silent"},
         backlog' = Append(backlog, [by |-> c, kind |-> kind])
  PROVE  /\ \A l \in Launches : Queued(l)' => Queued(l) \/ (l = c /\ kind = "request")
         /\ (\A i, j \in DOMAIN backlog :
               backlog[i] = backlog[j] /\ backlog[i].kind = "request" => i = j)
              /\ (kind = "request" => ~Queued(c))
            => \A i, j \in DOMAIN backlog' :
                 backlog'[i] = backlog'[j] /\ backlog'[i].kind = "request" => i = j
<1> DEFINE new == [by |-> c, kind |-> kind]
           n == Len(backlog) + 1
<1>1. backlog \in Seq(Connections) /\ new \in Connections
  BY DEF CaptureTypeOK, Connections
<1>2. /\ DOMAIN backlog = 1 .. Len(backlog) /\ DOMAIN backlog' = 1 .. n
      /\ \A i \in DOMAIN backlog : backlog'[i] = backlog[i]
      /\ backlog'[n] = new /\ Len(backlog) \in Nat
  BY <1>1, Extended
<1>3. \A i \in DOMAIN backlog' : i \in DOMAIN backlog \/ i = n
  BY <1>2, SMT
<1> HIDE DEF n
<1>4. ASSUME NEW l \in Launches, Queued(l)'
      PROVE  Queued(l) \/ (l = c /\ kind = "request")
  <2>1. PICK i \in DOMAIN backlog' : backlog'[i] = RequestOf(l)
    BY <1>4 DEF Queued, RequestOf
  <2>2. CASE i \in DOMAIN backlog
    <3>1. backlog[i] = RequestOf(l)
      BY <1>2, <2>1, <2>2
    <3> QED
      BY <2>2, <3>1 DEF Queued
  <2>3. CASE i = n
    BY <1>2, <2>1, <2>3 DEF RequestOf
  <2> QED
    BY <1>3, <2>2, <2>3
<1>5. ASSUME \A i, j \in DOMAIN backlog :
               backlog[i] = backlog[j] /\ backlog[i].kind = "request" => i = j,
             kind = "request" => ~Queued(c),
             NEW i \in DOMAIN backlog', NEW j \in DOMAIN backlog',
             backlog'[i] = backlog'[j], backlog'[i].kind = "request"
      PROVE  i = j
  <2>1. ASSUME NEW k \in DOMAIN backlog, backlog[k] = new, new.kind = "request"
        PROVE  FALSE
    BY <1>5, <2>1 DEF Queued, RequestOf
  <2> HIDE DEF new
  <2> QED
    BY <1>2, <1>3, <1>5, <2>1
<1> QED
  BY <1>4, <1>5

LEMMA LaunchedKept ==
  ASSUME CaptureInv, [CaptureNext]_captureVars PROVE LaunchedInv'
<1>0. CaptureTypeOK /\ CountedInv /\ LaunchedInv
  BY DEF CaptureInv
<1> DEFINE Begun(l) == l \in wants \/ Queued(l) \/ InHand(l) \/ Recorded(l)
<1>t. /\ records \in Seq([by : Launches, label : {"cold", "resumed"}])
      /\ backlog \in Seq(Connections) /\ current \in Connections
      /\ launch \in Nat /\ Launches \subseteq Nat
  BY <1>0, SMT DEF CaptureTypeOK, Launches
<1>1. ASSUME NEW l \in Launches, Begun(l)', UNCHANGED << stage, launch >>, Begun(l)
      PROVE  IF stage' \in {"start", "prepare", "launch"} THEN l < launch' ELSE l <= launch'
  BY <1>0, <1>1 DEF LaunchedInv
<1>2. ASSUME ServerStep, NEW l \in Launches, Begun(l)' PROVE Begun(l)
  <2>1. CASE /\ UNCHANGED << wants, backlog, records >>
             /\ \A k \in Launches : InHand(k)' => InHand(k)
    BY <1>2, <2>1 DEF Queued, Recorded
  <2>2. CASE Accept
    <3>1. /\ backlog # << >> /\ current' = Head(backlog) /\ backlog' = Tail(backlog)
          /\ UNCHANGED << wants, records >>
      BY <2>2 DEF Accept
    <3>2. /\ Head(backlog) = backlog[1] /\ 1 \in DOMAIN backlog
          /\ \A i \in DOMAIN Tail(backlog) :
               i + 1 \in DOMAIN backlog /\ Tail(backlog)[i] = backlog[i + 1]
      BY <1>t, <3>1, Advanced
    <3>3. Queued(l)' => Queued(l)
      BY <3>1, <3>2 DEF Queued, RequestOf
    <3>4. InHand(l)' => Queued(l)
      BY <3>1, <3>2 DEF InHand, Queued, RequestOf
    <3> QED
      BY <1>2, <3>1, <3>3, <3>4 DEF Recorded
  <2>3. CASE /\ UNCHANGED << wants, backlog >>
             /\ srv = "request" /\ srv' = "answer"
             /\ records' = Append(records, [by |-> current.by, label |-> Label])
    <3>1. [by |-> current.by, label |-> Label] \in [by : Launches, label : {"cold", "resumed"}]
      BY <1>t DEF Label, Connections
    <3>2. /\ DOMAIN records = 1 .. Len(records) /\ DOMAIN records' = 1 .. Len(records) + 1
          /\ \A i \in DOMAIN records : records'[i] = records[i]
          /\ records'[Len(records) + 1].by = current.by /\ Len(records) \in Nat
      BY <1>t, <2>3, <3>1, Extended
    <3>3. Recorded(l)' => Recorded(l) \/ l = current.by
      <4>1. \A i \in DOMAIN records' : i \in DOMAIN records \/ i = Len(records) + 1
        BY <3>2, SMT
      <4> QED
        BY <3>2, <4>1 DEF Recorded
    <3>4. l = current.by => InHand(l)
      BY <1>0, <1>t, <2>3 DEF InHand, RequestOf, CountedInv, Connections
    <3>5. ~InHand(l)'
      BY <2>3 DEF InHand
    <3> QED
      BY <1>2, <2>3, <3>3, <3>4, <3>5 DEF Queued
  <2>4. CASE /\ UNCHANGED << backlog, records >> /\ srv' = "top"
             /\ Recorded(current.by)
             /\ wants' \subseteq wants \cup {current.by}
    <3>1. ~InHand(l)'
      BY <2>4 DEF InHand
    <3> QED
      BY <1>2, <2>4, <3>1 DEF Queued, Recorded
  <2> QED
    BY <1>2, <2>1, <2>2, <2>3, <2>4, ServerMoves
<1>3. ASSUME NEW c \in Launches, ClientStep(c), NEW l \in Launches, Begun(l)'
      PROVE  Begun(l)
  <2>1. UNCHANGED << srv, current, records >>
    BY <1>3, ClientMoves
  <2>2. (InHand(l)' => InHand(l)) /\ (Recorded(l)' => Recorded(l))
    BY <2>1 DEF InHand, Recorded
  <2>3. CASE wants' \subseteq wants /\ backlog' = backlog
    BY <1>3, <2>2, <2>3 DEF Queued
  <2>4. CASE c \in wants /\ wants' = wants \ {c} /\ backlog' = Append(backlog, RequestOf(c))
    BY <1>0, <1>3, <2>2, <2>4, QueuedAfter DEF RequestOf
  <2>5. CASE wants' = wants /\ backlog' = Append(backlog, [by |-> c, kind |-> "silent"])
    BY <1>0, <1>3, <2>2, <2>5, QueuedAfter
  <2> QED
    BY <1>3, <2>3, <2>4, <2>5, ClientMoves
<1>4. CASE MainStep \/ Interrupt
  <2>1. /\ launch' = launch \/ launch' = launch + 1
        /\ launch' = launch + 1 \/ stage' \notin {"start", "prepare", "launch"}
             \/ stage \in {"start", "prepare", "launch"}
    <3>1. CASE WaitReady \/ Prepare \/ Launch
      BY <3>1 DEF WaitReady, Prepare, Launch, GivesUp, progress
    <3>2. CASE WaitCaptured \/ EndLaunch \/ Join \/ Interrupt
      BY <3>2 DEF WaitCaptured, EndLaunch, Join, Interrupt, progress
    <3>3. CASE Cleanup \/ RunClient
      BY <3>3 DEF Cleanup, RunClient, GivesUp, GoesOn, progress
    <3> QED
      BY <1>4, <3>1, <3>2, <3>3 DEF MainStep
  <2>2. UNCHANGED << srv, current, records, backlog >>
    BY <1>4, MainMoves
  <2>3. ASSUME NEW l \in Launches, Begun(l)'
        PROVE  Begun(l) \/ (stage' = "wait" /\ launch' = launch /\ l = launch)
    <3>1. (Queued(l)' <=> Queued(l)) /\ (InHand(l)' <=> InHand(l))
            /\ (Recorded(l)' <=> Recorded(l))
      BY <2>2 DEF InHand, Recorded, Queued, RequestOf
    <3>2. wants' = wants \/ (stage' = "wait" /\ launch' = launch /\ wants' = wants \cup {launch})
      BY <1>4, MainMoves
    <3> QED
      BY <2>3, <3>1, <3>2
  <2>4. ASSUME NEW l \in Launches, Begun(l)'
        PROVE  IF stage' \in {"start", "prepare", "launch"} THEN l < launch' ELSE l <= launch'
    <3>1. l \in Nat
      BY <1>t
    <3>2. CASE stage' = "wait" /\ launch' = launch /\ l = launch
      BY <3>1, <3>2, SMT
    <3>3. CASE Begun(l)
      <4>1. IF stage \in {"start", "prepare", "launch"} THEN l < launch ELSE l <= launch
        BY <1>0, <3>3 DEF LaunchedInv
      <4> HIDE DEF Begun
      <4> QED
        BY <1>t, <2>1, <3>1, <4>1, SMT
    <3> QED
      BY <2>3, <2>4, <3>2, <3>3
  <2> QED
    BY <2>4 DEF LaunchedInv
<1>5. CASE ServerStep
  BY <1>1, <1>2, <1>5, ServerFrame DEF LaunchedInv, progress
<1>6. ASSUME NEW c \in Launches, ClientStep(c) PROVE LaunchedInv'
  BY <1>1, <1>3, <1>6, ClientFrame DEF LaunchedInv, progress
<1>7. CASE UNCHANGED captureVars
  BY <1>0, <1>7 DEF captureVars, server, clients, progress, LaunchedInv, Queued, InHand,
                    Recorded
<1> QED
  BY <1>4, <1>5, <1>6, <1>7, Actors

LEMMA OnceKept ==
  ASSUME CaptureInv, [CaptureNext]_captureVars PROVE OnceInv'
<1>0. CaptureTypeOK /\ CountedInv /\ LaunchedInv /\ OnceInv
  BY DEF CaptureInv
<1> DEFINE Apart(l) == /\ l \in wants => ~Queued(l) /\ ~InHand(l) /\ ~Recorded(l)
                       /\ Queued(l) => ~InHand(l) /\ ~Recorded(l)
                       /\ InHand(l) => ~Recorded(l)
           Backlog == \A i, j \in DOMAIN backlog :
                        backlog[i] = backlog[j] /\ backlog[i].kind = "request" => i = j
           Records == \A i, j \in DOMAIN records : records[i].by = records[j].by => i = j
<1>t. /\ records \in Seq([by : Launches, label : {"cold", "resumed"}])
      /\ backlog \in Seq(Connections) /\ current \in Connections
      /\ launch \in Launches /\ launch \in Nat
  BY <1>0, SMT DEF CaptureTypeOK, Launches
<1>1. ASSUME mode' = mode,
             (mode = "cold" /\ Backlog /\ Records /\ \A l \in Launches : Apart(l))
               => (Backlog' /\ Records' /\ \A l \in Launches : Apart(l)')
      PROVE  OnceInv'
  BY <1>0, <1>1 DEF OnceInv
<1>2. CASE ServerStep
  <2>0. mode' = mode
    BY <1>2, ServerFrame
  <2>1. CASE /\ UNCHANGED << wants, backlog, records >>
             /\ \A l \in Launches : InHand(l)' => InHand(l)
    <3>1. \A l \in Launches : (Queued(l)' <=> Queued(l)) /\ (Recorded(l)' <=> Recorded(l))
      BY <2>1 DEF Queued, RequestOf, Recorded
    <3>2. (Backlog => Backlog') /\ (Records => Records')
      BY <2>1
    <3>3. \A l \in Launches : Apart(l) => Apart(l)'
      BY <2>1, <3>1
    <3> HIDE DEF Apart, Backlog, Records
    <3> QED
      BY <1>1, <2>0, <3>2, <3>3
  <2>2. CASE Accept
    <3>1. /\ backlog # << >> /\ current' = Head(backlog) /\ backlog' = Tail(backlog)
          /\ UNCHANGED << wants, records >> /\ srv = "accept"
      BY <2>2 DEF Accept
    <3>2. /\ Head(backlog) = backlog[1] /\ 1 \in DOMAIN backlog
          /\ \A i \in DOMAIN Tail(backlog) :
               /\ i \in Nat /\ i + 1 \in DOMAIN backlog /\ i + 1 # 1
               /\ Tail(backlog)[i] = backlog[i + 1]
      BY <1>t, <3>1, Advanced
    <3>3. ASSUME Backlog PROVE Backlog'
      <4>1. ASSUME NEW i \in DOMAIN backlog', NEW j \in DOMAIN backlog',
                   backlog'[i] = backlog'[j], backlog'[i].kind = "request"
            PROVE  i = j
        <5>1. i + 1 = j + 1
          BY <3>1, <3>2, <3>3, <4>1
        <5>2. i \in Nat /\ j \in Nat
          BY <3>1, <3>2
        <5> QED
          BY <5>1, <5>2, SMT
      <4> QED
        BY <4>1
    <3>4. ASSUME Backlog, NEW l \in Launches, Apart(l) PROVE Apart(l)'
      <4>1. Queued(l)' => Queued(l)
        BY <3>1, <3>2 DEF Queued, RequestOf
      <4>2. InHand(l)' => Queued(l) /\ backlog[1] = RequestOf(l)
        BY <3>1, <3>2 DEF InHand, Queued, RequestOf
      <4>3. backlog[1] = RequestOf(l) => ~Queued(l)'
        BY <3>1, <3>2, <3>4 DEF Queued, RequestOf
      <4>4. Recorded(l)' <=> Recorded(l)
        BY <3>1 DEF Recorded
      <4> QED
        BY <3>1, <3>4, <4>1, <4>2, <4>3, <4>4
    <3>5. Records => Records'
      BY <3>1
    <3> HIDE DEF Apart, Backlog, Records
    <3> QED
      BY <1>1, <2>0, <3>3, <3>4, <3>5
  <2>3. CASE /\ UNCHANGED << wants, backlog >>
             /\ srv = "request" /\ srv' = "answer"
             /\ records' = Append(records, [by |-> current.by, label |-> Label])
    <3>1. [by |-> current.by, label |-> Label] \in [by : Launches, label : {"cold", "resumed"}]
      BY <1>t DEF Label, Connections
    <3>2. /\ DOMAIN records = 1 .. Len(records) /\ DOMAIN records' = 1 .. Len(records) + 1
          /\ \A i \in DOMAIN records : records'[i] = records[i]
          /\ records'[Len(records) + 1].by = current.by /\ Len(records) \in Nat
      BY <1>t, <2>3, <3>1, Extended
    <3>3. \A i \in DOMAIN records' : i \in DOMAIN records \/ i = Len(records) + 1
      BY <3>2, SMT
    <3>4. InHand(current.by) /\ current.by \in Launches
      BY <1>0, <1>t, <2>3 DEF InHand, RequestOf, CountedInv, Connections
    <3>5. ASSUME Apart(current.by), Records PROVE Records'
      <4>1. \A i \in DOMAIN records : records[i].by # current.by
        BY <3>4, <3>5 DEF Recorded
      <4> QED
        BY <3>2, <3>3, <3>5, <4>1
    <3>6. ASSUME NEW l \in Launches, Apart(l), Apart(current.by) PROVE Apart(l)'
      <4>1. ~InHand(l)'
        BY <2>3 DEF InHand
      <4>2. Queued(l)' <=> Queued(l)
        BY <2>3 DEF Queued, RequestOf
      <4>3. Recorded(l)' => Recorded(l) \/ l = current.by
        BY <3>2, <3>3 DEF Recorded
      <4> QED
        BY <2>3, <3>4, <3>6, <4>1, <4>2, <4>3
    <3>7. Backlog => Backlog'
      BY <2>3
    <3> HIDE DEF Apart, Backlog, Records
    <3> QED
      BY <1>1, <2>0, <3>4, <3>5, <3>6, <3>7
  <2>4. CASE /\ UNCHANGED << backlog, records >> /\ srv' = "top"
             /\ wants' = wants \/ mode = "resumed"
    <3>1. CASE mode = "resumed"
      BY <1>1, <2>0, <3>1
    <3>2. CASE wants' = wants
      <4>1. \A l \in Launches : /\ ~InHand(l)'
                                /\ Queued(l)' <=> Queued(l)
                                /\ Recorded(l)' <=> Recorded(l)
        BY <2>4 DEF InHand, Queued, RequestOf, Recorded
      <4>2. \A l \in Launches : Apart(l) => Apart(l)'
        BY <3>2, <4>1
      <4>3. (Backlog => Backlog') /\ (Records => Records')
        BY <2>4
      <4> HIDE DEF Apart, Backlog, Records
      <4> QED
        BY <1>1, <2>0, <4>2, <4>3
    <3> QED
      BY <2>4, <3>1, <3>2
  <2> HIDE DEF Apart, Backlog, Records
  <2> QED
    BY <1>2, <2>1, <2>2, <2>3, <2>4, ServerMoves
<1>3. ASSUME NEW c \in Launches, ClientStep(c) PROVE OnceInv'
  <2>1. UNCHANGED << mode, srv, current, records >>
    BY <1>3, ClientMoves
  <2>2. \A l \in Launches : (InHand(l)' <=> InHand(l)) /\ (Recorded(l)' <=> Recorded(l))
    BY <2>1 DEF InHand, RequestOf, Recorded
  <2>3. Records => Records'
    BY <2>1
  <2>4. CASE wants' \subseteq wants /\ backlog' = backlog
    <3>1. \A l \in Launches : Queued(l)' <=> Queued(l)
      BY <2>4 DEF Queued, RequestOf
    <3>2. \A l \in Launches : Apart(l) => Apart(l)'
      BY <2>2, <2>4, <3>1
    <3>3. Backlog => Backlog'
      BY <2>4
    <3> HIDE DEF Apart, Backlog, Records
    <3> QED
      BY <1>1, <2>1, <2>3, <3>2, <3>3
  <2>5. CASE c \in wants /\ wants' = wants \ {c} /\ backlog' = Append(backlog, RequestOf(c))
    <3>1. backlog' = Append(backlog, [by |-> c, kind |-> "request"])
      BY <2>5 DEF RequestOf
    <3>2. \A l \in Launches : Queued(l)' => Queued(l) \/ l = c
      BY <1>0, <3>1, QueuedAfter
    <3>3. Backlog /\ ~Queued(c) => Backlog'
      BY <1>0, <3>1, QueuedAfter
    <3>4. \A l \in Launches : Apart(l) => Apart(l)'
      BY <2>2, <2>5, <3>2
    <3>5. Apart(c) => ~Queued(c)
      BY <2>5
    <3> HIDE DEF Apart, Backlog, Records
    <3> QED
      BY <1>1, <2>1, <2>3, <3>3, <3>4, <3>5
  <2>6. CASE wants' = wants /\ backlog' = Append(backlog, [by |-> c, kind |-> "silent"])
    <3>1. \A l \in Launches : Queued(l)' => Queued(l)
      BY <1>0, <2>6, QueuedAfter
    <3>2. Backlog => Backlog'
      BY <1>0, <2>6, QueuedAfter
    <3>3. \A l \in Launches : Apart(l) => Apart(l)'
      BY <2>2, <2>6, <3>1
    <3> HIDE DEF Apart, Backlog, Records
    <3> QED
      BY <1>1, <2>1, <2>3, <3>2, <3>3
  <2> QED
    BY <1>3, <2>4, <2>5, <2>6, ClientMoves
<1>4. CASE MainStep \/ Interrupt
  <2>1. UNCHANGED << mode, srv, current, records, backlog >>
    BY <1>4, MainMoves
  <2>2. \A l \in Launches : /\ InHand(l)' <=> InHand(l)
                            /\ Recorded(l)' <=> Recorded(l)
                            /\ Queued(l)' <=> Queued(l)
    BY <2>1 DEF InHand, RequestOf, Recorded, Queued
  <2>3. (Records => Records') /\ (Backlog => Backlog')
    BY <2>1
  <2>4. CASE wants' = wants
    <3>1. \A l \in Launches : Apart(l) => Apart(l)'
      BY <2>2, <2>4
    <3> HIDE DEF Apart, Backlog, Records
    <3> QED
      BY <1>1, <2>1, <2>3, <3>1
  <2>5. CASE stage = "launch" /\ wants' = wants \cup {launch}
    <3>1. ~Queued(launch) /\ ~InHand(launch) /\ ~Recorded(launch)
      <4>1. ~(launch < launch)
        BY <1>t, SMT
      <4> QED
        BY <1>0, <1>t, <2>5, <4>1 DEF LaunchedInv
    <3>2. \A l \in Launches : Apart(l) => Apart(l)'
      BY <2>2, <2>5, <3>1
    <3> HIDE DEF Apart, Backlog, Records
    <3> QED
      BY <1>1, <2>1, <2>3, <3>2
  <2> QED
    BY <1>4, <2>4, <2>5, MainMoves
<1>5. CASE UNCHANGED captureVars
  BY <1>0, <1>5 DEF captureVars, server, clients, OnceInv, Queued, InHand, Recorded
<1> QED
  BY <1>2, <1>3, <1>4, <1>5, Actors

LEMMA OrderKept ==
  ASSUME CaptureInv, [CaptureNext]_captureVars PROVE OrderInv'
<1>0. CaptureTypeOK /\ CountedInv /\ LaunchInv /\ LaunchedInv /\ OnceInv /\ OrderInv
  BY DEF CaptureInv
<1>t. /\ records \in Seq([by : Launches, label : {"cold", "resumed"}])
      /\ current \in Connections /\ sequence \in Nat /\ completed \in Nat
      /\ launch \in Nat /\ step \in Nat /\ Launches \subseteq Nat \ {0}
      /\ served \subseteq Nat /\ step <= launch
  BY <1>0, SMT DEF CaptureTypeOK, LaunchInv, Launches
<1>1. ASSUME UNCHANGED << mode, launch, step, completed, served, records >>,
             (stage' \in {"end", "cleanup"} /\ failure' = "none" /\ outcome' = "captured") =>
               \/ stage \in {"end", "cleanup"} /\ failure = "none" /\ outcome = "captured"
               \/ mode = "cold" => step <= completed
      PROVE  OrderInv'
  BY <1>0, <1>1 DEF OrderInv
<1>2. CASE MainStep \/ Interrupt
  <2>0. UNCHANGED << mode, completed, served, records >>
    BY <1>2, MainFrame DEF server
  <2>1. CASE WaitReady \/ Join
    BY <1>1, <2>0, <2>1 DEF WaitReady, Join, progress
  <2>2. CASE Interrupt
    BY <1>1, <2>0, <2>2 DEF Interrupt
  <2>3. CASE Prepare \/ Launch
    BY <1>1, <2>0, <2>3 DEF Prepare, Launch, progress, GivesUp
  <2>4. CASE WaitCaptured
    <3>1. /\ UNCHANGED << launch, step >>
          /\ outcome' = IF completed >= Target THEN "captured" ELSE "timed_out"
      BY <2>4 DEF WaitCaptured, progress
    <3>2. outcome' = "captured" => (mode = "cold" => step <= completed)
      <4>1. ASSUME mode = "cold", completed >= Target PROVE step <= completed
        BY <1>t, <4>1, SMT DEF Target
      <4> QED
        BY <3>1, <4>1
    <3> QED
      BY <1>1, <2>0, <3>1, <3>2
  <2>5. CASE EndLaunch
    BY <1>1, <2>0, <2>5 DEF EndLaunch, progress
  <2>6. ASSUME stage' \notin {"end", "cleanup"},
               \/ UNCHANGED << launch, step >>
               \/ /\ launch' = launch + 1 /\ step' = step + 1
                  /\ mode = "cold" /\ launch = step => step <= completed
               \/ launch' = launch + 1 /\ step' = step
        PROVE  OrderInv'
    <3>1. CASE UNCHANGED << launch, step >>
      BY <1>1, <2>0, <2>6, <3>1
    <3>2. CASE /\ launch' = launch + 1 /\ step' = step + 1
               /\ mode = "cold" /\ launch = step => step <= completed
      <4>1. launch' = step' => launch = step
        BY <1>t, <3>2, SMT
      <4>2. step' - 1 = step
        BY <1>t, <3>2, SMT
      <4> QED
        BY <1>0, <2>0, <2>6, <3>2, <4>1, <4>2 DEF OrderInv
    <3>3. CASE launch' = launch + 1 /\ step' = step
      <4>1. launch' # step'
        BY <1>t, <3>3, SMT
      <4> QED
        BY <4>1 DEF OrderInv
    <3> QED
      BY <2>6, <3>1, <3>2, <3>3
  <2>7. CASE Cleanup
    <3>1. /\ stage = "cleanup"
          /\ \/ UNCHANGED << progress >> /\ stage' = "raised"
             \/ GivesUp
             \/ failure = "none" /\ GoesOn(outcome)
      <4>1. failure \in {"none", "error", "interrupt"}
        BY <1>0 DEF CaptureTypeOK
      <4> QED
        BY <2>7, <4>1 DEF Cleanup
    <3>2. mode = "cold" /\ launch = step /\ failure = "none" /\ outcome = "captured" =>
            step <= completed
      BY <1>0, <3>1 DEF OrderInv
    <3>3. stage' \notin {"end", "cleanup"}
      BY <3>1 DEF GivesUp, GoesOn
    <3>4. \/ UNCHANGED << launch, step >>
          \/ /\ launch' = launch + 1 /\ step' = step + 1
             /\ mode = "cold" /\ launch = step => step <= completed
          \/ launch' = launch + 1 /\ step' = step
      BY <3>1, <3>2 DEF GivesUp, GoesOn, progress
    <3> QED
      BY <2>6, <3>3, <3>4
  <2>8. CASE RunClient
    <3> DEFINE result == IF launch \notin running /\ launch \in served
                         THEN "captured" ELSE "timed_out"
    <3>1. GoesOn(result)
      BY <2>8 DEF RunClient
    <3>2. mode = "cold" /\ launch = step /\ result = "captured" => step <= completed
      BY <1>0 DEF OrderInv
    <3> HIDE DEF result
    <3>3. stage' \notin {"end", "cleanup"}
      BY <3>1 DEF GivesUp, GoesOn
    <3>4. \/ UNCHANGED << launch, step >>
          \/ /\ launch' = launch + 1 /\ step' = step + 1
             /\ mode = "cold" /\ launch = step => step <= completed
          \/ launch' = launch + 1 /\ step' = step
      BY <3>1, <3>2 DEF GivesUp, GoesOn, progress
    <3> QED
      BY <2>6, <3>3, <3>4
  <2> QED
    BY <1>2, <2>1, <2>2, <2>3, <2>4, <2>5, <2>7, <2>8 DEF MainStep
<1>3. ASSUME NEW c \in Launches, ClientStep(c) PROVE OrderInv'
  BY <1>1, <1>3, ClientFrame DEF progress, server
<1>4. CASE UNCHANGED captureVars
  BY <1>1, <1>4 DEF captureVars, server, clients, progress
<1>5. CASE ServerStep
  <2>0. UNCHANGED << mode, launch, step, stage, failure, outcome >>
    BY <1>5, ServerFrame DEF progress
  <2>1. CASE UNCHANGED << completed, served, records >>
    BY <1>1, <2>0, <2>1
  <2>2. CASE /\ srv = "request" /\ UNCHANGED << completed, served >>
             /\ records' = Append(records, [by |-> current.by, label |-> Label])
    <3>1. [by |-> current.by, label |-> Label] \in [by : Launches, label : {"cold", "resumed"}]
      BY <1>t DEF Label, Connections
    <3>2. /\ DOMAIN records = 1 .. Len(records) /\ DOMAIN records' = 1 .. Len(records) + 1
          /\ \A i \in DOMAIN records : records'[i] = records[i]
          /\ records'[Len(records) + 1].by = current.by /\ Len(records) \in Nat
      BY <1>t, <2>2, <3>1, Extended
    <3>3. Len(records) + 1 = sequence /\ completed = sequence - 1
      BY <1>0, <1>t, <2>2, <3>2, SMT DEF CountedInv
    <3>4. \A i \in DOMAIN records' : i \in DOMAIN records \/ i = sequence
      BY <3>2, <3>3, SMT
    <3>5. ASSUME mode = "cold", launch = step PROVE current.by = sequence
      <4>1. InHand(current.by) /\ current.by \in Launches
        BY <1>0, <1>t, <2>2 DEF InHand, RequestOf, CountedInv, Connections
      <4>2. ~Recorded(current.by)
        BY <1>0, <3>5, <4>1 DEF OnceInv
      <4>3. current.by < launch \/ current.by <= launch
        BY <1>0, <4>1 DEF LaunchedInv
      <4>4. step - 1 <= completed /\ \A i \in DOMAIN records : records[i].by = i
        BY <1>0, <3>5 DEF OrderInv
      <4>5. current.by \notin DOMAIN records
        BY <4>2, <4>4 DEF Recorded
      <4>6. current.by \in Nat \ {0}
        BY <1>t, <4>1
      <4> QED
        BY <1>t, <3>2, <3>3, <3>5, <4>3, <4>4, <4>5, <4>6, SMT
    <3> QED
      BY <1>0, <2>0, <2>2, <3>2, <3>3, <3>4, <3>5 DEF OrderInv
  <2>3. CASE /\ srv = "answer" /\ UNCHANGED records
             /\ completed' = sequence
             /\ served' \subseteq served \cup {current.by}
    <3>1. /\ Len(records) = sequence /\ records[sequence].by = current.by
          /\ completed = sequence - 1
      BY <1>0, <2>3 DEF CountedInv
    <3>2. completed' = completed + 1 /\ sequence \in DOMAIN records
      <4>1. sequence \in 1 .. Count + 1 /\ Count \in Nat
        BY <1>0, CountAssumption DEF CaptureTypeOK
      <4> QED
        BY <1>t, <2>3, <3>1, <4>1, SMT
    <3>3. ASSUME mode = "cold", launch = step
          PROVE  /\ step - 1 <= completed' /\ step <= completed'
                 /\ \A l \in served' : l <= completed'
      <4>1. /\ step - 1 <= completed /\ \A l \in served : l <= completed
            /\ records[sequence].by = sequence
        BY <1>0, <3>2, <3>3 DEF OrderInv
      <4>2. step - 1 <= completed' /\ step <= completed'
        BY <1>t, <3>2, <4>1, SMT
      <4>3. ASSUME NEW l \in served' PROVE l <= completed'
        <5>1. CASE l \in served
          <6>1. l \in Nat /\ l <= completed
            BY <1>t, <4>1, <5>1
          <6> QED
            BY <1>t, <3>2, <6>1, SMT
        <5>2. CASE l = current.by
          <6>1. l = completed' /\ completed' \in Nat
            BY <1>t, <2>3, <3>1, <4>1, <5>2
          <6> QED
            BY <6>1, SMT
        <5> QED
          BY <2>3, <4>3, <5>1, <5>2
      <4> QED
        BY <4>2, <4>3
    <3> QED
      BY <1>0, <2>0, <2>3, <3>3 DEF OrderInv
  <2>4. CASE Record
    <3>1. UNCHANGED served
      BY <2>4 DEF Record, Elsewhere, clients
    <3> QED
      BY <2>1, <2>2, <2>4, <3>1 DEF Record, ClosesEarly, ServerGoes
  <2>5. CASE Answer
    BY <2>1, <2>3, <2>5 DEF Answer, ServerGoes, Elsewhere, clients
  <2>6. CASE ServerStarts \/ Top \/ Accept \/ AcceptTimesOut \/ Handshake
    BY <2>1, <2>6 DEF ServerStarts, Top, Accept, AcceptTimesOut, Handshake, ClosesEarly,
                      ServerGoes, Elsewhere, clients
  <2> QED
    BY <1>5, <2>4, <2>5, <2>6 DEF ServerStep
<1> QED
  BY <1>2, <1>3, <1>4, <1>5, Actors

LEMMA CaptureInitInv == CaptureInit => CaptureInv
<1> SUFFICES ASSUME CaptureInit PROVE CaptureInv
  OBVIOUS
<1>1. /\ 1 \in Launches /\ 1 \in 1 .. Count /\ 1 \in 1 .. Attempts /\ 1 \in 1 .. Count + 1
      /\ 0 \in 0 .. Count /\ 1 <= (1 - 1) * Attempts + 1
  <2>1. /\ 1 \in 1 .. Count /\ 1 \in 1 .. Attempts /\ 1 \in Nat \ {0}
        /\ 1 \in 1 .. Count + 1 /\ 0 \in 0 .. Count
        /\ 1 <= (1 - 1) * Attempts + 1
    BY CountAssumption, SMT
  <2> QED
    BY <2>1, Numbered
<1>2. /\ Nobody \in Connections /\ << >> \in Seq(Connections)
      /\ << >> \in Seq([by : Launches, label : {"cold", "resumed"}])
      /\ Len(<< >>) = 0 /\ DOMAIN << >> = {}
  <2>1. Nobody \in Connections
    BY <1>1 DEF Nobody, Connections
  <2> QED
    BY <2>1, SMT
<1>3. CaptureTypeOK
  BY <1>1, <1>2 DEF CaptureInit, CaptureTypeOK
<1>4. CountedInv
  <2>1. 0 = 1 - 1
    BY SMT
  <2> QED
    BY <1>2, <2>1 DEF CaptureInit, CountedInv
<1>5. StopInv /\ LeftBehindInv
  BY DEF CaptureInit, StopInv, LeftBehindInv
<1>6. LaunchInv
  <2>1. Steps \in 1 .. Count /\ Tries \in 1 .. Attempts
    <3>1. Count \in 1 .. Count /\ Attempts \in 1 .. Attempts
      BY CountAssumption, SMT
    <3> QED
      BY <1>1, <3>1 DEF Steps, Tries
  <2>2. 1 <= Steps /\ 1 <= Tries
    BY <2>1, CountAssumption, SMT
  <2> QED
    BY <1>1, <2>2, SMT DEF CaptureInit, LaunchInv
<1>7. LaunchedInv /\ OnceInv /\ LabelInv
  <2>1. /\ wants = {} /\ DOMAIN backlog = {} /\ DOMAIN records = {} /\ srv = "starting"
    BY <1>2 DEF CaptureInit
  <2> QED
    BY <2>1 DEF LaunchedInv, OnceInv, LabelInv, Queued, InHand, Recorded
<1>8. OrderInv
  <2>1. 1 - 1 <= 0
    BY SMT
  <2> QED
    BY <1>2, <2>1 DEF CaptureInit, OrderInv
<1> QED
  BY <1>3, <1>4, <1>5, <1>6, <1>7, <1>8 DEF CaptureInv

LEMMA CaptureInductive == CaptureInv /\ [CaptureNext]_captureVars => CaptureInv'
  BY CaptureTypesKept, CountedKept, StopKept, LeftBehindKept, LaunchKept, LaunchedKept,
     OnceKept, LabelsKept, OrderKept DEF CaptureInv

LEMMA CaptureInvariance == CaptureSpec => []CaptureInv
  BY CaptureInitInv, CaptureInductive, PTL DEF CaptureSpec

\* The variables of a suite keep their types; in particular there are no more
\* launches than steps and attempts allow.
THEOREM CaptureTypeCorrect == CaptureSpec => []CaptureTypeOK
<1>1. CaptureInv => CaptureTypeOK
  BY DEF CaptureInv
<1> QED
  BY <1>1, CaptureInvariance, PTL

\* A suite that returns has all its records, and its server thread has ended.
THEOREM ManifestsAreComplete == CaptureSpec => []ManifestIsComplete
<1>1. ASSUME CaptureInv, stage = "returned" PROVE srv = "done" /\ Len(records) = Count
  <2>1. /\ srv = "done" /\ ~stop /\ sequence > Count /\ Len(records) = sequence - 1
        /\ sequence \in 1 .. Count + 1
    BY <1>1 DEF CaptureInv, StopInv, CountedInv, CaptureTypeOK
  <2> QED
    BY <2>1, CountAssumption, SMT
<1>2. CaptureInv => ManifestIsComplete
  BY <1>1 DEF ManifestIsComplete
<1> QED
  BY <1>2, CaptureInvariance, PTL

\* A handshake is labelled cold exactly when it is the first of its client, and
\* without repeated launches record n of a cold suite is that of launch n.
THEOREM RecordsTellTheTruth == CaptureSpec => []RecordsAreTrue
<1>1. ASSUME CaptureInv, NEW i \in DOMAIN records
      PROVE  records[i].label = "cold" <=>
               \A j \in 1 .. i - 1 : records[j].by # records[i].by
  <2>1. /\ records[i].label = IF mode = "resumed" /\ i > 1 THEN "resumed" ELSE "cold"
        /\ mode \in {"cold", "resumed"}
    BY <1>1 DEF CaptureInv, LabelInv, CaptureTypeOK
  <2>2. /\ DOMAIN records = 1 .. Len(records) /\ Len(records) \in Nat
        /\ i \in Nat \ {0} /\ \A j \in 1 .. i - 1 : j \in DOMAIN records /\ j # i
        /\ \A j \in DOMAIN records : records[j].by \in Launches
    <3>1. records \in Seq([by : Launches, label : {"cold", "resumed"}])
      BY <1>1 DEF CaptureInv, CaptureTypeOK
    <3>2. \A j \in DOMAIN records : records[j] \in [by : Launches, label : {"cold", "resumed"}]
      BY <3>1, Entries
    <3>3. DOMAIN records = 1 .. Len(records) /\ Len(records) \in Nat
      BY <3>1, SMT
    <3>4. i \in Nat \ {0} /\ \A j \in 1 .. i - 1 : j \in 1 .. Len(records) /\ j # i
      BY <1>1, <3>3, SMT
    <3> QED
      BY <3>2, <3>3, <3>4
  <2>3. CASE mode = "cold"
    <3>1. \A j \in DOMAIN records : records[j].by = records[i].by => j = i
      BY <1>1, <2>3 DEF CaptureInv, OnceInv
    <3> QED
      BY <2>1, <2>2, <2>3, <3>1
  <2>4. CASE mode = "resumed"
    <3>1. launch = 1
      <4>1. /\ step <= 1 /\ attempt <= 1 /\ step <= launch
            /\ launch <= (step - 1) * Attempts + attempt
            /\ step \in Nat \ {0} /\ attempt \in Nat \ {0} /\ launch \in Nat
            /\ Attempts \in Nat
        BY <1>1, <2>4, CountAssumption, SMT
           DEF CaptureInv, LaunchInv, CaptureTypeOK, Launches, Steps, Tries
      <4>2. step = 1 /\ attempt = 1
        BY <4>1, SMT
      <4> QED
        BY <4>1, <4>2, SMT
    <3>2. \A j \in DOMAIN records : records[j].by = 1
      <4>1. ASSUME NEW j \in DOMAIN records PROVE records[j].by = 1
        <5>1. records[j].by \in Launches /\ Recorded(records[j].by)
          BY <2>2 DEF Recorded
        <5>2. records[j].by < 1 \/ records[j].by <= 1
          BY <1>1, <3>1, <5>1 DEF CaptureInv, LaunchedInv
        <5> QED
          BY <5>1, <5>2, SMT DEF Launches
      <4> QED
        BY <4>1
    <3>3. CASE i = 1
      <4>1. 1 .. i - 1 = {}
        BY <3>3, SMT
      <4>2. records[i].label = "cold"
        BY <2>1, <3>3, SMT
      <4> QED
        BY <4>1, <4>2
    <3>4. CASE i # 1
      <4>1. i > 1 /\ 1 \in 1 .. i - 1
        BY <2>2, <3>4, SMT
      <4> QED
        BY <2>1, <2>2, <2>4, <3>2, <4>1
    <3> QED
      BY <3>3, <3>4
  <2> QED
    BY <2>1, <2>3, <2>4
<1>2. ASSUME CaptureInv PROVE RecordsAreTrue
  <2>1. mode = "cold" /\ launch = step => \A i \in DOMAIN records : records[i].by = i
    BY <1>2 DEF CaptureInv, OrderInv
  <2> QED
    BY <1>1, <1>2, <2>1 DEF RecordsAreTrue
<1> QED
  BY <1>2, CaptureInvariance, PTL

\* However a suite ends, but for an interrupt, it leaves no client and no profile
\* behind that it could get rid of, and two clients never run at a time.
THEOREM NothingOutlivesTheSuite == CaptureSpec => []NothingLeftRunning
<1>1. CaptureInv => NothingLeftRunning
  <2> SUFFICES ASSUME CaptureInv, failure # "interrupt"
               PROVE  /\ running \ survivors \subseteq {launch}
                      /\ Ended => running \subseteq survivors /\ profiles \subseteq left
    BY DEF NothingLeftRunning
  <2> QED
    BY DEF CaptureInv, LeftBehindInv, Ended
<1> QED
  BY <1>1, CaptureInvariance, PTL

-----------------------------------------------------------------------------
(* The members of an archive *)

Member == [name : FileNames, kind : {"file", "directory", "link"}, size : Int]
Scan == [names : SUBSET FileNames, members : Nat, size : Int, safe : BOOLEAN]

LEMMA ScanTyped ==
  /\ ArchiveStart \in Scan
  /\ \A scan \in Scan, m \in Member : ArchiveMember(scan, m) \in Scan
<1>1. \A n \in FileNames : Casefold[n] \in FileNames
  BY NamesAssumption
<1>2. ArchiveStart \in Scan
  BY SMT DEF ArchiveStart, Scan
<1>3. ASSUME NEW scan \in Scan, NEW m \in Member PROVE ArchiveMember(scan, m) \in Scan
  <2>1. Casefold[m.name] \in FileNames /\ m.size \in Int
    BY <1>1 DEF Member
  <2>2. scan.names \in SUBSET FileNames /\ scan.members \in Nat /\ scan.size \in Int
        /\ scan.safe \in BOOLEAN
    BY DEF Scan
  <2>3. scan.names \cup {Casefold[m.name]} \in SUBSET FileNames
        /\ scan.members + 1 \in Nat /\ scan.size + m.size \in Int
    BY <2>1, <2>2, SMT
  <2>4. [scan EXCEPT !.safe = FALSE] \in Scan
    BY DEF Scan
  <2>5. [names |-> scan.names \cup {Casefold[m.name]}, members |-> scan.members + 1,
         size |-> scan.size + m.size, safe |-> scan.safe] \in Scan
    BY <2>2, <2>3, Zenon DEF Scan
  <2> QED
    BY <2>4, <2>5, Zenon DEF ArchiveMember
<1> QED
  BY <1>2, <1>3

\* _validate_archive_members() goes through the members one by one.
LEMMA ArchiveRuns ==
  ASSUME NEW archive \in Seq(Member)
  PROVE  \E run : /\ run[0] = ArchiveStart
                  /\ \A i \in 1 .. Len(archive) :
                       run[i] = ArchiveMember(run[i - 1], archive[i])
                  /\ run[Len(archive)] = FoldLeft(ArchiveMember, ArchiveStart, archive)
<1> DEFINE F == [x \in Scan \X Member |-> ArchiveMember(x[1], x[2])]
           D == DOMAIN archive
           Eq(g) == g = [s \in SUBSET D |->
                           IF s = {} THEN ArchiveStart
                                     ELSE ArchiveMember(g[s \ {Max(s)}], archive[Max(s)])]
           iter == CHOOSE g : Eq(g)
<1>1. F \in [Scan \X Member -> Scan] /\ ArchiveStart \in Scan
  BY ScanTyped, Zenon
<1>2. Len(archive) \in Nat /\ D = 1 .. Len(archive)
      /\ \A i \in D : archive[i] \in Member
  BY SMT
<1>3. \E g : Eq(g)
  <2> HIDE DEF F
  <2>1. PICK g : FoldedWith(g, F, Scan, ArchiveStart, archive)
    BY <1>1, FoldExists
  <2> USE DEF F
  <2>2. ASSUME NEW s \in SUBSET D, s # {}
        PROVE  g[s] = ArchiveMember(g[s \ {Max(s)}], archive[Max(s)])
    <3>1. Max(s) \in D
      BY <1>2, <2>2, MaxIs, Zenon
    <3>2. archive[Max(s)] \in Member /\ g[s \ {Max(s)}] \in Scan
      BY <1>2, <2>1, <3>1 DEF FoldedWith
    <3>3. g[s] = F[<< g[s \ {Max(s)}], archive[Max(s)] >>]
      BY <2>1, <2>2, Zenon DEF FoldedWith
    <3> QED
      BY <3>2, <3>3
  <2>3. \A s \in SUBSET D :
          g[s] = IF s = {} THEN ArchiveStart
                           ELSE ArchiveMember(g[s \ {Max(s)}], archive[Max(s)])
    BY <2>1, <2>2, Zenon DEF FoldedWith
  <2>4. Eq(g)
    BY <2>1, <2>3, Zenon DEF FoldedWith
  <2> QED
    BY <2>4
<1>4. Eq(iter)
  <2> HIDE DEF Eq
  <2> QED
    BY <1>3
<1>5. FoldLeft(ArchiveMember, ArchiveStart, archive) = iter[D]
  BY DEF FoldLeft, MapThenFoldSet
<1> HIDE DEF iter
<1>6. \A s \in SUBSET D : iter[s] = IF s = {} THEN ArchiveStart
        ELSE ArchiveMember(iter[s \ {Max(s)}], archive[Max(s)])
  BY <1>4, Zenon
<1> DEFINE run == [i \in 0 .. Len(archive) |-> iter[1 .. i]]
<1>7. run[0] = ArchiveStart
  <2>1. 0 \in 0 .. Len(archive) /\ 1 .. 0 = {} /\ {} \in SUBSET D
    BY <1>2, SMT
  <2>2. run[0] = iter[1 .. 0]
    BY <2>1
  <2> HIDE DEF run
  <2> QED
    BY <1>6, <2>1, <2>2, Zenon
<1>8. ASSUME NEW i \in 1 .. Len(archive)
      PROVE  run[i] = ArchiveMember(run[i - 1], archive[i])
  <2>1. i \in 0 .. Len(archive) /\ i - 1 \in 0 .. Len(archive)
    BY <1>2, SMT
  <2>2. run[i] = iter[1 .. i] /\ run[i - 1] = iter[1 .. (i - 1)]
    BY <2>1
  <2>3. /\ 1 .. i \in SUBSET D /\ 1 .. i # {} /\ Max(1 .. i) = i
        /\ (1 .. i) \ {Max(1 .. i)} = 1 .. (i - 1)
    BY <1>2, FoldRuns
  <2> HIDE DEF run
  <2> QED
    BY <1>6, <2>2, <2>3, Zenon
<1>9. run[Len(archive)] = iter[D]
  <2>1. Len(archive) \in 0 .. Len(archive)
    BY <1>2, SMT
  <2> QED
    BY <1>2, <2>1
<1> QED
  BY <1>5, <1>7, <1>8, <1>9

\* The sum of their sizes.
LEMMA SumRuns ==
  ASSUME NEW archive \in Seq(Member)
  PROVE  \E run : /\ run[0] = 0
                  /\ \A i \in 1 .. Len(archive) :
                       run[i] = run[i - 1] + archive[i].size
                  /\ run[Len(archive)] = FoldLeft(LAMBDA sum, m : sum + m.size, 0, archive)
<1> DEFINE F == [x \in Int \X Member |-> x[1] + x[2].size]
           D == DOMAIN archive
           Eq(g) == g = [s \in SUBSET D |->
                           IF s = {} THEN 0
                                     ELSE g[s \ {Max(s)}] + archive[Max(s)].size]
           iter == CHOOSE g : Eq(g)
<1>1. F \in [Int \X Member -> Int] /\ 0 \in Int
  BY SMT DEF Member
<1>2. Len(archive) \in Nat /\ D = 1 .. Len(archive)
      /\ \A i \in D : archive[i] \in Member
  BY SMT
<1>3. \E g : Eq(g)
  <2> HIDE DEF F
  <2>1. PICK g : FoldedWith(g, F, Int, 0, archive)
    BY <1>1, FoldExists
  <2> USE DEF F
  <2>2. ASSUME NEW s \in SUBSET D, s # {}
        PROVE  g[s] = g[s \ {Max(s)}] + archive[Max(s)].size
    <3>1. Max(s) \in D
      BY <1>2, <2>2, MaxIs, Zenon
    <3>2. archive[Max(s)] \in Member /\ g[s \ {Max(s)}] \in Int
      BY <1>2, <2>1, <3>1 DEF FoldedWith
    <3>3. g[s] = F[<< g[s \ {Max(s)}], archive[Max(s)] >>]
      BY <2>1, <2>2, Zenon DEF FoldedWith
    <3> QED
      BY <3>2, <3>3
  <2>3. \A s \in SUBSET D :
          g[s] = IF s = {} THEN 0
                           ELSE g[s \ {Max(s)}] + archive[Max(s)].size
    BY <2>1, <2>2, Zenon DEF FoldedWith
  <2>4. Eq(g)
    BY <2>1, <2>3, Zenon DEF FoldedWith
  <2> QED
    BY <2>4
<1>4. Eq(iter)
  <2> HIDE DEF Eq
  <2> QED
    BY <1>3
<1>5. FoldLeft(LAMBDA sum, m : sum + m.size, 0, archive) = iter[D]
  BY DEF FoldLeft, MapThenFoldSet
<1> HIDE DEF iter
<1>6. \A s \in SUBSET D : iter[s] = IF s = {} THEN 0
        ELSE iter[s \ {Max(s)}] + archive[Max(s)].size
  BY <1>4, Zenon
<1> DEFINE run == [i \in 0 .. Len(archive) |-> iter[1 .. i]]
<1>7. run[0] = 0
  <2>1. 0 \in 0 .. Len(archive) /\ 1 .. 0 = {} /\ {} \in SUBSET D
    BY <1>2, SMT
  <2>2. run[0] = iter[1 .. 0]
    BY <2>1
  <2> HIDE DEF run
  <2> QED
    BY <1>6, <2>1, <2>2, Zenon
<1>8. ASSUME NEW i \in 1 .. Len(archive)
      PROVE  run[i] = run[i - 1] + archive[i].size
  <2>1. i \in 0 .. Len(archive) /\ i - 1 \in 0 .. Len(archive)
    BY <1>2, SMT
  <2>2. run[i] = iter[1 .. i] /\ run[i - 1] = iter[1 .. (i - 1)]
    BY <2>1
  <2>3. /\ 1 .. i \in SUBSET D /\ 1 .. i # {} /\ Max(1 .. i) = i
        /\ (1 .. i) \ {Max(1 .. i)} = 1 .. (i - 1)
    BY <1>2, FoldRuns
  <2> HIDE DEF run
  <2> QED
    BY <1>6, <2>2, <2>3, Zenon
<1>9. run[Len(archive)] = iter[D]
  <2>1. Len(archive) \in 0 .. Len(archive)
    BY <1>2, SMT
  <2> QED
    BY <1>2, <2>1
<1> QED
  BY <1>5, <1>7, <1>8, <1>9


-----------------------------------------------------------------------------
(* The sources of a lock *)

Source == [id : STRING, filename : STRING, wellFormed : BOOLEAN]
SourcesSeen == [ids : SUBSET STRING, filenames : SUBSET STRING, valid : BOOLEAN]

LEMMA SourcesTyped ==
  /\ SourceStart \in SourcesSeen
  /\ \A scan \in SourcesSeen, s \in Source : SourceEntry(scan, s) \in SourcesSeen
<1>1. SourceStart \in SourcesSeen
  BY DEF SourceStart, SourcesSeen
<1>2. ASSUME NEW scan \in SourcesSeen, NEW s \in Source
      PROVE  SourceEntry(scan, s) \in SourcesSeen
  BY DEF SourceEntry, SourcesSeen, Source
<1> QED
  BY <1>1, <1>2

\* load_source_lock() goes through the sources one by one.
LEMMA SourcesRun ==
  ASSUME NEW sources \in Seq(Source)
  PROVE  \E run : /\ run[0] = SourceStart
                  /\ \A i \in 1 .. Len(sources) :
                       run[i] = SourceEntry(run[i - 1], sources[i])
                  /\ run[Len(sources)] = FoldLeft(SourceEntry, SourceStart, sources)
<1> DEFINE F == [x \in SourcesSeen \X Source |-> SourceEntry(x[1], x[2])]
           D == DOMAIN sources
           Eq(g) == g = [s \in SUBSET D |->
                           IF s = {} THEN SourceStart
                                     ELSE SourceEntry(g[s \ {Max(s)}], sources[Max(s)])]
           iter == CHOOSE g : Eq(g)
<1>1. F \in [SourcesSeen \X Source -> SourcesSeen] /\ SourceStart \in SourcesSeen
  BY SourcesTyped, Zenon
<1>2. Len(sources) \in Nat /\ D = 1 .. Len(sources)
      /\ \A i \in D : sources[i] \in Source
  BY SMT
<1>3. \E g : Eq(g)
  <2> HIDE DEF F
  <2>1. PICK g : FoldedWith(g, F, SourcesSeen, SourceStart, sources)
    BY <1>1, FoldExists
  <2> USE DEF F
  <2>2. ASSUME NEW s \in SUBSET D, s # {}
        PROVE  g[s] = SourceEntry(g[s \ {Max(s)}], sources[Max(s)])
    <3>1. Max(s) \in D
      BY <1>2, <2>2, MaxIs, Zenon
    <3>2. sources[Max(s)] \in Source /\ g[s \ {Max(s)}] \in SourcesSeen
      BY <1>2, <2>1, <3>1 DEF FoldedWith
    <3>3. g[s] = F[<< g[s \ {Max(s)}], sources[Max(s)] >>]
      BY <2>1, <2>2, Zenon DEF FoldedWith
    <3> QED
      BY <3>2, <3>3
  <2>3. \A s \in SUBSET D :
          g[s] = IF s = {} THEN SourceStart
                           ELSE SourceEntry(g[s \ {Max(s)}], sources[Max(s)])
    BY <2>1, <2>2, Zenon DEF FoldedWith
  <2>4. Eq(g)
    BY <2>1, <2>3, Zenon DEF FoldedWith
  <2> QED
    BY <2>4
<1>4. Eq(iter)
  <2> HIDE DEF Eq
  <2> QED
    BY <1>3
<1>5. FoldLeft(SourceEntry, SourceStart, sources) = iter[D]
  BY DEF FoldLeft, MapThenFoldSet
<1> HIDE DEF iter
<1>6. \A s \in SUBSET D : iter[s] = IF s = {} THEN SourceStart
        ELSE SourceEntry(iter[s \ {Max(s)}], sources[Max(s)])
  BY <1>4, Zenon
<1> DEFINE run == [i \in 0 .. Len(sources) |-> iter[1 .. i]]
<1>7. run[0] = SourceStart
  <2>1. 0 \in 0 .. Len(sources) /\ 1 .. 0 = {} /\ {} \in SUBSET D
    BY <1>2, SMT
  <2>2. run[0] = iter[1 .. 0]
    BY <2>1
  <2> HIDE DEF run
  <2> QED
    BY <1>6, <2>1, <2>2, Zenon
<1>8. ASSUME NEW i \in 1 .. Len(sources)
      PROVE  run[i] = SourceEntry(run[i - 1], sources[i])
  <2>1. i \in 0 .. Len(sources) /\ i - 1 \in 0 .. Len(sources)
    BY <1>2, SMT
  <2>2. run[i] = iter[1 .. i] /\ run[i - 1] = iter[1 .. (i - 1)]
    BY <2>1
  <2>3. /\ 1 .. i \in SUBSET D /\ 1 .. i # {} /\ Max(1 .. i) = i
        /\ (1 .. i) \ {Max(1 .. i)} = 1 .. (i - 1)
    BY <1>2, FoldRuns
  <2> HIDE DEF run
  <2> QED
    BY <1>6, <2>2, <2>3, Zenon
<1>9. run[Len(sources)] = iter[D]
  <2>1. Len(sources) \in 0 .. Len(sources)
    BY <1>2, SMT
  <2> QED
    BY <1>2, <2>1
<1> QED
  BY <1>5, <1>7, <1>8, <1>9

\* load_source_lock() accepts no two sources with one identifier or file name.
LEMMA NothingAmbiguous == Ambiguous = {}
<1> SUFFICES ASSUME NEW sources \in SourceLocks, LoadSourceLock(sources)
             PROVE  \A i, j \in DOMAIN sources :
                      i # j => /\ sources[i].id # sources[j].id
                               /\ sources[i].filename # sources[j].filename
  BY DEF Ambiguous
<1>1. sources \in Seq(Source)
  BY InputsAssumption DEF Source
<1>2. Len(sources) \in Nat /\ DOMAIN sources = 1 .. Len(sources)
  BY <1>1, SMT
<1>3. PICK run : /\ run[0] = SourceStart
                 /\ \A i \in 1 .. Len(sources) :
                      run[i] = SourceEntry(run[i - 1], sources[i])
                 /\ run[Len(sources)] = FoldLeft(SourceEntry, SourceStart, sources)
  BY <1>1, SourcesRun
<1> DEFINE Apart(n) == \A i, j \in 1 .. n :
                         i # j => /\ sources[i].id # sources[j].id
                                  /\ sources[i].filename # sources[j].filename
           Holds(n) == n <= Len(sources) =>
             /\ \A i \in 1 .. n : sources[i].id \in run[n].ids
                                  /\ sources[i].filename \in run[n].filenames
             /\ run[n].valid => Apart(n)
           T == {n \in Nat : Holds(n)}
<1>4. 0 \in T
  <2>1. 1 .. 0 = {}
    BY SMT
  <2> QED
    BY <2>1
<1>5. ASSUME NEW n \in T PROVE n + 1 \in T
  <2>1. n \in Nat /\ n + 1 \in Nat /\ n + 1 # 0 /\ (n + 1) - 1 = n
        /\ \A i \in 1 .. n + 1 : i \in 1 .. n \/ i = n + 1
    BY SMT
  <2>2. ASSUME n + 1 <= Len(sources)
        PROVE  /\ \A i \in 1 .. n + 1 : /\ sources[i].id \in run[n + 1].ids
                                        /\ sources[i].filename \in run[n + 1].filenames
               /\ run[n + 1].valid => Apart(n + 1)
    <3>1. n <= Len(sources) /\ n + 1 \in 1 .. Len(sources)
      BY <1>2, <2>1, <2>2, SMT
    <3>2. run[n + 1] = SourceEntry(run[n], sources[n + 1])
      BY <1>3, <2>1, <3>1
    <3>3. /\ run[n + 1].ids = run[n].ids \cup {sources[n + 1].id}
          /\ run[n + 1].filenames = run[n].filenames \cup {sources[n + 1].filename}
          /\ run[n + 1].valid => /\ run[n].valid
                                 /\ sources[n + 1].id \notin run[n].ids
                                 /\ sources[n + 1].filename \notin run[n].filenames
      BY <3>2 DEF SourceEntry
    <3>4. /\ \A i \in 1 .. n : sources[i].id \in run[n].ids
                               /\ sources[i].filename \in run[n].filenames
          /\ run[n].valid => Apart(n)
      BY <3>1
    <3>5. ASSUME run[n + 1].valid PROVE Apart(n + 1)
      <4>1. Apart(n)
        BY <3>3, <3>4, <3>5
      <4> QED
        BY <2>1, <3>3, <3>4, <3>5, <4>1, Zenon
    <3> HIDE DEF Apart
    <3> QED
      BY <2>1, <3>3, <3>4, <3>5, Zenon
  <2> HIDE DEF Apart
  <2> QED
    BY <2>1, <2>2
<1> HIDE DEF T, Holds
<1>6. Len(sources) \in T
  BY <1>2, <1>4, <1>5, AllNumbers DEF T
<1>7. Holds(Len(sources))
  BY <1>6 DEF T
<1>8. run[Len(sources)].valid /\ Len(sources) <= Len(sources)
  BY <1>2, <1>3 DEF LoadSourceLock
<1> QED
  BY <1>2, <1>7, <1>8, Zenon DEF Holds

-----------------------------------------------------------------------------
(* The locks of profiles and of runtimes *)

\* An accepted profile lock has all of the evidence of some platform.
LEMMA NothingOpen == Open = {}
<1> SUFFICES ASSUME NEW l \in ProfileLocks, NEW sources \in SourceLocks,
                    LoadProfileLock(l, IdsOf(sources))
             PROVE  /\ \A id \in {l.source, l.nss, l.nspr} :
                         \E i \in DOMAIN sources : sources[i].id = id
                    /\ l.evidence # {}
                    /\ l.evidence = l.builds /\ l.builds = l.systems
  BY DEF Open
<1>1. Verified(l) # {}
  BY DEF LoadProfileLock, DeferredPlatformsValid, Verified
<1>2. \A id \in IdsOf(sources) : \E i \in DOMAIN sources : sources[i].id = id
  BY DEF IdsOf, ToSet
<1>3. {l.source, l.nss, l.nspr} \subseteq IdsOf(sources)
  BY DEF LoadProfileLock, ComponentsValid
<1> QED
  BY <1>1, <1>2, <1>3 DEF LoadProfileLock, BuildsValid, CaptureValid

LEMMA FoldedApart ==
  ASSUME NEW names, Distinct(Folded(names)) PROVE Distinct(names)
  BY DEF Distinct, Folded

\* What the build and the start of a worker think of one lock.
LEMMA NoDisagreements == Disagreements = {}
<1> SUFFICES ASSUME NEW d \in Documents, LoadLock(d)
             PROVE  ValidateManifest(d, LockProfile(d), LockPlatform(d))
                      <=> /\ d.version = FirefoxVersion[LockProfile(d)]
                          /\ {d.build, d.nss, d.nspr} \subseteq
                               (IF d.schema = 1 THEN {"legacy"} ELSE Numeric)
                          /\ Distinct(Folded(NamesOf(d.files)))
  BY Zenon DEF Disagreements
<1>1. /\ d.files # << >>
      /\ \A i \in DOMAIN d.files : EntryValid(d.files[i])
      /\ d.schema = 2 => Sorted(NamesOf(d.files))
  BY DEF LoadLock
<1>2. CASE d.schema = 1
  <2>1. /\ LockProfile(d) = "firefox_152" /\ LockPlatform(d) = "windows-x86_64"
        /\ d.source = "legacy" /\ d.schema # 2
    BY <1>2 DEF LoadLock, LockProfile, LockPlatform
  <2>2. FirefoxVersion["firefox_152"] = "152.0.6"
    BY DEF FirefoxVersion, Profiles
  <2>3. /\ {d.build, d.nss, d.nspr} = {"legacy"}
             <=> {d.build, d.nss, d.nspr} \subseteq {"legacy"}
        /\ {"legacy"} \subseteq Numeric
    BY DEF Numeric
  <2> QED
    BY <1>1, <1>2, <2>1, <2>2, <2>3, Zenon DEF ValidateManifest
<1>3. CASE d.schema # 1
  <2>1. /\ LockProfile(d) = d.profile /\ LockPlatform(d) = d.platform
        /\ d.schema = 2 /\ d.exact /\ d.source # "invalid"
    BY <1>3 DEF LoadLock, LockProfile, LockPlatform
  <2> QED
    BY <1>1, <1>3, <2>1, Zenon DEF ValidateManifest
<1> QED
  BY <1>2, <1>3

-----------------------------------------------------------------------------
(* What _validate_archive_members() accepts *)

Harmless(m) == /\ SafeRelativeName(m.name) /\ m.size >= 0
               /\ m.kind \in {"file", "directory"}
FoldedApartTo(archive, n) ==
  \A i, j \in 1 .. n : Casefold[archive[i].name] = Casefold[archive[j].name] => i = j
\* The first n members are within the rules; sum is that of their sizes.
SafeTo(archive, sum, n) ==
  /\ n <= MaxArchiveMembers
  /\ \A i \in 1 .. n : Harmless(archive[i])
  /\ FoldedApartTo(archive, n)
  /\ sum <= MaxArchiveBytes
Seen(archive, n) == {Casefold[archive[i].name] : i \in 1 .. n}

LEMMA ApartGrows ==
  ASSUME NEW archive, NEW n \in Nat
  PROVE  /\ FoldedApartTo(archive, n + 1)
              <=> /\ FoldedApartTo(archive, n)
                  /\ Casefold[archive[n + 1].name] \notin Seen(archive, n)
         /\ Seen(archive, n + 1) = Seen(archive, n) \cup {Casefold[archive[n + 1].name]}
<1>1. ASSUME FoldedApartTo(archive, n + 1), Casefold[archive[n + 1].name] \in Seen(archive, n)
      PROVE  FALSE
  <2>1. PICK i \in 1 .. n : Casefold[archive[n + 1].name] = Casefold[archive[i].name]
    BY <1>1, Zenon DEF Seen
  <2>2. i \in 1 .. n + 1 /\ n + 1 \in 1 .. n + 1 /\ i # n + 1
    BY OneMore
  <2> QED
    BY <1>1, <2>1, <2>2, Zenon DEF FoldedApartTo
<1>2. FoldedApartTo(archive, n + 1) => FoldedApartTo(archive, n)
  BY OneMore, Zenon DEF FoldedApartTo
<1>3. ASSUME FoldedApartTo(archive, n), Casefold[archive[n + 1].name] \notin Seen(archive, n)
      PROVE  FoldedApartTo(archive, n + 1)
  <2>1. \A i \in 1 .. n : Casefold[archive[i].name] # Casefold[archive[n + 1].name]
    BY <1>3, Zenon DEF Seen
  <2> QED
    BY <1>3, <2>1, OneMore, Zenon DEF FoldedApartTo
<1>4. Seen(archive, n + 1) = Seen(archive, n) \cup {Casefold[archive[n + 1].name]}
  <2> DEFINE name(i) == Casefold[archive[i].name]
  <2>1. \A i \in 1 .. n : name(i) \in Seen(archive, n) /\ name(i) \in Seen(archive, n + 1)
    BY OneMore DEF Seen
  <2>2. \A c \in Seen(archive, n + 1) : \E i \in 1 .. n + 1 : c = name(i)
    BY DEF Seen
  <2>3. \A c \in Seen(archive, n) : \E i \in 1 .. n : c = name(i)
    BY DEF Seen
  <2>4. name(n + 1) \in Seen(archive, n + 1)
    BY OneMore DEF Seen
  <2> HIDE DEF name
  <2>5. \A c \in Seen(archive, n + 1) : c \in Seen(archive, n) \cup {name(n + 1)}
    BY <2>1, <2>2, OneMore
  <2>6. \A c \in Seen(archive, n) : c \in Seen(archive, n + 1)
    BY <2>1, <2>3
  <2>7. Seen(archive, n + 1) = Seen(archive, n) \cup {name(n + 1)}
    BY <2>4, <2>5, <2>6
  <2> QED
    BY <2>7 DEF name
<1> QED
  BY <1>1, <1>2, <1>3, <1>4

LEMMA MemberIs ==
  ASSUME NEW scan \in Scan, NEW m \in Member
  PROVE  /\ ArchiveMember(scan, m).safe
              <=> /\ scan.safe /\ Harmless(m)
                  /\ Casefold[m.name] \notin scan.names
                  /\ scan.members < MaxArchiveMembers
                  /\ m.size <= MaxArchiveBytes - scan.size
         /\ ArchiveMember(scan, m).safe =>
              /\ ArchiveMember(scan, m).names = scan.names \cup {Casefold[m.name]}
              /\ ArchiveMember(scan, m).members = scan.members + 1
              /\ ArchiveMember(scan, m).size = scan.size + m.size
<1> DEFINE may == /\ SafeRelativeName(m.name) /\ Casefold[m.name] \notin scan.names
                  /\ m.kind \in {"file", "directory"}
                  /\ scan.members < MaxArchiveMembers
                  /\ m.size >= 0 /\ m.size <= MaxArchiveBytes - scan.size
           next == [names |-> scan.names \cup {Casefold[m.name]},
                    members |-> scan.members + 1,
                    size |-> scan.size + m.size, safe |-> scan.safe]
<1>1. ArchiveMember(scan, m) = IF may THEN next ELSE [scan EXCEPT !.safe = FALSE]
  BY Zenon DEF ArchiveMember
<1>2. [scan EXCEPT !.safe = FALSE].safe = FALSE
  BY DEF Scan
<1>3. /\ next.names = scan.names \cup {Casefold[m.name]}
      /\ next.members = scan.members + 1 /\ next.size = scan.size + m.size
      /\ next.safe = scan.safe
  OBVIOUS
<1>4. scan.safe \in BOOLEAN
  BY DEF Scan
<1> HIDE DEF next
<1>5. ArchiveMember(scan, m).safe <=> may /\ scan.safe
  <2> HIDE DEF may
  <2> QED
    BY <1>1, <1>2, <1>3, <1>4
<1>6. may /\ scan.safe => ArchiveMember(scan, m) = next
  <2> HIDE DEF may
  <2> QED
    BY <1>1
<1>7. may <=> /\ Harmless(m) /\ Casefold[m.name] \notin scan.names
              /\ scan.members < MaxArchiveMembers
              /\ m.size <= MaxArchiveBytes - scan.size
  BY Zenon DEF Harmless
<1> HIDE DEF may
<1> QED
  BY <1>3, <1>5, <1>6, <1>7, Zenon

\* The rules grow with the archive.
LEMMA SafeGrows ==
  ASSUME NEW archive, NEW n \in Nat, NEW sum \in Int,
         NEW m \in Member, archive[n + 1] = m
  PROVE  SafeTo(archive, sum + m.size, n + 1)
           <=> /\ SafeTo(archive, sum, n) /\ Harmless(m)
               /\ Casefold[m.name] \notin Seen(archive, n)
               /\ n < MaxArchiveMembers
               /\ m.size <= MaxArchiveBytes - sum
<1>0. m.size \in Int /\ MaxArchiveMembers \in Nat /\ MaxArchiveBytes \in Nat
  BY InputsAssumption DEF Member
<1>1. n + 1 <= MaxArchiveMembers <=> n <= MaxArchiveMembers /\ n < MaxArchiveMembers
  BY <1>0, SMT
<1>2. (\A i \in 1 .. n + 1 : Harmless(archive[i]))
         <=> (\A i \in 1 .. n : Harmless(archive[i])) /\ Harmless(m)
  BY OneMore, Zenon
<1>3. FoldedApartTo(archive, n + 1)
         <=> FoldedApartTo(archive, n) /\ Casefold[m.name] \notin Seen(archive, n)
  BY ApartGrows
<1>4. m.size >= 0 => (sum + m.size <= MaxArchiveBytes
                        <=> sum <= MaxArchiveBytes /\ m.size <= MaxArchiveBytes - sum)
  BY <1>0, SMT
<1>5. Harmless(m) => m.size >= 0
  BY DEF Harmless
<1> QED
  BY <1>1, <1>2, <1>3, <1>4, <1>5, Zenon DEF SafeTo

LEMMA NothingMisjudged == Misjudged = {}
<1> SUFFICES ASSUME NEW archive \in Archives
             PROVE  ArchiveAccepted(archive) <=> IsSafe(archive)
  BY DEF Misjudged
<1>0. archive \in Seq(Member)
  BY InputsAssumption DEF Member
<1>1. /\ Len(archive) \in Nat /\ DOMAIN archive = 1 .. Len(archive)
      /\ \A i \in 1 .. Len(archive) : archive[i] \in Member
      /\ Len(archive) <= Len(archive)
  BY <1>0, SMT
<1>2. PICK run : /\ run[0] = ArchiveStart
                 /\ \A i \in 1 .. Len(archive) :
                      run[i] = ArchiveMember(run[i - 1], archive[i])
                 /\ run[Len(archive)] = FoldLeft(ArchiveMember, ArchiveStart, archive)
  BY <1>0, ArchiveRuns
<1>3. PICK sum : /\ sum[0] = 0
                 /\ \A i \in 1 .. Len(archive) : sum[i] = sum[i - 1] + archive[i].size
                 /\ sum[Len(archive)] = FoldLeft(LAMBDA s, m : s + m.size, 0, archive)
  BY <1>0, SumRuns
<1> DEFINE Holds(n) == n <= Len(archive) =>
             /\ run[n] \in Scan /\ sum[n] \in Int
             /\ run[n].safe <=> SafeTo(archive, sum[n], n)
             /\ run[n].safe => /\ run[n].members = n /\ run[n].size = sum[n]
                               /\ run[n].names = Seen(archive, n)
           T == {n \in Nat : Holds(n)}
<1>4. 0 \in T
  <2>1. 1 .. 0 = {} /\ MaxArchiveMembers \in Nat /\ MaxArchiveBytes \in Nat
    BY InputsAssumption, SMT
  <2>2. 0 <= MaxArchiveMembers /\ 0 <= MaxArchiveBytes
    BY <2>1, SMT
  <2>3. SafeTo(archive, 0, 0)
    BY <2>1, <2>2, Zenon DEF SafeTo, FoldedApartTo
  <2>4. Seen(archive, 0) = {}
    BY <2>1 DEF Seen
  <2>5. /\ ArchiveStart.safe = TRUE /\ ArchiveStart.members = 0
        /\ ArchiveStart.size = 0 /\ ArchiveStart.names = {}
    BY DEF ArchiveStart
  <2>6. ArchiveStart \in Scan
    BY ScanTyped
  <2> QED
    BY <1>2, <1>3, <2>3, <2>4, <2>5, <2>6
<1>5. ASSUME NEW n \in T PROVE n + 1 \in T
  <2>1. n \in Nat /\ Holds(n)
    OBVIOUS
  <2> HIDE DEF T
  <2>2. ASSUME n + 1 <= Len(archive)
        PROVE  /\ run[n + 1] \in Scan /\ sum[n + 1] \in Int
               /\ run[n + 1].safe <=> SafeTo(archive, sum[n + 1], n + 1)
               /\ run[n + 1].safe => /\ run[n + 1].members = n + 1
                                     /\ run[n + 1].size = sum[n + 1]
                                     /\ run[n + 1].names = Seen(archive, n + 1)
    <3>1. n <= Len(archive) /\ n + 1 \in 1 .. Len(archive)
      BY <1>1, <2>1, <2>2, SMT
    <3>2. /\ run[n] \in Scan /\ sum[n] \in Int
          /\ run[n].safe <=> SafeTo(archive, sum[n], n)
          /\ run[n].safe => /\ run[n].members = n /\ run[n].size = sum[n]
                            /\ run[n].names = Seen(archive, n)
      BY <2>1, <3>1, Zenon
    <3> HIDE DEF Holds
    <3>3. PICK m \in Member : m = archive[n + 1]
      BY <1>1, <3>1
    <3>4. run[n + 1] = ArchiveMember(run[n], m) /\ sum[n + 1] = sum[n] + m.size
      BY <1>2, <1>3, <2>1, <3>1, <3>3, OneMore
    <3>5. run[n + 1] \in Scan /\ sum[n + 1] \in Int
      <4>1. m.size \in Int
        BY DEF Member
      <4>2. sum[n] + m.size \in Int
        BY <3>2, <4>1
      <4> QED
        BY <3>2, <3>4, <4>2, ScanTyped
    <3>6. SafeTo(archive, sum[n] + m.size, n + 1)
            <=> /\ SafeTo(archive, sum[n], n) /\ Harmless(m)
                /\ Casefold[m.name] \notin Seen(archive, n)
                /\ n < MaxArchiveMembers
                /\ m.size <= MaxArchiveBytes - sum[n]
      BY <2>1, <3>2, <3>3, SafeGrows
    <3>7. /\ run[n + 1].safe
               <=> /\ run[n].safe /\ Harmless(m)
                   /\ Casefold[m.name] \notin run[n].names
                   /\ run[n].members < MaxArchiveMembers
                   /\ m.size <= MaxArchiveBytes - run[n].size
          /\ run[n + 1].safe =>
               /\ run[n + 1].names = run[n].names \cup {Casefold[m.name]}
               /\ run[n + 1].members = run[n].members + 1
               /\ run[n + 1].size = run[n].size + m.size
      BY <3>2, <3>4, MemberIs
    <3>8. run[n + 1].safe <=> SafeTo(archive, sum[n + 1], n + 1)
      BY <3>2, <3>4, <3>6, <3>7, Zenon
    <3>9. Seen(archive, n + 1) = Seen(archive, n) \cup {Casefold[m.name]}
      BY <2>1, <3>3, ApartGrows
    <3>10. run[n + 1].safe => /\ run[n + 1].members = n + 1
                              /\ run[n + 1].size = sum[n + 1]
                              /\ run[n + 1].names = Seen(archive, n + 1)
      BY <3>2, <3>4, <3>7, <3>9, Zenon
    <3> QED
      BY <3>5, <3>8, <3>10, Zenon
  <2>3. Holds(n + 1)
    BY <2>2
  <2> HIDE DEF Holds
  <2> QED
    BY <2>1, <2>3, OneMore, Zenon DEF T
<1> HIDE DEF T, Holds
<1>6. Holds(Len(archive))
  <2>1. T \in SUBSET Nat
    BY DEF T
  <2>2. Len(archive) \in T
    BY <1>1, <1>4, <1>5, <2>1, AllNumbers
  <2> QED
    BY <2>2 DEF T
<1>7. ArchiveAccepted(archive) <=> SafeTo(archive, sum[Len(archive)], Len(archive))
  BY <1>1, <1>2, <1>6, Zenon DEF Holds, ArchiveAccepted
<1>8. (\A i \in 1 .. Len(archive) : Harmless(archive[i]))
        <=> \A m \in ToSet(archive) : /\ SafeRelativeName(m.name) /\ m.size >= 0
                                      /\ m.kind \in {"file", "directory"}
  BY <1>1, Zenon DEF ToSet, Harmless
<1>9. Distinct(Folded(NamesOf(archive))) <=> FoldedApartTo(archive, Len(archive))
  <2> DEFINE names == NamesOf(archive)
  <2>1. DOMAIN names = 1 .. Len(archive) /\ \A i \in 1 .. Len(archive) : names[i] = archive[i].name
    BY <1>1, Zenon DEF NamesOf
  <2> HIDE DEF names
  <2>2. DOMAIN Folded(names) = 1 .. Len(archive)
        /\ \A i \in 1 .. Len(archive) : Folded(names)[i] = Casefold[names[i]]
    BY <2>1, Zenon DEF Folded
  <2>3. Distinct(Folded(names)) <=> FoldedApartTo(archive, Len(archive))
    <3>1. \A i \in 1 .. Len(archive) : Folded(names)[i] = Casefold[archive[i].name]
      BY <2>1, <2>2
    <3> QED
      BY <2>2, <3>1 DEF Distinct, FoldedApartTo
  <2> QED
    BY <2>3 DEF names
<1> QED
  BY <1>3, <1>7, <1>8, <1>9, Zenon DEF IsSafe, SafeTo

-----------------------------------------------------------------------------
(* The order of the names *)

LEMMA CodePoints ==
  /\ \A n \in FileNames : CodePoint[n] \in Nat
  /\ \A m, n \in FileNames : CodePoint[m] = CodePoint[n] => m = n
  BY NamesAssumption

\* Among finitely many files there is one with the last name.
LEMMA LastExists ==
  ASSUME NEW S, IsFiniteSet(S), S # {}, \A x \in S : x.name \in FileNames
  PROVE  \E x \in S : \A y \in S : CodePoint[y.name] <= CodePoint[x.name]
<1> DEFINE rank(x) == CodePoint[x.name]
           Greatest(X) == \E x \in X : \A y \in X : rank(y) <= rank(x)
           T == {n \in Nat : \A X \in SUBSET S : Cardinality(X) = n /\ X # {} => Greatest(X)}
<1>1. 0 \in T
  <2>1. \A X \in SUBSET S : Cardinality(X) = 0 => X = {}
    BY FS_Subset, FS_EmptySet
  <2> HIDE DEF Greatest
  <2> QED
    BY <2>1
<1>2. \A x \in S : rank(x) \in Nat
  BY CodePoints
<1> HIDE DEF rank
<1>3. ASSUME NEW n \in T PROVE n + 1 \in T
  <2>1. n \in Nat /\ \A X \in SUBSET S : Cardinality(X) = n /\ X # {} => Greatest(X)
    OBVIOUS
  <2> HIDE DEF T, Greatest
  <2>2. ASSUME NEW X \in SUBSET S, Cardinality(X) = n + 1, X # {} PROVE Greatest(X)
    <3>1. PICK x \in X : TRUE
      BY <2>2
    <3> DEFINE Y == X \ {x}
    <3>2. Cardinality(Y) = n
      <4>1. Cardinality(Y) = Cardinality(X) - 1
        BY FS_Subset, FS_RemoveElement
      <4>2. (n + 1) - 1 = n
        BY <2>1, SMT
      <4> QED
        BY <2>2, <4>1, <4>2
    <3>3. CASE Y = {}
      <4>1. X = {x} /\ rank(x) \in Nat
        BY <1>2, <3>3
      <4>2. rank(x) <= rank(x)
        BY <4>1, SMT
      <4> QED
        BY <4>1, <4>2 DEF Greatest
    <3>4. CASE Y # {}
      <4>1. PICK y \in Y : \A z \in Y : rank(z) <= rank(y)
        BY <2>1, <3>2, <3>4 DEF Greatest
      <4>2. /\ rank(x) \in Nat /\ \A z \in Y : rank(z) \in Nat
            /\ \A z \in X : z \in Y \/ z = x
        BY <1>2
      <4> HIDE DEF Y
      <4>3. CASE rank(x) <= rank(y)
        <5>1. \A z \in X : rank(z) <= rank(y)
          BY <4>1, <4>2, <4>3, Zenon
        <5> QED
          BY <5>1 DEF Greatest, Y
      <4>4. CASE rank(y) < rank(x)
        <5>1. ASSUME NEW z \in X PROVE rank(z) <= rank(x)
          <6>1. CASE z \in Y
            BY <4>1, <4>2, <4>4, <6>1
          <6>2. CASE z = x
            BY <4>2, <6>2
          <6> QED
            BY <4>2, <6>1, <6>2
        <5> QED
          BY <5>1, Zenon DEF Greatest
      <4> QED
        BY <4>1, <4>2, <4>3, <4>4
    <3> QED
      BY <3>3, <3>4
  <2> QED
    BY <2>1, <2>2, OneMore, Zenon DEF T
<1> HIDE DEF T, Greatest
<1>4. Cardinality(S) \in Nat /\ T \in SUBSET Nat
  BY FS_CardinalityType DEF T
<1>5. Cardinality(S) \in T
  BY <1>1, <1>3, <1>4, AllNumbers
<1>6. Greatest(S)
  BY <1>5, Zenon DEF T
<1> QED
  BY <1>6 DEF Greatest, rank

\* An enumeration of a set of files by their names.
Enumerates(e, S) ==
  /\ e \in [1 .. Cardinality(S) -> S] /\ ToSet(e) = S
  /\ \A i, j \in 1 .. Cardinality(S) :
       i < j => CodePoint[e[i].name] < CodePoint[e[j].name]

LEMMA EnumerationExists ==
  ASSUME NEW S, IsFiniteSet(S), \A x \in S : x.name \in FileNames,
         \A x, y \in S : x.name = y.name => x = y
  PROVE  \E e : Enumerates(e, S)
<1> DEFINE Good(X) == \E e : Enumerates(e, X)
           T == {n \in Nat : \A X \in SUBSET S : Cardinality(X) = n => Good(X)}
<1>1. 0 \in T
  <2> SUFFICES ASSUME NEW X \in SUBSET S, Cardinality(X) = 0 PROVE Good(X)
    OBVIOUS
  <2>1. X = {}
    BY FS_Subset, FS_EmptySet
  <2>2. 1 .. 0 = {}
    BY SMT
  <2> DEFINE e == [i \in 1 .. 0 |-> i]
  <2>3. e \in [1 .. Cardinality(X) -> X] /\ ToSet(e) = X
    BY <2>1, <2>2 DEF ToSet
  <2>4. Enumerates(e, X)
    BY <2>2, <2>3 DEF Enumerates
  <2> QED
    BY <2>4
<1>2. ASSUME NEW n \in T PROVE n + 1 \in T
  <2>1. n \in Nat /\ \A X \in SUBSET S : Cardinality(X) = n => Good(X)
    OBVIOUS
  <2> HIDE DEF T, Good
  <2>2. ASSUME NEW X \in SUBSET S, Cardinality(X) = n + 1 PROVE Good(X)
    <3>1. IsFiniteSet(X) /\ X # {}
      BY <2>1, <2>2, FS_Subset, FS_EmptySet
    <3>4. PICK x \in X : \A y \in X : CodePoint[y.name] <= CodePoint[x.name]
      BY <3>1, LastExists
    <3> DEFINE Y == X \ {x}
    <3>5. \A y \in Y : CodePoint[y.name] < CodePoint[x.name]
      <4>1. ASSUME NEW y \in Y PROVE CodePoint[y.name] < CodePoint[x.name]
        <5>1. CodePoint[y.name] # CodePoint[x.name]
          BY CodePoints
        <5>2. CodePoint[y.name] \in Nat /\ CodePoint[x.name] \in Nat
          BY CodePoints
        <5> QED
          BY <3>4, <5>1, <5>2
      <4> QED
        BY <4>1
    <3>6. Y \in SUBSET S /\ Cardinality(Y) = n
      <4>1. Cardinality(Y) = Cardinality(X) - 1
        BY <3>1, FS_RemoveElement
      <4>2. (n + 1) - 1 = n
        BY <2>1, SMT
      <4> QED
        BY <2>2, <4>1, <4>2
    <3> HIDE DEF Y
    <3>7. PICK e : Enumerates(e, Y)
      BY <2>1, <3>6 DEF Good
    <3>8. /\ e \in [1 .. n -> Y] /\ ToSet(e) = Y
          /\ \A i, j \in 1 .. n : i < j => CodePoint[e[i].name] < CodePoint[e[j].name]
      BY <3>6, <3>7 DEF Enumerates
    <3> DEFINE f == [i \in 1 .. n + 1 |-> IF i \in 1 .. n THEN e[i] ELSE x]
    <3>9. /\ f \in [1 .. n + 1 -> X] /\ f[n + 1] = x
          /\ \A i \in 1 .. n : f[i] = e[i]
      BY <2>1, <3>8, OneMore, Zenon DEF Y
    <3> HIDE DEF f
    <3>10. ToSet(f) = X
      <4>1. \A y \in Y : \E i \in 1 .. n : e[i] = y
        BY <3>8 DEF ToSet
      <4>2. \A y \in X : \E i \in 1 .. n + 1 : f[i] = y
        BY <2>1, <3>9, <4>1, OneMore, Zenon DEF Y
      <4> QED
        BY <3>9, <4>2 DEF ToSet
    <3>11. ASSUME NEW i \in 1 .. n + 1, NEW j \in 1 .. n + 1, i < j
           PROVE  CodePoint[f[i].name] < CodePoint[f[j].name]
      <4>1. i \in 1 .. n /\ (j \in 1 .. n \/ j = n + 1)
        BY <2>1, <3>11, SMT
      <4>2. f[i] = e[i] /\ e[i] \in Y
        BY <3>8, <3>9, <4>1
      <4>3. CASE j = n + 1
        BY <3>5, <3>9, <4>2, <4>3
      <4>4. CASE j \in 1 .. n
        BY <3>8, <3>9, <3>11, <4>1, <4>2, <4>4
      <4> QED
        BY <4>1, <4>3, <4>4
    <3>12. Enumerates(f, X)
      BY <2>2, <3>9, <3>10, <3>11 DEF Enumerates
    <3> QED
      BY <3>12 DEF Good
  <2> QED
    BY <2>1, <2>2, OneMore, Zenon DEF T
<1> HIDE DEF T, Good
<1>3. Cardinality(S) \in Nat
  BY FS_CardinalityType
<1>4. T \in SUBSET Nat
  BY DEF T
<1>5. Cardinality(S) \in T
  BY <1>1, <1>2, <1>3, <1>4, AllNumbers
<1>6. Good(S)
  BY <1>5, Zenon DEF T
<1> QED
  BY <1>6 DEF Good

LEMMA SizeOfImage ==
  ASSUME NEW n \in Nat, NEW e, 1 .. n \subseteq DOMAIN e,
         \A i, j \in 1 .. n : e[i] = e[j] => i = j
  PROVE  /\ IsFiniteSet({e[i] : i \in 1 .. n})
         /\ Cardinality({e[i] : i \in 1 .. n}) = n
<1> DEFINE X == {e[i] : i \in 1 .. n}
           g == [i \in 1 .. n |-> e[i]]
<1>1. g \in Bijection(1 .. n, X)
  BY SMT DEF Bijection, Injection, Surjection, IsInjective
<1>2. ExistsBijection(1 .. n, X)
  BY <1>1 DEF ExistsBijection
<1>3. IsFiniteSet(1 .. n) /\ Cardinality(1 .. n) = n
  <2>1. IsFiniteSet(1 .. n) /\ Cardinality(1 .. n) = IF 1 > n THEN 0 ELSE n - 1 + 1
    BY FS_Interval
  <2> QED
    BY <2>1, SMT
<1> QED
  BY <1>2, <1>3, FS_Bijection

\* Files with different names can be put in the order of their names.
LEMMA SortedByNameIs ==
  ASSUME NEW entries, NEW n \in Nat, DOMAIN entries = 1 .. n,
         \A i \in 1 .. n : entries[i].name \in FileNames,
         Distinct(NamesOf(entries))
  PROVE  /\ SortedByName(entries) \in [1 .. n -> ToSet(entries)]
         /\ ToSet(SortedByName(entries)) = ToSet(entries)
         /\ \A i, j \in 1 .. n : i < j =>
              CodePoint[SortedByName(entries)[i].name]
                < CodePoint[SortedByName(entries)[j].name]
<1> DEFINE S == ToSet(entries)
<1>1. S = {entries[i] : i \in 1 .. n}
  BY DEF ToSet
<1>2. \A i, j \in 1 .. n : entries[i].name = entries[j].name => i = j
  BY DEF Distinct, NamesOf
<1>3. IsFiniteSet(S) /\ Cardinality(S) = n
  <2>1. /\ IsFiniteSet({entries[i] : i \in 1 .. n})
        /\ Cardinality({entries[i] : i \in 1 .. n}) = n
    BY <1>2, SizeOfImage
  <2> HIDE DEF S
  <2> QED
    BY <1>1, <2>1
<1>4. /\ \A x \in S : x.name \in FileNames
      /\ \A x, y \in S : x.name = y.name => x = y
  BY <1>1, <1>2
<1> HIDE DEF S
<1>5. PICK e : Enumerates(e, S)
  BY <1>3, <1>4, EnumerationExists
<1> DEFINE Fits(e_) == /\ ToSet(e_) = S
                       /\ \A i, j \in DOMAIN e_ :
                            i < j => CodePoint[e_[i].name] < CodePoint[e_[j].name]
<1>6. e \in [1 .. n -> S] /\ Fits(e)
  BY <1>3, <1>5 DEF Enumerates
<1>7. SortedByName(entries) = CHOOSE e_ \in [1 .. n -> S] : Fits(e_)
  BY Zenon DEF SortedByName, S
<1> HIDE DEF Fits
<1>8. SortedByName(entries) \in [1 .. n -> S] /\ Fits(SortedByName(entries))
  BY <1>6, <1>7
<1> QED
  BY <1>8 DEF Fits, S

\* A lock that lock_release() writes is read back, unless a file is empty.
LEMMA NothingUnreadable == Unreadable = {}
<1> SUFFICES ASSUME NEW d \in Documents, NEW profile \in Profiles,
                    NEW platform \in Platforms,
                    CanRelease(profile, d.version, d.build, d.nss, d.nspr, d.files)
             PROVE  LoadLock(WrittenFrom(d, profile, platform))
                      <=> \A i \in DOMAIN d.files : d.files[i].size > 0
  BY Zenon DEF Unreadable
<1> DEFINE n == Len(d.files)
           entries == [i \in DOMAIN d.files |-> [d.files[i] EXCEPT !.hashed = TRUE]]
           order == SortedByName(entries)
           written == WrittenFrom(d, profile, platform)
<1>1. d.files \in Seq([name : FileNames, size : Int, hashed : BOOLEAN])
  BY InputsAssumption
<1>2. /\ n \in Nat /\ DOMAIN d.files = 1 .. n
      /\ \A i \in 1 .. n : d.files[i] \in [name : FileNames, size : Int, hashed : BOOLEAN]
  BY <1>1, ElementsOf
<1>3. /\ d.files # << >> /\ Distinct(NamesOf(d.files))
      /\ \A i \in 1 .. n : SafeRelativeName(d.files[i].name)
  BY <1>2 DEF CanRelease
<1>4. n # 0
  BY <1>1, <1>3, ElementsOf
<1>5. DOMAIN entries = 1 .. n
      /\ \A i \in 1 .. n : /\ entries[i].name = d.files[i].name
                           /\ entries[i].size = d.files[i].size
                           /\ entries[i].hashed = TRUE
                           /\ entries[i].name \in FileNames
  BY <1>2
<1>6. written.schema = 2 /\ written.exact = TRUE /\ written.profile = profile
      /\ written.platform = platform /\ written.source = "valid"
      /\ written.version = d.version /\ written.build = d.build
      /\ written.nss = d.nss /\ written.nspr = d.nspr
      /\ written.files = order
  BY DEF WrittenFrom, Release
<1> HIDE DEF entries, n
<1>7. Distinct(NamesOf(entries))
  BY <1>2, <1>3, <1>5 DEF Distinct, NamesOf
<1>8. /\ order \in [1 .. n -> ToSet(entries)]
      /\ ToSet(order) = ToSet(entries)
      /\ \A i, j \in 1 .. n : i < j => CodePoint[order[i].name] < CodePoint[order[j].name]
  BY <1>2, <1>5, <1>7, SortedByNameIs
<1> HIDE DEF order, written
<1>9. \A i \in 1 .. n : \E j \in 1 .. n : order[i] = entries[j]
  BY <1>5, <1>8 DEF ToSet
<1>10. \A j \in 1 .. n : \E i \in 1 .. n : order[i] = entries[j]
  BY <1>5, <1>8 DEF ToSet
<1>11. (\A i \in 1 .. n : EntryValid(order[i])) <=> \A i \in 1 .. n : d.files[i].size > 0
  <2>1. \A j \in 1 .. n : EntryValid(entries[j]) <=> d.files[j].size > 0
    BY <1>3, <1>5 DEF EntryValid
  <2> QED
    BY <1>9, <1>10, <2>1
<1>12. DOMAIN order = 1 .. n
  BY <1>8
<1>13. order # << >>
  <2>1. 1 \in 1 .. n
    BY <1>2, <1>4, SMT
  <2>2. DOMAIN << >> = {}
    OBVIOUS
  <2> QED
    BY <1>12, <2>1, <2>2
<1>14. /\ DOMAIN NamesOf(order) = 1 .. n
       /\ \A i \in 1 .. n : /\ NamesOf(order)[i] = order[i].name
                            /\ order[i].name \in FileNames
                            /\ CodePoint[order[i].name] \in Nat
  BY <1>5, <1>9, <1>12, CodePoints DEF NamesOf
<1>15. Sorted(NamesOf(order))
  <2> SUFFICES ASSUME NEW i \in 1 .. n, NEW j \in 1 .. n, i < j
               PROVE  CodePoint[order[i].name] <= CodePoint[order[j].name]
    BY <1>14, ZenonT(40) DEF Sorted
  <2>1. CodePoint[order[i].name] \in Nat /\ CodePoint[order[j].name] \in Nat
        /\ CodePoint[order[i].name] < CodePoint[order[j].name]
    BY <1>8, <1>14
  <2> QED
    BY <2>1, SMT
<1>16. Distinct(NamesOf(order))
  <2> SUFFICES ASSUME NEW i \in 1 .. n, NEW j \in 1 .. n, order[i].name = order[j].name
               PROVE  i = j
    BY <1>14, Zenon DEF Distinct
  <2>1. CodePoint[order[i].name] \in Nat
    BY <1>14
  <2>2. ~(i < j) /\ ~(j < i)
    <3>1. ~(CodePoint[order[i].name] < CodePoint[order[i].name])
      BY <2>1, SMT
    <3> QED
      BY <1>8, <3>1
  <2> QED
    BY <1>2, <2>2, SMT
<1>17. "empty" \notin {d.version, d.build, d.nss, d.nspr}
  <2>1. FirefoxVersion[profile] # "empty"
    BY DEF FirefoxVersion, Profiles
  <2> QED
    BY <2>1 DEF CanRelease, Numeric
<1> QED
  <2>1. written.schema # 1 /\ written.source # "invalid"
    BY <1>6
  <2> QED
    BY <1>2, <1>6, <1>11, <1>12, <1>13, <1>15, <1>16, <1>17, <2>1, Zenon DEF LoadLock, written

\* For any locks, and any selection of files of any length, the build, the
\* start of a worker and the release agree on what they read and write.
THEOREM LocksAlwaysAgree == Spec => []LocksAgree
<1>1. LocksAgree
  BY NoDisagreements, NothingUnreadable DEF LocksAgree
<1> QED
  BY <1>1, PTL

\* For any archives, source locks and profile locks of any length, what the
\* checks let through is safe, and of archives also the reverse.
THEOREM InputsAlwaysSafe == Spec => []InputsAreSafe
<1>1. InputsAreSafe
  BY NothingMisjudged, NothingAmbiguous, NothingOpen DEF InputsAreSafe
<1> QED
  BY <1>1, PTL

-----------------------------------------------------------------------------
(* The verdict on captures *)

First(samples) == CHOOSE s \in samples : TRUE

\* What the samples of a capture are like.
Sampled(samples) ==
  /\ IsFiniteSet(samples) /\ samples # {}
  /\ \A s \in samples :
       /\ s.order \in Seq(DOMAIN s.content \ {"ciphers"})
       /\ \A i, j \in DOMAIN s.order : s.order[i] = s.order[j] => i = j
       /\ \A key \in DOMAIN Evidence(s) :
            /\ Evidence(s)[key].kind \in {"list", "scalar"}
            /\ Evidence(s)[key].items \in Seq(ToSet(Evidence(s)[key].items))
Alike(samples, others) ==
  \A s \in samples, t \in others : \A key \in DOMAIN Evidence(s) \cap DOMAIN Evidence(t) :
    Evidence(s)[key].kind = Evidence(t)[key].kind

LEMMA CapturesAreSampled ==
  /\ \A b \in Baselines \cup Candidates : Sampled(b)
  /\ \A b, c \in Baselines \cup Candidates : Alike(b, c)
<1>1. \A b \in Baselines \cup Candidates : \A s \in b : s \in Samples
  BY DEF Samples
<1> QED
  BY <1>1, SamplesAssumption, Zenon DEF Sampled, Alike

LEMMA FirstIs == ASSUME NEW b, b # {} PROVE First(b) \in b
  BY DEF First

LEMMA EvidenceIs ==
  ASSUME NEW s
  PROVE  DOMAIN Evidence(s) = {"ciphers"} \cup ToSet(s.order)
  BY DEF Evidence

\* The positions at which all values of a key agree.
Agreed(values, v) == {i \in DOMAIN v.items : \A w \in values : w.items[i] = v.items[i]}

\* Values of one kind.
Values(values) ==
  /\ values # {}
  /\ \A v \in values : /\ v.kind \in {"list", "scalar"}
                       /\ v.items \in Seq(ToSet(v.items))
  /\ \A v, w \in values : v.kind = w.kind

LEMMA LengthIs ==
  ASSUME NEW v, v.items \in Seq(ToSet(v.items))
  PROVE  Len(v.items) \in Nat /\ DOMAIN v.items = 1 .. Len(v.items)
  BY SMT

\* Equal lengths, and an entry that all share unless there are none.
Comparable(values) ==
  /\ \A v, w \in values : Len(v.items) = Len(w.items)
  /\ \A v \in values : v.items = << >> \/ Agreed(values, v) # {}

LEMMA ProjectIs ==
  ASSUME NEW values, Values(values)
  PROVE  /\ Project(values) # Missing <=> Comparable(values)
         /\ Comparable(values) => \A v \in values :
              /\ Project(values).length = Len(v.items)
              /\ DOMAIN Project(values).items = Agreed(values, v)
              /\ \A i \in Agreed(values, v) : Project(values).items[i] = v.items[i]
              /\ Project(values).kind =
                   IF Agreed(values, v) = DOMAIN v.items THEN v.kind ELSE "partial"
<1> DEFINE first == CHOOSE v \in values : TRUE
           items == Agreed(values, first)
           made  == [kind   |-> IF items = DOMAIN first.items THEN first.kind ELSE "partial",
                     length |-> Len(first.items),
                     items  |-> [i \in items |-> first.items[i]]]
<1>1. first \in values
  BY DEF Values
<1>2. Project(values) =
        IF \E v \in values : v.kind # first.kind \/ Len(v.items) # Len(first.items)
          THEN Missing
          ELSE IF first.items # << >> /\ items = {} THEN Missing ELSE made
  BY Zenon DEF Project, Agreed
<1> HIDE DEF first
<1>3. made.kind # "missing" /\ made # Missing
  <2>1. made.kind \in {"list", "scalar", "partial"}
    BY <1>1 DEF Values
  <2>2. Missing.kind = "missing"
    BY DEF Missing
  <2> HIDE DEF made
  <2> QED
    BY <2>1, <2>2
<1>4. \A v, w \in values : Len(v.items) = Len(w.items) => DOMAIN v.items = DOMAIN w.items
  BY LengthIs DEF Values
<1>5. ASSUME \A v, w \in values : Len(v.items) = Len(w.items), NEW v \in values
      PROVE  /\ Agreed(values, v) = items /\ DOMAIN v.items = DOMAIN first.items
             /\ \A i \in items : v.items[i] = first.items[i]
             /\ v.items = << >> <=> first.items = << >>
  <2>1. DOMAIN v.items = DOMAIN first.items
    BY <1>1, <1>4, <1>5
  <2>2. Agreed(values, v) = items /\ \A i \in items : v.items[i] = first.items[i]
    BY <1>1, <1>5, <2>1, Zenon DEF Agreed
  <2>3. \A u \in values : u.items = << >> <=> Len(u.items) = 0
    <3> SUFFICES ASSUME NEW u \in values PROVE u.items = << >> <=> Len(u.items) = 0
      OBVIOUS
    <3>1. u.items \in Seq(ToSet(u.items))
      BY DEF Values
    <3> QED
      BY <3>1, SMT
  <2>4. Len(v.items) = Len(first.items)
    BY <1>1, <1>5
  <2> QED
    BY <1>1, <2>1, <2>2, <2>3, <2>4
<1>6. /\ made.length = Len(first.items) /\ DOMAIN made.items = items
      /\ \A i \in items : made.items[i] = first.items[i]
      /\ made.kind = IF items = DOMAIN first.items THEN first.kind ELSE "partial"
  <2> HIDE DEF items
  <2> QED
    OBVIOUS
<1>7. \A v \in values : v.kind = first.kind
  BY <1>1 DEF Values
<1> HIDE DEF made, items
<1>8. CASE \A v, w \in values : Len(v.items) = Len(w.items)
  <2>1. Project(values) = IF first.items # << >> /\ items = {} THEN Missing ELSE made
    BY <1>1, <1>2, <1>7, <1>8
  <2>2. Comparable(values) <=> (first.items = << >> \/ items # {})
    BY <1>1, <1>5, <1>8 DEF Comparable
  <2>3. ASSUME Comparable(values), NEW v \in values
        PROVE  /\ Project(values).length = Len(v.items)
               /\ DOMAIN Project(values).items = Agreed(values, v)
               /\ \A i \in Agreed(values, v) : Project(values).items[i] = v.items[i]
               /\ Project(values).kind =
                    IF Agreed(values, v) = DOMAIN v.items THEN v.kind ELSE "partial"
    <3>1. Project(values) = made
      BY <2>1, <2>2, <2>3
    <3>2. /\ Agreed(values, v) = items /\ DOMAIN v.items = DOMAIN first.items
          /\ \A i \in items : v.items[i] = first.items[i]
      BY <1>5, <1>8, <2>3
    <3>3. Len(v.items) = Len(first.items) /\ v.kind = first.kind
      BY <1>1, <1>7, <1>8
    <3> QED
      BY <1>6, <3>1, <3>2, <3>3
  <2> QED
    BY <1>3, <2>1, <2>2, <2>3
<1>9. CASE ~ \A v, w \in values : Len(v.items) = Len(w.items)
  <2>1. Project(values) = Missing
    <3>1. \E v \in values : Len(v.items) # Len(first.items)
      BY <1>9
    <3> QED
      BY <1>2, <3>1
  <2>2. ~Comparable(values)
    BY <1>9 DEF Comparable
  <2> QED
    BY <2>1, <2>2
<1> QED
  BY <1>8, <1>9
-----------------------------------------------------------------------------
\* Captures whose samples agree have one set of extensions.
LEMMA SameTypes ==
  ASSUME NEW b, Sampled(b), SamplesAgree(b), NEW s \in b, NEW t \in b
  PROVE  ToSet(s.order) = ToSet(t.order) /\ Len(s.order) = Len(t.order)
<1>1. CASE Cardinality(b) = 1
  <2>1. \E x : b = {x}
    BY <1>1, FS_Singleton DEF Sampled
  <2>2. s = t
    BY <2>1
  <2> QED
    BY <2>2
<1>2. CASE \A u, v \in b : /\ Len(u.order) = Cardinality(ToSet(u.order))
                           /\ ToSet(u.order) = ToSet(v.order)
  <2>1. ToSet(s.order) = ToSet(t.order)
    BY <1>2
  <2>2. Len(s.order) = Cardinality(ToSet(s.order)) /\ Len(t.order) = Cardinality(ToSet(t.order))
    BY <1>2
  <2> QED
    BY <2>1, <2>2
<1> QED
  BY <1>1, <1>2, Zenon DEF SamplesAgree

LEMMA SameKeys ==
  ASSUME NEW b, Sampled(b), SamplesAgree(b), NEW s \in b, NEW t \in b
  PROVE  DOMAIN Evidence(s) = DOMAIN Evidence(t)
  BY SameTypes, EvidenceIs

\* The handshakes of a capture agree with each other, and so do some of them.
LEMMA SomeAgree ==
  ASSUME NEW b, Sampled(b), SamplesAgree(b), NEW c \in SUBSET b, c # {}
  PROVE  Sampled(c) /\ SamplesAgree(c)
<1>1. IsFiniteSet(c)
  BY FS_Subset DEF Sampled
<1>2. Sampled(c)
  BY <1>1, Zenon DEF Sampled
<1>3. CASE Cardinality(b) = 1
  <2>1. PICK x : b = {x}
    BY <1>3, FS_Singleton DEF Sampled
  <2>2. c = b
    BY <2>1
  <2> QED
    BY <1>2, <2>2
<1>4. CASE \A u, v \in b : /\ Len(u.order) = Cardinality(ToSet(u.order))
                           /\ ToSet(u.order) = ToSet(v.order)
  BY <1>2, <1>4, Zenon DEF SamplesAgree
<1> QED
  BY <1>3, <1>4, Zenon DEF SamplesAgree

ValuesOf(samples, key) == {Evidence(s)[key] : s \in samples}

LEMMA ValuesAre ==
  ASSUME NEW b, Sampled(b), Alike(b, b), NEW key,
         \A s \in b : key \in DOMAIN Evidence(s)
  PROVE  Values(ValuesOf(b, key))
<1>1. ValuesOf(b, key) # {}
  BY DEF Sampled, ValuesOf
<1>2. ASSUME NEW s \in b
      PROVE  /\ Evidence(s)[key].kind \in {"list", "scalar"}
             /\ Evidence(s)[key].items \in Seq(ToSet(Evidence(s)[key].items))
  BY Zenon DEF Sampled
<1>3. ASSUME NEW s \in b, NEW t \in b PROVE Evidence(s)[key].kind = Evidence(t)[key].kind
  BY Zenon DEF Alike
<1> QED
  BY <1>1, <1>2, <1>3, Zenon DEF Values, ValuesOf

\* A key is shared when all have it, with something in common.
LEMMA SharedIs ==
  ASSUME NEW b, Sampled(b), Alike(b, b), NEW key
  PROVE  /\ key \in Shared(b) <=> /\ \A s \in b : key \in DOMAIN Evidence(s)
                                  /\ Comparable(ValuesOf(b, key))
         /\ key \in Shared(b) => StableEvidence(b)[key] = Project(ValuesOf(b, key))
         /\ DOMAIN StableEvidence(b) = Shared(b)
<1>1. key \in Shared(b) <=> /\ \A s \in b : key \in DOMAIN Evidence(s)
                            /\ Project(ValuesOf(b, key)) # Missing
  BY DEF Shared, ValuesOf, Sampled
<1>2. (\A s \in b : key \in DOMAIN Evidence(s)) =>
        (Project(ValuesOf(b, key)) # Missing <=> Comparable(ValuesOf(b, key)))
  BY ValuesAre, ProjectIs
<1>3. key \in Shared(b) => StableEvidence(b)[key] = Project(ValuesOf(b, key))
  BY DEF StableEvidence, ValuesOf
<1>4. DOMAIN StableEvidence(b) = Shared(b)
  BY DEF StableEvidence
<1> QED
  BY <1>1, <1>2, <1>3, <1>4

\* What the stable evidence says of a sample.
LEMMA StableIs ==
  ASSUME NEW b, Sampled(b), Alike(b, b), NEW key \in Shared(b), NEW s \in b
  PROVE  LET stable == StableEvidence(b)[key]
             agreed == Agreed(ValuesOf(b, key), Evidence(s)[key])
         IN  /\ stable.length = Len(Evidence(s)[key].items)
             /\ DOMAIN stable.items = agreed
             /\ \A i \in agreed : stable.items[i] = Evidence(s)[key].items[i]
             /\ stable.kind = IF agreed = DOMAIN Evidence(s)[key].items
                                THEN Evidence(s)[key].kind ELSE "partial"
<1>1. /\ \A t \in b : key \in DOMAIN Evidence(t)
      /\ Comparable(ValuesOf(b, key))
      /\ StableEvidence(b)[key] = Project(ValuesOf(b, key))
  BY SharedIs
<1>2. Values(ValuesOf(b, key))
  BY <1>1, ValuesAre
<1>3. Evidence(s)[key] \in ValuesOf(b, key)
  BY DEF ValuesOf
<1> QED
  BY <1>1, <1>2, <1>3, ProjectIs

\* What is compared of two captures.
LEMMA SummaryIs ==
  ASSUME NEW b
  PROVE  LET summary == Summary(b, "cold")
         IN  /\ summary.labels = {"cold"}
             /\ summary.types = ToSet(First(b).order)
             /\ summary.count = Len(First(b).order)
             /\ summary.fixed = FixedPositions(b) /\ summary.movable = MovableTypes(b)
             /\ summary.orders = {s.order : s \in b}
             /\ summary.stable = StableEvidence(b) /\ summary.lengths = Lengths(b)
             /\ summary.ja3 = {JA3(s) : s \in b} /\ summary.ja4 = {JA4(s) : s \in b}
  BY Zenon DEF Summary, First

LEMMA DifferencesAre ==
  ASSUME NEW b, NEW c
  PROVE  /\ Differences(b, c) \subseteq
              {"labels", "extensions", "orders", "stable", "lengths", "ja3", "ja4"}
         /\ "labels" \in Differences(b, c) <=> b.labels # c.labels
         /\ "extensions" \in Differences(b, c) <=> b.count # c.count \/ b.types # c.types
         /\ "orders" \in Differences(b, c) <=> \E order \in c.orders : ~OrderFits(b, order)
         /\ "stable" \in Differences(b, c) <=>
              \E key \in DOMAIN b.stable :
                key \notin DOMAIN c.stable \/ ~ProjectionFits(b.stable[key], c.stable[key])
         /\ "lengths" \in Differences(b, c) <=>
              ~(c.lengths \subseteq b.lengths) \/ b.types # c.types
         /\ "ja3" \in Differences(b, c) <=> ~(c.ja3 \subseteq b.ja3)
         /\ "ja4" \in Differences(b, c) <=> ~(c.ja4 \subseteq b.ja4)
<1>1. /\ "labels" \in Differences(b, c) <=> b.labels # c.labels
      /\ "extensions" \in Differences(b, c) <=> b.count # c.count \/ b.types # c.types
  BY Zenon DEF Differences
<1>2. "orders" \in Differences(b, c) <=> \E order \in c.orders : ~OrderFits(b, order)
  BY Zenon DEF Differences
<1>3. "stable" \in Differences(b, c) <=>
        \E key \in DOMAIN b.stable :
          key \notin DOMAIN c.stable \/ ~ProjectionFits(b.stable[key], c.stable[key])
  BY Zenon DEF Differences
<1>4. "lengths" \in Differences(b, c) <=>
        ~(c.lengths \subseteq b.lengths) \/ b.types # c.types
  BY Zenon DEF Differences, Unexpected
<1>5. "ja3" \in Differences(b, c) <=> ~(c.ja3 \subseteq b.ja3)
  BY Zenon DEF Differences, Unexpected
<1>6. "ja4" \in Differences(b, c) <=> ~(c.ja4 \subseteq b.ja4)
  BY Zenon DEF Differences, Unexpected
<1>7. Differences(b, c) \subseteq
        {"labels", "extensions", "orders", "stable", "lengths", "ja3", "ja4"}
  BY Zenon DEF Differences
<1> QED
  BY <1>1, <1>2, <1>3, <1>4, <1>5, <1>6, <1>7

\* What is said of a sample, and of the lengths of all.
LEMMA FactsAre ==
  ASSUME NEW s, NEW f
  PROVE  f \in Facts(s) <=>
           \E key \in DOMAIN Evidence(s) :
             LET items == Evidence(s)[key].items
             IN  \/ f = << key, Len(items) >>
                 \/ \E i \in DOMAIN items : f = << key, Len(items), i, items[i] >>
  BY DEF Facts

LEMMA LengthsAre ==
  ASSUME NEW b, NEW f
  PROVE  f \in Lengths(b) <=>
           \E s \in b : \E key \in DOMAIN Evidence(s) :
             f = << key, Len(Evidence(s)[key].items) >>
  BY DEF Lengths

\* A length is not an entry.
LEMMA LengthFact ==
  ASSUME NEW s, NEW key, NEW n
  PROVE  << key, n >> \in Facts(s) <=>
           key \in DOMAIN Evidence(s) /\ n = Len(Evidence(s)[key].items)
<1>1. \A k, m, j, w : << key, n >> # << k, m, j, w >>
  BY SMT
<1>2. \A k, m : << key, n >> = << k, m >> <=> key = k /\ n = m
  BY SMT
<1> DEFINE f == << key, n >>
<1>3. f \in Facts(s) <=>
        \E k \in DOMAIN Evidence(s) :
          LET items == Evidence(s)[k].items
          IN  \/ f = << k, Len(items) >>
              \/ \E j \in DOMAIN items : f = << k, Len(items), j, items[j] >>
  BY FactsAre
<1> QED
  BY <1>1, <1>2, <1>3, Zenon

LEMMA EntryFact ==
  ASSUME NEW s, NEW key, NEW n, NEW i, NEW v
  PROVE  << key, n, i, v >> \in Facts(s) <=>
           /\ key \in DOMAIN Evidence(s) /\ n = Len(Evidence(s)[key].items)
           /\ i \in DOMAIN Evidence(s)[key].items /\ v = Evidence(s)[key].items[i]
<1>1. \A k, m : << key, n, i, v >> # << k, m >>
  BY SMT
<1>2. \A k, m, j, w : << key, n, i, v >> = << k, m, j, w >> <=>
                        key = k /\ n = m /\ i = j /\ v = w
  BY SMT
<1> DEFINE f == << key, n, i, v >>
<1>3. f \in Facts(s) <=>
        \E k \in DOMAIN Evidence(s) :
          LET items == Evidence(s)[k].items
          IN  \/ f = << k, Len(items) >>
              \/ \E j \in DOMAIN items : f = << k, Len(items), j, items[j] >>
  BY FactsAre
<1> QED
  BY <1>1, <1>2, <1>3, Zenon

\* Nothing that a capture has in common is overlooked in one that fits.
LEMMA CommonIsFound ==
  ASSUME NEW b, Sampled(b), Alike(b, b), SamplesAgree(b),
         NEW c, Sampled(c), Alike(c, c), SamplesAgree(c),
         Compare(b, c) = {}, NEW s \in c
  PROVE  Common(b) \subseteq Facts(s)
<1> DEFINE B == Summary(b, "cold")
           C == Summary(c, "cold")
<1>1. Differences(B, C) = {}
  BY DEF Compare
<1>2. /\ B.types = ToSet(First(b).order) /\ C.types = ToSet(First(c).order)
      /\ B.stable = StableEvidence(b) /\ C.stable = StableEvidence(c)
      /\ B.lengths = Lengths(b) /\ C.lengths = Lengths(c)
  BY SummaryIs
<1> HIDE DEF B, C
<1>3. /\ B.types = C.types /\ C.lengths \subseteq B.lengths
      /\ \A key \in DOMAIN B.stable : /\ key \in DOMAIN C.stable
                                      /\ ProjectionFits(B.stable[key], C.stable[key])
  BY <1>1, DifferencesAre, Zenon
<1>4. First(b) \in b /\ First(c) \in c
  BY FirstIs DEF Sampled
<1>5. \A t \in b : DOMAIN Evidence(t) = DOMAIN Evidence(s)
  <2>1. \A t \in b : ToSet(t.order) = ToSet(First(b).order)
    BY <1>4, SameTypes
  <2>2. ToSet(s.order) = ToSet(First(c).order)
    BY <1>4, SameTypes
  <2> QED
    BY <1>2, <1>3, <2>1, <2>2, EvidenceIs
<1>6. SUFFICES ASSUME NEW f \in Common(b) PROVE f \in Facts(s)
  OBVIOUS
<1>7. \A t \in b : f \in Facts(t)
  BY DEF Common
<1>8. PICK key \in DOMAIN Evidence(First(b)) :
        LET items == Evidence(First(b))[key].items
        IN  \/ f = << key, Len(items) >>
            \/ \E i \in DOMAIN items : f = << key, Len(items), i, items[i] >>
  BY <1>4, <1>7, FactsAre
<1>9. key \in DOMAIN Evidence(s)
  BY <1>4, <1>5
<1>10. ASSUME NEW n, f = << key, n >> PROVE f \in Facts(s)
  <2>1. << key, Len(Evidence(s)[key].items) >> \in Lengths(b)
    <3>1. << key, Len(Evidence(s)[key].items) >> \in Lengths(c)
      BY <1>9 DEF Lengths
    <3> QED
      BY <1>2, <1>3, <3>1
  <2>2. PICK t \in b :
          \E k \in DOMAIN Evidence(t) :
            << key, Len(Evidence(s)[key].items) >> = << k, Len(Evidence(t)[k].items) >>
    BY <2>1, LengthsAre
  <2>3. Len(Evidence(s)[key].items) = Len(Evidence(t)[key].items)
    BY <2>2
  <2>4. n = Len(Evidence(t)[key].items)
    BY <1>7, <1>10, LengthFact, EntryFact
  <2> QED
    BY <1>9, <1>10, <2>3, <2>4, LengthFact, EntryFact
<1>11. ASSUME NEW n, NEW i, NEW v, f = << key, n, i, v >> PROVE f \in Facts(s)
  <2>1. \A t \in b :
          /\ key \in DOMAIN Evidence(t) /\ n = Len(Evidence(t)[key].items)
          /\ i \in DOMAIN Evidence(t)[key].items /\ v = Evidence(t)[key].items[i]
    <3> TAKE t \in b
    <3>1. << key, n, i, v >> \in Facts(t)
      BY <1>7, <1>11
    <3> QED
      BY <3>1, EntryFact
  <2>2. \A t \in b : i \in Agreed(ValuesOf(b, key), Evidence(t)[key])
    BY <2>1 DEF Agreed, ValuesOf
  <2>3. Comparable(ValuesOf(b, key))
    BY <2>1, <2>2, Zenon DEF Comparable, ValuesOf
  <2>4. key \in Shared(b) /\ DOMAIN B.stable = Shared(b)
    BY <1>2, <2>1, <2>3, SharedIs
  <2>5. key \in Shared(c) /\ ProjectionFits(StableEvidence(b)[key], StableEvidence(c)[key])
    BY <1>2, <1>3, <2>4, SharedIs
  <2>6. LET stable == StableEvidence(b)[key]
        IN  /\ stable.length = n /\ i \in DOMAIN stable.items /\ stable.items[i] = v
    BY <1>4, <2>1, <2>2, <2>4, StableIs
  <2>7. LET stable == StableEvidence(c)[key]
        IN  /\ stable.length = n /\ i \in DOMAIN stable.items /\ stable.items[i] = v
    BY <2>5, <2>6 DEF ProjectionFits
  <2>8. /\ n = Len(Evidence(s)[key].items) /\ i \in DOMAIN Evidence(s)[key].items
        /\ Evidence(s)[key].items[i] = v
    BY <2>5, <2>7, StableIs DEF Agreed
  <2> QED
    BY <1>9, <1>11, <2>8, LengthFact, EntryFact
<1> QED
  BY <1>8, <1>10, <1>11, Zenon

\* The positions at which a capture always has the same extension.
LEMMA FixedIs ==
  ASSUME NEW b
  PROVE  /\ DOMAIN FixedPositions(b) =
              {i \in DOMAIN First(b).order :
                 \A s \in b : s.order[i] = First(b).order[i]}
         /\ \A i \in DOMAIN FixedPositions(b) : FixedPositions(b)[i] = First(b).order[i]
  BY DEF FixedPositions, First

LEMMA OrderIs ==
  ASSUME NEW b, Sampled(b), NEW s \in b
  PROVE  Len(s.order) \in Nat /\ DOMAIN s.order = 1 .. Len(s.order)
<1>1. s.order \in Seq(DOMAIN s.content \ {"ciphers"})
  BY DEF Sampled
<1> QED
  BY <1>1, SMT

\* And no place that is fixed.
LEMMA PlacesAreFound ==
  ASSUME NEW b, Sampled(b), SamplesAgree(b), NEW c, Sampled(c),
         Compare(b, c) = {}, NEW s \in c, NEW i \in DOMAIN s.order,
         \A t \in b : t.order[i] = First(b).order[i]
  PROVE  s.order[i] = First(b).order[i]
<1> DEFINE B == Summary(b, "cold")
           C == Summary(c, "cold")
<1>1. Differences(B, C) = {}
  BY DEF Compare
<1>2. /\ B.count = Len(First(b).order) /\ B.fixed = FixedPositions(b)
      /\ C.orders = {t.order : t \in c}
  BY SummaryIs
<1> HIDE DEF B, C
<1>3. OrderFits(B, s.order)
  <2>1. \A order \in C.orders : OrderFits(B, order)
    BY <1>1, DifferencesAre, Zenon
  <2> QED
    BY <1>2, <2>1
<1>4. First(b) \in b
  BY FirstIs DEF Sampled
<1>5. DOMAIN s.order = DOMAIN First(b).order
  <2>1. Len(s.order) = Len(First(b).order)
    BY <1>2, <1>3 DEF OrderFits
  <2> QED
    BY <1>4, <2>1, OrderIs
<1>6. i \in DOMAIN FixedPositions(b) /\ FixedPositions(b)[i] = First(b).order[i]
  BY <1>5, FixedIs
<1> QED
  BY <1>2, <1>3, <1>6 DEF OrderFits

LEMMA NothingOverlooked == Overlooked = {}
<1> SUFFICES ASSUME NEW b \in Baselines, SamplesAgree(b), NEW c \in Candidates,
                    SamplesAgree(c), Compare(b, c) = {}, NEW s \in c
             PROVE  /\ Common(b) \subseteq Facts(s)
                    /\ \A i \in DOMAIN s.order :
                         (\A t \in b : t.order[i] = (CHOOSE u \in b : TRUE).order[i])
                           => s.order[i] = (CHOOSE u \in b : TRUE).order[i]
  BY DEF Overlooked
<1>1. Sampled(b) /\ Alike(b, b) /\ Sampled(c) /\ Alike(c, c)
  BY CapturesAreSampled
<1>2. Common(b) \subseteq Facts(s)
  BY <1>1, CommonIsFound
<1>3. (CHOOSE u \in b : TRUE) = First(b)
  BY DEF First
<1>4. ASSUME NEW i \in DOMAIN s.order, \A t \in b : t.order[i] = First(b).order[i]
      PROVE  s.order[i] = First(b).order[i]
  BY <1>1, <1>4, PlacesAreFound
<1> QED
  BY <1>2, <1>3, <1>4

-----------------------------------------------------------------------------
\* A function that takes no value twice takes as many as it has arguments.
LEMMA ImageSize ==
  ASSUME NEW S, IsFiniteSet(S), NEW f, S \subseteq DOMAIN f,
         \A i, j \in S : f[i] = f[j] => i = j
  PROVE  /\ IsFiniteSet({f[i] : i \in S})
         /\ Cardinality({f[i] : i \in S}) = Cardinality(S)
<1> DEFINE T == {f[i] : i \in S}
           g == [i \in S |-> f[i]]
<1>1. g \in Bijection(S, T)
  BY SMT DEF Bijection, Injection, Surjection, IsInjective
<1>2. ExistsBijection(S, T)
  BY <1>1 DEF ExistsBijection
<1> QED
  BY <1>2, FS_Bijection

LEMMA PolicyIsValid ==
  ASSUME NEW b, Sampled(b), SamplesAgree(b)
  PROVE  PolicyValid(Summary(b, "cold"), "nss")
<1> DEFINE B     == Summary(b, "cold")
           first == First(b).order
           fixed == {FixedPositions(b)[i] : i \in DOMAIN FixedPositions(b)}
           places == DOMAIN FixedPositions(b)
<1>1. /\ B.types = ToSet(first) /\ B.count = Len(first)
      /\ B.fixed = FixedPositions(b) /\ B.movable = MovableTypes(b)
  BY SummaryIs
<1>2. First(b) \in b /\ DOMAIN first = 1 .. Len(first) /\ Len(first) \in Nat
  BY FirstIs, OrderIs DEF Sampled
<1>3. \A i, j \in DOMAIN first : first[i] = first[j] => i = j
  BY <1>2 DEF Sampled
<1>4. IsFiniteSet(DOMAIN first) /\ Cardinality(DOMAIN first) = Len(first)
  <2>1. IsFiniteSet(1 .. Len(first))
        /\ Cardinality(1 .. Len(first)) = IF 1 > Len(first) THEN 0 ELSE Len(first) - 1 + 1
    BY <1>2, FS_Interval, SMT
  <2>2. Cardinality(1 .. Len(first)) = Len(first)
    BY <1>2, <2>1, SMT
  <2> QED
    BY <1>2, <2>1, <2>2
<1>5. ToSet(first) = {first[i] : i \in DOMAIN first}
  BY DEF ToSet
<1>6. IsFiniteSet(ToSet(first)) /\ Cardinality(ToSet(first)) = Len(first)
  <2>1. /\ IsFiniteSet({first[i] : i \in DOMAIN first})
        /\ Cardinality({first[i] : i \in DOMAIN first}) = Cardinality(DOMAIN first)
    BY <1>3, <1>4, ImageSize
  <2> QED
    BY <1>4, <1>5, <2>1
<1>7. places \subseteq DOMAIN first /\ fixed = {first[i] : i \in places}
  BY FixedIs, Zenon
<1>8. IsFiniteSet(places)
  BY <1>4, <1>7, FS_Subset
<1>9. IsFiniteSet(fixed) /\ Cardinality(fixed) = Cardinality(places)
  <2> HIDE DEF first, places, fixed
  <2>1. /\ IsFiniteSet({first[i] : i \in places})
        /\ Cardinality({first[i] : i \in places}) = Cardinality(places)
    BY <1>3, <1>7, <1>8, ImageSize
  <2> QED
    BY <1>7, <2>1
<1>10. fixed \subseteq ToSet(first)
  BY <1>5, <1>7
<1>11. MovableTypes(b) = ToSet(first) \ fixed
  <2>1. UNION {ToSet(s.order) : s \in b} = ToSet(first)
    <3>1. \A s \in b : ToSet(s.order) = ToSet(first)
      BY <1>2, SameTypes
    <3> QED
      BY <1>2, <3>1
  <2> QED
    <3> DEFINE types == UNION {ToSet(s.order) : s \in b}
    <3>1. MovableTypes(b) = types \ fixed
      BY DEF MovableTypes
    <3>2. types = ToSet(first)
      BY <2>1
    <3> HIDE DEF first, fixed, types
    <3> QED
      BY <3>1, <3>2
<1> HIDE DEF B, first, fixed, places
<1>12. Cardinality(fixed) + Cardinality(MovableTypes(b)) = Len(first)
  <2>1. fixed \cap ToSet(first) = fixed
    BY <1>10
  <2>2. /\ IsFiniteSet(ToSet(first) \ fixed)
        /\ Cardinality(ToSet(first) \ fixed)
             = Cardinality(ToSet(first)) - Cardinality(ToSet(first) \cap fixed)
    BY <1>6, FS_Difference
  <2>3. ToSet(first) \cap fixed = fixed
    BY <2>1
  <2>4. Cardinality(fixed) \in Nat
    BY <1>9, FS_CardinalityType
  <2>5. Cardinality(MovableTypes(b)) = Len(first) - Cardinality(fixed)
    BY <1>6, <1>11, <2>2, <2>3, Zenon
  <2> QED
    BY <1>2, <2>4, <2>5, SMT
<1>13. fixed = {B.fixed[i] : i \in DOMAIN B.fixed} /\ places = DOMAIN B.fixed
  BY <1>1 DEF fixed, places
<1>14. fixed \cap MovableTypes(b) = {} /\ fixed \cup MovableTypes(b) = ToSet(first)
  BY <1>10, <1>11
<1> QED
  BY <1>1, <1>6, <1>9, <1>12, <1>13, <1>14 DEF PolicyValid, B

\* The handshakes of a baseline keep its fixed places and move the others.
LEMMA OwnOrderFits ==
  ASSUME NEW b, Sampled(b), SamplesAgree(b), NEW s \in b
  PROVE  OrderFits(Summary(b, "cold"), s.order)
<1> DEFINE B      == Summary(b, "cold")
           first  == First(b).order
           places == DOMAIN FixedPositions(b)
           fixed  == {FixedPositions(b)[i] : i \in places}
<1>1. /\ B.types = ToSet(first) /\ B.count = Len(first)
      /\ B.fixed = FixedPositions(b) /\ B.movable = MovableTypes(b)
  BY SummaryIs
<1>2. First(b) \in b
  BY FirstIs DEF Sampled
<1>3. Len(s.order) = Len(first) /\ ToSet(s.order) = ToSet(first)
  BY <1>2, SameTypes
<1>4. \A i \in places : FixedPositions(b)[i] = s.order[i]
  BY FixedIs
<1>5. places \subseteq DOMAIN s.order
  <2>1. DOMAIN s.order = DOMAIN first
    BY <1>2, <1>3, OrderIs
  <2> QED
    BY <2>1, FixedIs
<1>6. MovableTypes(b) = ToSet(first) \ fixed
  <2> DEFINE types == UNION {ToSet(t.order) : t \in b}
  <2>1. MovableTypes(b) = types \ fixed
    BY DEF MovableTypes
  <2>2. types = ToSet(first)
    <3>1. \A t \in b : ToSet(t.order) = ToSet(first)
      BY <1>2, SameTypes
    <3> QED
      BY <1>2, <3>1
  <2> HIDE DEF first, fixed, types
  <2> QED
    BY <2>1, <2>2
<1>7. fixed = {s.order[i] : i \in places}
  BY <1>4
<1>8. ToSet(s.order) = {s.order[i] : i \in DOMAIN s.order}
  BY DEF ToSet
<1>9. \A i, j \in DOMAIN s.order : s.order[i] = s.order[j] => i = j
  BY DEF Sampled
<1>10. {s.order[i] : i \in DOMAIN s.order \ places} = MovableTypes(b)
  <2> HIDE DEF first, fixed, places
  <2>1. MovableTypes(b) = {s.order[i] : i \in DOMAIN s.order} \ {s.order[i] : i \in places}
    BY <1>3, <1>6, <1>7, <1>8
  <2>2. ASSUME NEW i \in DOMAIN s.order \ places PROVE s.order[i] \in MovableTypes(b)
    <3>1. s.order[i] \notin {s.order[j] : j \in places}
      BY <1>5, <1>9
    <3> QED
      BY <2>1, <3>1
  <2>3. ASSUME NEW m \in MovableTypes(b)
        PROVE  m \in {s.order[i] : i \in DOMAIN s.order \ places}
    BY <2>1
  <2> QED
    BY <2>2, <2>3
<1> HIDE DEF B, first, fixed
<1> QED
  BY <1>1, <1>3, <1>4, <1>10 DEF OrderFits, B

\* What some handshakes of a baseline show is shared more, not less.
LEMMA SharedBySome ==
  ASSUME NEW b, Sampled(b), Alike(b, b), NEW c \in SUBSET b, Sampled(c), Alike(c, c),
         NEW key \in Shared(b)
  PROVE  /\ key \in Shared(c)
         /\ LET expected == StableEvidence(b)[key]
                actual   == StableEvidence(c)[key]
            IN  /\ expected.length = actual.length
                /\ \A i \in DOMAIN expected.items :
                     i \in DOMAIN actual.items /\ actual.items[i] = expected.items[i]
                /\ expected.kind # "partial" => actual.kind = expected.kind
<1>1. (\A s \in b : key \in DOMAIN Evidence(s)) /\ Comparable(ValuesOf(b, key))
  BY SharedIs
<1>2. ValuesOf(c, key) \subseteq ValuesOf(b, key)
  BY DEF ValuesOf
<1>3. \A v : Agreed(ValuesOf(b, key), v) \subseteq Agreed(ValuesOf(c, key), v)
  BY <1>2 DEF Agreed
<1>4. Comparable(ValuesOf(c, key))
  BY <1>1, <1>2, <1>3 DEF Comparable
<1>5. key \in Shared(c)
  BY <1>1, <1>4, SharedIs
<1> PICK s \in c : TRUE
  BY DEF Sampled
<1> DEFINE expected == StableEvidence(b)[key]
           actual   == StableEvidence(c)[key]
           value    == Evidence(s)[key]
           whole    == Agreed(ValuesOf(b, key), value)
           common     == Agreed(ValuesOf(c, key), value)
<1>6. /\ expected.length = Len(value.items) /\ DOMAIN expected.items = whole
      /\ \A i \in whole : expected.items[i] = value.items[i]
      /\ expected.kind = IF whole = DOMAIN value.items THEN value.kind ELSE "partial"
  BY StableIs
<1>7. /\ actual.length = Len(value.items) /\ DOMAIN actual.items = common
      /\ \A i \in common : actual.items[i] = value.items[i]
      /\ actual.kind = IF common = DOMAIN value.items THEN value.kind ELSE "partial"
  BY <1>5, StableIs
<1>8. whole \subseteq common /\ common \subseteq DOMAIN value.items
  BY <1>3 DEF Agreed
<1> HIDE DEF expected, actual, value, whole, common
<1>9. /\ expected.length = actual.length
      /\ \A i \in DOMAIN expected.items :
           i \in DOMAIN actual.items /\ actual.items[i] = expected.items[i]
      /\ expected.kind # "partial" => actual.kind = expected.kind
  BY <1>6, <1>7, <1>8
<1> QED
  BY <1>5, <1>9 DEF expected, actual

\* A candidate that shows handshakes of the baseline only.
LEMMA OwnDifferences ==
  ASSUME NEW b, Sampled(b), Alike(b, b), SamplesAgree(b),
         NEW c \in SUBSET b, c # {}
  PROVE  LET partial == {key \in Shared(b) : StableEvidence(b)[key].kind = "partial"}
         IN  /\ Compare(b, c) \subseteq {"stable"}
             /\ Compare(b, c) = {} <=>
                  \A key \in partial : StableEvidence(c)[key].kind = "partial"
<1> DEFINE B == Summary(b, "cold")
           C == Summary(c, "cold")
           partial == {key \in Shared(b) : StableEvidence(b)[key].kind = "partial"}
<1>1. Sampled(c) /\ SamplesAgree(c) /\ Alike(c, c)
  BY SomeAgree DEF Alike
<1>2. First(b) \in b /\ First(c) \in b
  BY FirstIs DEF Sampled
<1>3. B.labels = C.labels /\ B.types = C.types /\ B.count = C.count
  <2>1. ToSet(First(b).order) = ToSet(First(c).order)
        /\ Len(First(b).order) = Len(First(c).order)
    BY <1>2, SameTypes
  <2> QED
    BY <2>1, SummaryIs
<1>4. \A order \in C.orders : OrderFits(B, order)
  <2>1. C.orders = {s.order : s \in c}
    BY SummaryIs
  <2> QED
    BY <2>1, OwnOrderFits
<1>5. C.lengths \subseteq B.lengths
  <2>1. Lengths(c) \subseteq Lengths(b)
    BY DEF Lengths
  <2> QED
    BY <2>1, SummaryIs
<1>6. C.ja3 \subseteq B.ja3 /\ C.ja4 \subseteq B.ja4
  <2>1. /\ C.ja3 = {JA3(s) : s \in c} /\ B.ja3 = {JA3(s) : s \in b}
        /\ C.ja4 = {JA4(s) : s \in c} /\ B.ja4 = {JA4(s) : s \in b}
    BY SummaryIs
  <2> QED
    BY <2>1
<1>7. B.stable = StableEvidence(b) /\ C.stable = StableEvidence(c)
      /\ DOMAIN B.stable = Shared(b) /\ DOMAIN C.stable = Shared(c)
  <2>1. B.stable = StableEvidence(b) /\ C.stable = StableEvidence(c)
    BY SummaryIs
  <2> QED
    BY <2>1 DEF StableEvidence
<1>8. Compare(b, c) = Differences(B, C)
  BY DEF Compare
<1> HIDE DEF B, C
<1>9. Compare(b, c) \subseteq {"stable"}
  <2>1. \A piece \in {"labels", "extensions", "orders", "lengths", "ja3", "ja4"} :
          piece \notin Compare(b, c)
    BY <1>3, <1>4, <1>5, <1>6, <1>8, DifferencesAre
  <2>2. Compare(b, c) \subseteq
          {"labels", "extensions", "orders", "stable", "lengths", "ja3", "ja4"}
    BY <1>8, DifferencesAre
  <2> QED
    BY <2>1, <2>2
<1>10. "stable" \notin Compare(b, c) <=>
         \A key \in Shared(b) : /\ key \in Shared(c)
                                /\ ProjectionFits(StableEvidence(b)[key], StableEvidence(c)[key])
  BY <1>7, <1>8, DifferencesAre, Zenon
<1>11. ASSUME NEW key \in Shared(b)
       PROVE  /\ key \in Shared(c)
              /\ ProjectionFits(StableEvidence(b)[key], StableEvidence(c)[key]) <=>
                   StableEvidence(b)[key].kind = StableEvidence(c)[key].kind
              /\ StableEvidence(b)[key].kind # "partial" =>
                   StableEvidence(c)[key].kind = StableEvidence(b)[key].kind
  BY <1>1, SharedBySome DEF ProjectionFits
<1>12. Compare(b, c) = {} <=> "stable" \notin Compare(b, c)
  BY <1>9
<1>13. "stable" \notin Compare(b, c) <=>
         \A key \in partial : StableEvidence(c)[key].kind = "partial"
  BY <1>10, <1>11, Zenon
<1> QED
  BY <1>9, <1>12, <1>13

LEMMA NoFalseAlarms == FalseAlarms = {}
<1> SUFFICES ASSUME NEW b \in Baselines, SamplesAgree(b), NEW c \in (SUBSET b) \ {{}}
             PROVE  LET partial == {key \in Shared(b) :
                                      StableEvidence(b)[key].kind = "partial"}
                    IN  /\ PolicyValid(Summary(b, "cold"), "nss")
                        /\ Compare(b, c) \subseteq {"stable"}
                        /\ Compare(b, c) = {} <=>
                             \A key \in partial : StableEvidence(c)[key].kind = "partial"
  BY DEF FalseAlarms
<1>1. Sampled(b) /\ Alike(b, b)
  BY CapturesAreSampled
<1>2. c \in SUBSET b /\ c # {}
  OBVIOUS
<1> QED
  BY <1>1, <1>2, PolicyIsValid, OwnDifferences

\* For any captures of any number of handshakes, the verdict overlooks nothing
\* that the baseline has in common, and has one cause of false alarms only.
THEOREM VerdictsAreSound == CaptureSpec => []VerdictIsSound
<1>1. VerdictIsSound
  BY NothingOverlooked, NoFalseAlarms DEF VerdictIsSound
<1> QED
  BY <1>1, PTL

=============================================================================
