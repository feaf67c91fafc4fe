--------------------------- MODULE PySessionProofs ---------------------------
(***************************************************************************)
(* Proofs about PySession, for any number of threads, native sessions,     *)
(* calls and interrupts, and any bundles and arguments.                    *)
(***************************************************************************)
EXTENDS PySession, SequenceFolds, FiniteSetTheorems, TLAPS

\* The functions and records that the steps update.
Shapes ==
  /\ DOMAIN pc = Threads /\ DOMAIN call = Threads /\ DOMAIN closing = Threads
  /\ DOMAIN native = Natives
  /\ calls \in [Threads -> Nat]
  /\ \A t \in Threads : DOMAIN call[t] = {"verify", "native", "policy", "normalized"}
  /\ \A n \in Natives : DOMAIN native[n] = {"at", "anchors"}

LEMMA InitShapes == Init => Shapes
  BY SMT DEF Init, Shapes, NoCall

\* What a normalised request is, as far as the steps depend on it.
LEMMA AcceptedScheme ==
  ASSUME NEW a, NormalizeRequest(a).error = "none"
  PROVE  NormalizeRequest(a).scheme \in {"http", "https"}
  BY SMT DEF NormalizeRequest, Rejected, UrlAccepted, UrlEscapes

\* A request in hand, with the arguments of the caller.
Given(t, a, scheme, q) ==
  /\ Goes(t, scheme)
  /\ call' = [call EXCEPT ![t] = [NoCall EXCEPT
                !.verify = a.verify, !.normalized = q]]
Beginning(t) ==
  /\ pc[t] = "idle" /\ calls[t] < MaxCalls
  /\ calls' = [calls EXCEPT ![t] = @ + 1]
  /\ UNCHANGED << verifyInput, closed, http, https, policy, native,
                  closing, bundle, interrupts, changes, raced >>
  /\ \/ Ends(t)
     \/ \E a \in Arguments(t, calls[t] + 1), scheme \in {"http", "https"} :
          \E q : Given(t, a, scheme, q)

\* A request that begins has ended at once, or has its arguments and no policy.
LEMMA Begun ==
  ASSUME NEW t \in Threads, RequestBegins(t)
  PROVE  Beginning(t)
<1>1. PICK a \in Arguments(t, calls[t] + 1) :
        LET q == NormalizeRequest(a)
        IN  IF closed \/ a.otherProfile \/ q.error # "none" THEN Ends(t)
            ELSE /\ Goes(t, q.scheme)
                 /\ call' = [call EXCEPT ![t] = [NoCall EXCEPT
                               !.verify = a.verify, !.normalized = q]]
  BY Zenon DEF RequestBegins
<1> DEFINE q == NormalizeRequest(a)
<1>2. q.error = "none" => q.scheme \in {"http", "https"}
  BY AcceptedScheme
<1>3. \/ Ends(t)
      \/ /\ q.error = "none" /\ Goes(t, q.scheme)
         /\ call' = [call EXCEPT ![t] = [NoCall EXCEPT
                       !.verify = a.verify, !.normalized = q]]
  BY <1>1, Zenon
<1> HIDE DEF q
<1>4. \/ Ends(t)
      \/ \E b \in Arguments(t, calls[t] + 1), scheme \in {"http", "https"} :
           \E r : Given(t, b, scheme, r)
  BY <1>2, <1>3, Zenon DEF Given
<1> QED
  BY <1>4, Zenon DEF RequestBegins, Beginning, attributes

LEMMA ShapesKept == Shapes /\ [Next]_vars => Shapes'
<1> SUFFICES ASSUME Shapes, [Next]_vars PROVE Shapes'
  OBVIOUS
<1> USE DEF Shapes
<1>1. ASSUME NEW t \in Threads, RequestBegins(t) PROVE Shapes'
  <2>1. Beginning(t)
    BY <1>1, Begun
  <2>2. CASE Ends(t)
    BY <2>1, <2>2, SMT DEF Beginning, Goes, Ends, NoCall
  <2>3. ASSUME NEW a, NEW scheme, NEW q, Given(t, a, scheme, q)
        PROVE  Shapes'
    <3> DEFINE begun == [NoCall EXCEPT !.verify = a.verify, !.normalized = q]
    <3>1. DOMAIN begun = {"verify", "native", "policy", "normalized"}
      BY SMT DEF NoCall
    <3>2. call' = [call EXCEPT ![t] = begun] /\ Goes(t, scheme)
      BY <2>3, Zenon DEF Given
    <3> HIDE DEF begun
    <3> QED
      BY <2>1, <3>1, <3>2, SMT DEF Beginning, Goes
  <2> QED
    BY <2>1, <2>2, <2>3, Zenon DEF Beginning
<1>2. ASSUME NEW t \in Threads, TestsHttp(t) PROVE Shapes'
  BY <1>2, SMT DEF TestsHttp, Goes, Forget, attributes
<1>3. ASSUME NEW t \in Threads, CreatesHttp(t) PROVE Shapes'
  BY <1>3, SMT DEF CreatesHttp, Goes, Ends, Creates, NoCall
<1>4. ASSUME NEW t \in Threads, TakesHttp(t) PROVE Shapes'
  BY <1>4, SMT DEF TakesHttp, Goes, attributes
<1>5. ASSUME NEW t \in Threads, TestsHttps(t) PROVE Shapes'
  BY <1>5, SMT DEF TestsHttps, Goes, Forget, attributes
<1>6. ASSUME NEW t \in Threads, ReadsPolicy(t) PROVE Shapes'
  BY <1>6, SMT DEF ReadsPolicy, Goes, Ends, attributes, NoCall
<1>7. ASSUME NEW t \in Threads, CreatesHttps(t) PROVE Shapes'
  BY <1>7, SMT DEF CreatesHttps, Goes, Creates
<1>8. ASSUME NEW t \in Threads, SetsPolicy(t) PROVE Shapes'
  BY <1>8, SMT DEF SetsPolicy, Goes
<1>9. ASSUME NEW t \in Threads, TakesHttps(t) PROVE Shapes'
  BY <1>9, SMT DEF TakesHttps, Goes, attributes
<1>10. ASSUME NEW t \in Threads, TakesPolicy(t) PROVE Shapes'
  BY <1>10, SMT DEF TakesPolicy, Goes, attributes
<1>11. ASSUME NEW t \in Threads, Verifies(t) PROVE Shapes'
  BY <1>11, SMT DEF Verifies, Goes, Ends, attributes, NoCall
<1>12. ASSUME NEW t \in Threads, Sends(t) PROVE Shapes'
  BY <1>12, SMT DEF Sends, Goes, Ends, attributes, NoCall
<1>13. ASSUME NEW t \in Threads, Receives(t) PROVE Shapes'
  BY <1>13, SMT DEF Receives, Ends, attributes, Goes, NoCall
<1>14. ASSUME NEW t \in Threads, CloseBegins(t) PROVE Shapes'
  BY <1>14, SMT DEF CloseBegins, Goes, Ends, NoCall
<1>15. ASSUME NEW t \in Threads, CloseLists(t) PROVE Shapes'
  BY <1>15, SMT DEF CloseLists, Goes, attributes
<1>16. ASSUME NEW t \in Threads, CloseSteps(t) PROVE Shapes'
  BY <1>16, SMT DEF CloseSteps, Ends, attributes, Goes, NoCall
<1>17. ASSUME NEW t \in Threads, Interrupted(t) PROVE Shapes'
  BY <1>17, SMT DEF Interrupted, Ends, attributes, Goes, NoCall
<1>18. CASE BundleChanges
  BY <1>18, SMT DEF BundleChanges, attributes
<1>19. CASE UNCHANGED vars
  BY <1>19, SMT DEF vars, attributes
<1> QED
  BY <1>1, <1>2, <1>3, <1>4, <1>5, <1>6, <1>7, <1>8, <1>9, <1>10, <1>11, <1>12,
     <1>13, <1>14, <1>15, <1>16, <1>17, <1>18, <1>19 DEF Next

-----------------------------------------------------------------------------
(* InsecureByChoice.  A policy that verifies nothing is built only by a     *)
(* session, or for a request, that says so.                                 *)

Chosen(t) ==
  \/ call[t].verify = "off"
  \/ call[t].verify = "none" /\ verifyInput = "off"

InsecureInv ==
  /\ policy.insecure => verifyInput = "off"
  /\ \A t \in Threads :
       /\ call[t].verify \in {"none", "off", "bundle"}
       /\ call[t].policy.insecure =>
            /\ pc[t] \in {"createHttps", "setPolicy", "verify"} => verifyInput = "off"
            /\ pc[t] \in {"send", "await"} => Chosen(t)
            /\ pc[t] \in {"createHttps", "setPolicy", "takeHttps", "takePolicy",
                          "verify", "send", "await"}

\* What the policies that the code makes say.
LEMMA Policies == ~NoPolicy.insecure /\ Insecure.insecure /\ ~Read.insecure
  BY Zenon DEF NoPolicy, Insecure, Read, Policy

LEMMA NoCallIs ==
  NoCall.verify = "none" /\ NoCall.policy = NoPolicy /\ NoCall.native = None
  BY Zenon DEF NoCall

LEMMA BegunIs ==
  ASSUME NEW v, NEW q
  PROVE  LET begun == [NoCall EXCEPT !.verify = v, !.normalized = q]
         IN  begun.verify = v /\ begun.policy = NoPolicy /\ begun.native = None
  BY SMT DEF NoCall

\* Verification is off for a request that says so, or as the session says.
LEMMA Resolved ==
  ASSUME NEW verify \in {"none", "off", "bundle"}, NEW session,
         Resolves(verify, session).insecure
  PROVE  verify = "off" \/ (verify = "none" /\ session.insecure)
<1>1. CASE verify = "bundle"
  <2>1. Resolves(verify, session) = Read \/ Resolves(verify, session) = NoPolicy
    BY <1>1, SMT DEF Resolves
  <2> QED
    BY <2>1, Policies
<1>2. CASE verify = "none"
  BY <1>2, SMT DEF Resolves
<1>3. CASE verify = "off"
  BY <1>3
<1> QED
  BY <1>1, <1>2, <1>3, SMT

\* The request of a thread has one of the arguments of the caller.
LEMMA GivenVerify ==
  ASSUME NEW t \in Threads, Shapes, calls[t] < MaxCalls,
         NEW a \in Arguments(t, calls[t] + 1)
  PROVE  a.verify \in {"none", "off", "bundle"}
<1>1. calls[t] + 1 \in 1 .. MaxCalls
  BY SessionAssumption, SMT DEF Shapes
<1> QED
  BY <1>1, ArgumentsAssumption, Zenon

LEMMA InsecureKept == Shapes /\ InsecureInv /\ [Next]_vars => InsecureInv'
<1> SUFFICES ASSUME Shapes, InsecureInv, [Next]_vars PROVE InsecureInv'
  OBVIOUS
<1> USE DEF Shapes, InsecureInv, Chosen
<1>1. ASSUME NEW t \in Threads, RequestBegins(t) PROVE InsecureInv'
  <2>1. Beginning(t)
    BY <1>1, Begun
  <2>2. CASE Ends(t)
    BY <2>1, <2>2, NoCallIs, Policies, SMT DEF Beginning, Goes, Ends
  <2>3. ASSUME NEW a \in Arguments(t, calls[t] + 1), NEW scheme \in {"http", "https"},
               NEW q, Given(t, a, scheme, q)
        PROVE  InsecureInv'
    <3> DEFINE begun == [NoCall EXCEPT !.verify = a.verify, !.normalized = q]
    <3>1. begun.verify = a.verify /\ begun.policy = NoPolicy
      BY BegunIs
    <3>2. call' = [call EXCEPT ![t] = begun] /\ Goes(t, scheme)
      BY <2>3, Zenon DEF Given
    <3>3. a.verify \in {"none", "off", "bundle"}
      BY <2>1, GivenVerify DEF Beginning
    <3> HIDE DEF begun
    <3> QED
      BY <2>1, <3>1, <3>2, <3>3, Policies, SMT DEF Beginning, Goes
  <2> QED
    BY <2>1, <2>2, <2>3, Zenon DEF Beginning
<1>2. ASSUME NEW t \in Threads, TestsHttp(t) PROVE InsecureInv'
  BY <1>2, NoCallIs, Policies, SMT DEF TestsHttp, Goes, Forget, attributes
<1>3. ASSUME NEW t \in Threads, CreatesHttp(t) PROVE InsecureInv'
  BY <1>3, NoCallIs, Policies, SMT DEF CreatesHttp, Goes, Ends, Creates
<1>4. ASSUME NEW t \in Threads, TakesHttp(t) PROVE InsecureInv'
  BY <1>4, NoCallIs, Policies, SMT DEF TakesHttp, Goes, attributes
<1>5. ASSUME NEW t \in Threads, TestsHttps(t) PROVE InsecureInv'
  BY <1>5, NoCallIs, Policies, SMT DEF TestsHttps, Goes, Forget, attributes
<1>6. ASSUME NEW t \in Threads, ReadsPolicy(t) PROVE InsecureInv'
  <2> DEFINE read == IF verifyInput = "off" THEN Insecure ELSE Read
  <2>1. read.insecure => verifyInput = "off"
    BY Policies
  <2>2. \/ Ends(t)
        \/ Goes(t, "createHttps") /\ call' = [call EXCEPT ![t].policy = read]
    BY <1>6, Zenon DEF ReadsPolicy
  <2>3. pc[t] = "readPolicy" /\ UNCHANGED << policy, verifyInput >>
    BY <1>6 DEF ReadsPolicy, attributes
  <2> HIDE DEF read
  <2> QED
    BY <2>1, <2>2, <2>3, NoCallIs, Policies, SMT DEF Ends, Goes
<1>7. ASSUME NEW t \in Threads, CreatesHttps(t) PROVE InsecureInv'
  BY <1>7, NoCallIs, Policies, SMT DEF CreatesHttps, Goes, Creates
<1>8. ASSUME NEW t \in Threads, SetsPolicy(t) PROVE InsecureInv'
  BY <1>8, NoCallIs, Policies, SMT DEF SetsPolicy, Goes
<1>9. ASSUME NEW t \in Threads, TakesHttps(t) PROVE InsecureInv'
  BY <1>9, NoCallIs, Policies, SMT DEF TakesHttps, Goes, attributes
<1>10. ASSUME NEW t \in Threads, TakesPolicy(t) PROVE InsecureInv'
  BY <1>10, NoCallIs, Policies, SMT DEF TakesPolicy, Goes, attributes
<1>11. ASSUME NEW t \in Threads, Verifies(t) PROVE InsecureInv'
  <2> DEFINE resolved == Resolves(call[t].verify, call[t].policy)
  <2>1. resolved.insecure => call[t].verify = "off"
                               \/ (call[t].verify = "none" /\ call[t].policy.insecure)
    BY Resolved
  <2>2. \/ Ends(t)
        \/ Goes(t, "send") /\ call' = [call EXCEPT ![t].policy = resolved]
    BY <1>11, Zenon DEF Verifies
  <2>3. pc[t] = "verify" /\ UNCHANGED << policy, verifyInput >>
    BY <1>11 DEF Verifies, attributes
  <2> HIDE DEF resolved
  <2> QED
    BY <2>1, <2>2, <2>3, NoCallIs, Policies, SMT DEF Ends, Goes
<1>12. ASSUME NEW t \in Threads, Sends(t) PROVE InsecureInv'
  BY <1>12, NoCallIs, Policies, SMT DEF Sends, Goes, Ends, attributes
<1>13. ASSUME NEW t \in Threads, Receives(t) PROVE InsecureInv'
  BY <1>13, NoCallIs, Policies, SMT DEF Receives, Ends, attributes, Goes
<1>14. ASSUME NEW t \in Threads, CloseBegins(t) PROVE InsecureInv'
  BY <1>14, NoCallIs, Policies, SMT DEF CloseBegins, Goes, Ends
<1>15. ASSUME NEW t \in Threads, CloseLists(t) PROVE InsecureInv'
  BY <1>15, NoCallIs, Policies, SMT DEF CloseLists, Goes, Opened, attributes
<1>16. ASSUME NEW t \in Threads, CloseSteps(t) PROVE InsecureInv'
  BY <1>16, NoCallIs, Policies, SMT DEF CloseSteps, Ends, attributes, Goes
<1>17. ASSUME NEW t \in Threads, Interrupted(t) PROVE InsecureInv'
  BY <1>17, NoCallIs, Policies, SMT DEF Interrupted, Ends, attributes, Goes
<1>18. CASE BundleChanges
  BY <1>18, NoCallIs, Policies, SMT DEF BundleChanges, attributes
<1>19. CASE UNCHANGED vars
  BY <1>19, NoCallIs, Policies, SMT DEF vars, attributes
<1> QED
  BY <1>1, <1>2, <1>3, <1>4, <1>5, <1>6, <1>7, <1>8, <1>9, <1>10, <1>11, <1>12,
     <1>13, <1>14, <1>15, <1>16, <1>17, <1>18, <1>19 DEF Next

-----------------------------------------------------------------------------
(* OnlyRacesLeak.  What is open can be reached from an attribute, and when  *)
(* the session is closed, the thread that closed it still has to list the   *)
(* native sessions or has the open ones in its list.                        *)

SlotsInv ==
  /\ http \in Natives \cup {None} /\ https \in Natives \cup {None}
  /\ \A t \in Threads : closing[t] \in Seq(Natives)
  /\ interrupts \in Nat

Lists(t, n) == \E i \in 1 .. Len(closing[t]) : closing[t][i] = n

LeakInv ==
  ~raced =>
    /\ \A n \in Natives : native[n].at = "open" => n \in {http, https}
    /\ closed /\ interrupts = 0 =>
         \/ \A n \in Natives : native[n].at # "open"
         \/ \E t \in Threads :
              \/ pc[t] = "closeList"
              \/ /\ pc[t] = "close"
                 /\ \A n \in Natives : native[n].at = "open" => Lists(t, n)

LEMMA OpenedIs ==
  ASSUME SlotsInv
  PROVE  /\ Opened \in Seq(Natives)
         /\ \A n \in Natives \cap {http, https} :
              \E i \in 1 .. Len(Opened) : Opened[i] = n
  BY SessionAssumption, SMT DEF SlotsInv, Opened

\* Nothing raced: the slot was empty and the session open.
LEMMA CreatesIs ==
  ASSUME NEW n \in Natives, NEW anchors, NEW slot, Shapes,
         Creates(n, anchors, slot), ~raced'
  PROVE  /\ ~raced /\ slot = None /\ ~closed /\ native[n].at = "unborn"
         /\ DOMAIN native' = Natives
         /\ native'[n].at = "open" /\ native'[n].anchors = anchors
         /\ \A m \in Natives \ {n} : native'[m] = native[m]
<1>1. ~raced /\ slot = None /\ ~closed
  BY Zenon DEF Creates
<1>2. native[n].at = "unborn"
      /\ native' = [native EXCEPT ![n] = [at |-> "open", anchors |-> anchors]]
  BY Zenon DEF Creates
<1> QED
  BY <1>1, <1>2, SMT DEF Shapes

\* close() closes the first of its list, or has closed all.
LEMMA CloseStepsIs ==
  ASSUME NEW t \in Threads, Shapes, SlotsInv, CloseSteps(t)
  PROVE  /\ pc[t] = "close"
         /\ UNCHANGED << http, https, policy, closed, raced, interrupts >>
         /\ \A u \in Threads \ {t} : /\ pc'[u] = pc[u] /\ call'[u] = call[u]
                                   /\ closing'[u] = closing[u]
         /\ \A n \in Natives : /\ native'[n].anchors = native[n].anchors
                             /\ native'[n].at \in {native[n].at, "closed"}
         /\ \/ /\ closing[t] = << >> /\ UNCHANGED << native, closing >>
               /\ pc'[t] = "idle" /\ call'[t] = NoCall
            \/ /\ closing[t] # << >> /\ native'[Head(closing[t])].at = "closed"
               /\ closing'[t] = Tail(closing[t]) /\ UNCHANGED << pc, call >>
<1> USE DEF Shapes, SlotsInv
<1>1. CASE closing[t] = << >>
  BY <1>1, SMT DEF CloseSteps, Ends, Goes, attributes
<1>2. CASE closing[t] # << >>
  <2>1. /\ native' = [native EXCEPT ![Head(closing[t])].at = "closed"]
        /\ closing' = [closing EXCEPT ![t] = Tail(@)]
        /\ UNCHANGED << pc, call >> /\ UNCHANGED << attributes, interrupts, raced >>
        /\ pc[t] = "close"
    BY <1>2, Zenon DEF CloseSteps
  <2>2. Head(closing[t]) \in Natives
    BY <1>2, SMT
  <2> QED
    BY <1>2, <2>1, <2>2, SMT DEF attributes
<1> QED
  BY <1>1, <1>2

LEMMA SlotsKept == Shapes /\ SlotsInv /\ [Next]_vars => SlotsInv'
<1> SUFFICES ASSUME Shapes, SlotsInv, [Next]_vars PROVE SlotsInv'
  OBVIOUS
<1> USE DEF Shapes, SlotsInv
<1>1. ASSUME NEW t \in Threads, RequestBegins(t) PROVE SlotsInv'
  <2>1. Beginning(t)
    BY <1>1, Begun
  <2>2. CASE Ends(t)
    BY <2>1, <2>2, NoCallIs, SMT DEF Beginning, Goes, Ends
  <2>3. ASSUME NEW a \in Arguments(t, calls[t] + 1), NEW scheme \in {"http", "https"},
               NEW q, Given(t, a, scheme, q)
        PROVE  SlotsInv'
    <3> DEFINE begun == [NoCall EXCEPT !.verify = a.verify, !.normalized = q]
    <3>1. begun.policy = NoPolicy /\ begun.native = None
      BY BegunIs
    <3>2. call' = [call EXCEPT ![t] = begun] /\ Goes(t, scheme)
      BY <2>3, Zenon DEF Given
    <3> HIDE DEF begun
    <3> QED
      BY <2>1, <3>1, <3>2, SMT DEF Beginning, Goes
  <2> QED
    BY <2>1, <2>2, <2>3, Zenon DEF Beginning
<1>2. ASSUME NEW t \in Threads, TestsHttp(t) PROVE SlotsInv'
  BY <1>2, SMT DEF TestsHttp, Goes, Forget, attributes
<1>3. ASSUME NEW t \in Threads, CreatesHttp(t) PROVE SlotsInv'
  BY <1>3, SMT DEF CreatesHttp, Goes, Ends, Creates
<1>4. ASSUME NEW t \in Threads, TakesHttp(t) PROVE SlotsInv'
  BY <1>4, SMT DEF TakesHttp, Goes, attributes
<1>5. ASSUME NEW t \in Threads, TestsHttps(t) PROVE SlotsInv'
  BY <1>5, SMT DEF TestsHttps, Goes, Forget, attributes
<1>6. ASSUME NEW t \in Threads, ReadsPolicy(t) PROVE SlotsInv'
  BY <1>6, SMT DEF ReadsPolicy, Goes, Ends, attributes
<1>7. ASSUME NEW t \in Threads, CreatesHttps(t) PROVE SlotsInv'
  BY <1>7, SMT DEF CreatesHttps, Goes, Creates
<1>8. ASSUME NEW t \in Threads, SetsPolicy(t) PROVE SlotsInv'
  BY <1>8, SMT DEF SetsPolicy, Goes
<1>9. ASSUME NEW t \in Threads, TakesHttps(t) PROVE SlotsInv'
  BY <1>9, SMT DEF TakesHttps, Goes, attributes
<1>10. ASSUME NEW t \in Threads, TakesPolicy(t) PROVE SlotsInv'
  BY <1>10, SMT DEF TakesPolicy, Goes, attributes
<1>11. ASSUME NEW t \in Threads, Verifies(t) PROVE SlotsInv'
  BY <1>11, SMT DEF Verifies, Goes, Ends, Resolves, attributes
<1>12. ASSUME NEW t \in Threads, Sends(t) PROVE SlotsInv'
  BY <1>12, SMT DEF Sends, Goes, Ends, attributes
<1>13. ASSUME NEW t \in Threads, Receives(t) PROVE SlotsInv'
  BY <1>13, SMT DEF Receives, Ends, attributes, Goes
<1>14. ASSUME NEW t \in Threads, CloseBegins(t) PROVE SlotsInv'
  BY <1>14, SMT DEF CloseBegins, Goes, Ends
<1>15. ASSUME NEW t \in Threads, CloseLists(t) PROVE SlotsInv'
  BY <1>15, OpenedIs, SMT DEF CloseLists, attributes
<1>16. ASSUME NEW t \in Threads, CloseSteps(t) PROVE SlotsInv'
  <2>1. \A u \in Threads : closing'[u] \in Seq(Natives)
    <3>1. closing'[t] \in Seq(Natives)
      <4>1. CASE closing[t] = << >>
        BY <1>16, <4>1, CloseStepsIs, Zenon
      <4>2. CASE closing[t] # << >>
        <5>1. closing'[t] = Tail(closing[t])
          BY <1>16, <4>2, CloseStepsIs, Zenon
        <5> QED
          BY <4>2, <5>1, SMT
      <4> QED
        BY <4>1, <4>2
    <3>2. \A u \in Threads \ {t} : closing'[u] \in Seq(Natives)
      BY <1>16, CloseStepsIs, SMT
    <3> QED
      BY <3>1, <3>2
  <2> QED
    BY <1>16, <2>1, CloseStepsIs, SMT
<1>17. ASSUME NEW t \in Threads, Interrupted(t) PROVE SlotsInv'
  BY <1>17, SMT DEF Interrupted, Ends, attributes, Goes
<1>18. CASE BundleChanges
  BY <1>18, SMT DEF BundleChanges, attributes
<1>19. CASE UNCHANGED vars
  BY <1>19, SMT DEF vars, attributes
<1> QED
  BY <1>1, <1>2, <1>3, <1>4, <1>5, <1>6, <1>7, <1>8, <1>9, <1>10, <1>11, <1>12,
     <1>13, <1>14, <1>15, <1>16, <1>17, <1>18, <1>19 DEF Next

LEMMA LeakKept == Shapes /\ SlotsInv /\ LeakInv /\ [Next]_vars => LeakInv'
<1> SUFFICES ASSUME Shapes, SlotsInv, LeakInv, [Next]_vars PROVE LeakInv'
  OBVIOUS
<1> USE SessionAssumption DEF Shapes, SlotsInv, LeakInv, Lists
<1>1. ASSUME NEW t \in Threads, RequestBegins(t) PROVE LeakInv'
  <2>1. Beginning(t)
    BY <1>1, Begun
  <2>2. CASE Ends(t)
    BY <2>1, <2>2, NoCallIs, SMT DEF Beginning, Goes, Ends
  <2>3. ASSUME NEW a \in Arguments(t, calls[t] + 1), NEW scheme \in {"http", "https"},
               NEW q, Given(t, a, scheme, q)
        PROVE  LeakInv'
    <3> DEFINE begun == [NoCall EXCEPT !.verify = a.verify, !.normalized = q]
    <3>1. begun.policy = NoPolicy /\ begun.native = None
      BY BegunIs
    <3>2. call' = [call EXCEPT ![t] = begun] /\ Goes(t, scheme)
      BY <2>3, Zenon DEF Given
    <3> HIDE DEF begun
    <3> QED
      BY <2>1, <3>1, <3>2, SMT DEF Beginning, Goes
  <2> QED
    BY <2>1, <2>2, <2>3, ZenonT(40) DEF Beginning
<1>2. ASSUME NEW t \in Threads, TestsHttp(t) PROVE LeakInv'
  BY <1>2, SMT DEF TestsHttp, Goes, Forget, attributes
<1>3. ASSUME NEW t \in Threads, CreatesHttp(t) PROVE LeakInv'
  <2>1. CASE Ends(t) /\ UNCHANGED << http, native, raced >>
    BY <1>3, <2>1, SMT DEF CreatesHttp, Ends, Goes
  <2>2. ASSUME NEW n \in Natives, Creates(n, << >>, http), http' = n
        PROVE  LeakInv'
    <3>1. UNCHANGED << https, closed >>
      BY <1>3 DEF CreatesHttp
    <3> QED
      BY <2>2, <3>1, CreatesIs, SMT
  <2> QED
    BY <1>3, <2>1, <2>2, Zenon DEF CreatesHttp
<1>4. ASSUME NEW t \in Threads, TakesHttp(t) PROVE LeakInv'
  BY <1>4, SMT DEF TakesHttp, Goes, attributes
<1>5. ASSUME NEW t \in Threads, TestsHttps(t) PROVE LeakInv'
  BY <1>5, SMT DEF TestsHttps, Goes, Forget, attributes
<1>6. ASSUME NEW t \in Threads, ReadsPolicy(t) PROVE LeakInv'
  BY <1>6, SMT DEF ReadsPolicy, Goes, Ends, attributes
<1>7. ASSUME NEW t \in Threads, CreatesHttps(t) PROVE LeakInv'
  <2> PICK n \in Natives : Creates(n, call[t].policy.anchors, https) /\ https' = n
    BY <1>7, Zenon DEF CreatesHttps
  <2>1. UNCHANGED << http, closed >>
    BY <1>7 DEF CreatesHttps
  <2> QED
    BY <2>1, CreatesIs, SMT
<1>8. ASSUME NEW t \in Threads, SetsPolicy(t) PROVE LeakInv'
  <2>1. UNCHANGED << http, https, closed, native, interrupts, raced, closing >>
    BY <1>8 DEF SetsPolicy
  <2>2. pc[t] = "setPolicy" /\ pc' = [pc EXCEPT ![t] = "takeHttps"]
    BY <1>8 DEF SetsPolicy, Goes
  <2> QED
    BY <2>1, <2>2, SMT
<1>9. ASSUME NEW t \in Threads, TakesHttps(t) PROVE LeakInv'
  BY <1>9, SMT DEF TakesHttps, Goes, attributes
<1>10. ASSUME NEW t \in Threads, TakesPolicy(t) PROVE LeakInv'
  BY <1>10, SMT DEF TakesPolicy, Goes, attributes
<1>11. ASSUME NEW t \in Threads, Verifies(t) PROVE LeakInv'
  BY <1>11, SMT DEF Verifies, Goes, Ends, Resolves, attributes
<1>12. ASSUME NEW t \in Threads, Sends(t) PROVE LeakInv'
  BY <1>12, SMT DEF Sends, Goes, Ends, attributes
<1>13. ASSUME NEW t \in Threads, Receives(t) PROVE LeakInv'
  BY <1>13, SMT DEF Receives, Ends, attributes, Goes
<1>14. ASSUME NEW t \in Threads, CloseBegins(t) PROVE LeakInv'
  <2>1. /\ pc[t] = "idle"
        /\ UNCHANGED << http, https, native, interrupts, raced, closing >>
    BY <1>14 DEF CloseBegins
  <2>2. \/ ~closed /\ pc' = [pc EXCEPT ![t] = "closeList"]
        \/ closed' = closed /\ pc' = [pc EXCEPT ![t] = "idle"]
    BY <1>14, Zenon DEF CloseBegins, Goes, Ends
  <2>3. \A n \in Natives, u \in Threads : Lists(u, n) => Lists(u, n)'
    BY <2>1
  <2> HIDE DEF Lists
  <2>4. CASE pc' = [pc EXCEPT ![t] = "closeList"]
    <3>1. pc'[t] = "closeList"
      BY <2>4
    <3> QED
      BY <2>1, <3>1, Zenon
  <2>5. CASE closed' = closed /\ pc' = [pc EXCEPT ![t] = "idle"]
    <3>1. \A u \in Threads : pc[u] \in {"closeList", "close"} => pc'[u] = pc[u]
      BY <2>1, <2>5
    <3> QED
      BY <2>1, <2>3, <2>5, <3>1, SMT
  <2> QED
    BY <2>2, <2>4, <2>5
<1>15. ASSUME NEW t \in Threads, CloseLists(t) PROVE LeakInv'
  <2>1. /\ pc[t] = "closeList"
        /\ UNCHANGED << http, https, closed, native, interrupts, raced >>
        /\ pc' = [pc EXCEPT ![t] = "close"] /\ closing' = [closing EXCEPT ![t] = Opened]
    BY <1>15, Zenon DEF CloseLists, Goes, attributes
  <2>2. closing'[t] = Opened /\ pc'[t] = "close"
    BY <2>1, SMT
  <2>3. \A n \in Natives : native[n].at = "open" /\ ~raced => Lists(t, n)'
    BY <2>2, OpenedIs, SMT
  <2> QED
    BY <2>1, <2>2, <2>3, SMT
<1>16. ASSUME NEW t \in Threads, CloseSteps(t) PROVE LeakInv'
  <2>1. CASE closing[t] = << >>
    <3>1. /\ UNCHANGED << http, https, closed, raced, interrupts, native, closing >>
          /\ pc[t] = "close" /\ pc'[t] = "idle"
          /\ \A u \in Threads \ {t} : pc'[u] = pc[u]
      BY <1>16, <2>1, CloseStepsIs, ZenonT(40)
    <3>2. \A n \in Natives : ~Lists(t, n)
      BY <2>1, SMT
    <3>3. \A u \in Threads, n \in Natives : Lists(u, n) => Lists(u, n)'
      BY <3>1, SMT
    <3> HIDE DEF Lists
    <3>4. ASSUME ~raced, closed, interrupts = 0,
                 NEW u \in Threads, pc[u] = "closeList" \/
                   (/\ pc[u] = "close"
                    /\ \A n \in Natives : native[n].at = "open" => Lists(u, n))
          PROVE  \/ \A n \in Natives : native'[n].at # "open"
                 \/ \E v \in Threads :
                      \/ pc'[v] = "closeList"
                      \/ /\ pc'[v] = "close"
                         /\ \A n \in Natives : native'[n].at = "open" => Lists(v, n)'
      <4>1. CASE u = t
        BY <3>1, <3>2, <3>4, <4>1, Zenon
      <4>2. CASE u # t
        BY <3>1, <3>3, <3>4, <4>2, Zenon
      <4> QED
        BY <4>1, <4>2
    <3> QED
      BY <3>1, <3>4, Zenon
  <2>2. CASE closing[t] # << >>
    <3>1. ~raced => \A n \in Natives : native'[n].at = "open" => n \in {http', https'}
      BY <1>16, CloseStepsIs, SMT
    <3>2. \A n \in Natives : native'[n].at = "open" /\ Lists(t, n) => Lists(t, n)'
      <4> SUFFICES ASSUME NEW n \in Natives, native'[n].at = "open", Lists(t, n)
                   PROVE  Lists(t, n)'
        OBVIOUS
      <4>1. closing'[t] = Tail(closing[t]) /\ native'[Head(closing[t])].at = "closed"
        BY <1>16, <2>2, CloseStepsIs, Zenon
      <4>2. PICK i \in 1 .. Len(closing[t]) : closing[t][i] = n
        OBVIOUS
      <4>3. i # 1
        BY <4>1, <4>2, SMT
      <4>4. i - 1 \in 1 .. Len(closing'[t]) /\ closing'[t][i - 1] = n
        BY <4>1, <4>2, <4>3, SMT
      <4> QED
        BY <4>4, Zenon
    <3>3. UNCHANGED << pc, raced, closed, interrupts >>
      BY <1>16, <2>2, CloseStepsIs, Zenon
    <3>4. \A u \in Threads, n \in Natives :
            native'[n].at = "open" /\ Lists(u, n) => Lists(u, n)'
      <4>1. \A u \in Threads \ {t} : closing'[u] = closing[u]
        BY <1>16, CloseStepsIs, ZenonT(40)
      <4>2. \A u \in Threads \ {t}, n \in Natives : Lists(u, n) => Lists(u, n)'
        BY <4>1, SMT
      <4> HIDE DEF Lists
      <4> QED
        BY <3>2, <4>2, SMT
    <3>5. \A n \in Natives : native'[n].at = "open" => native[n].at = "open"
      BY <1>16, CloseStepsIs, SMT
    <3> HIDE DEF Lists
    <3> QED
      BY <3>1, <3>3, <3>4, <3>5, SMT
  <2> QED
    BY <2>1, <2>2
<1>17. ASSUME NEW t \in Threads, Interrupted(t) PROVE LeakInv'
  BY <1>17, SMT DEF Interrupted, Ends, attributes, Goes
<1>18. CASE BundleChanges
  BY <1>18, SMT DEF BundleChanges, attributes
<1>19. CASE UNCHANGED vars
  BY <1>19, SMT DEF vars, attributes
<1> QED
  BY <1>1, <1>2, <1>3, <1>4, <1>5, <1>6, <1>7, <1>8, <1>9, <1>10, <1>11, <1>12,
     <1>13, <1>14, <1>15, <1>16, <1>17, <1>18, <1>19 DEF Next

-----------------------------------------------------------------------------
(* VerifiedAsAgreed.  While no native session was created over another, the *)
(* policy of the session is the one its worker was given, and a call that   *)
(* holds the worker holds that policy or none.                              *)

Born(n) == n \in Natives /\ native[n].at # "unborn"
MadeFor(n, p) == p.insecure \/ native[n].anchors = p.anchors

AgreedCall(t) ==
  /\ pc[t] \in {"http", "createHttp", "takeHttp"} => call[t].policy = NoPolicy
  /\ pc[t] = "takeHttp" => http # None
  /\ pc[t] \in {"setPolicy", "takeHttps", "takePolicy", "verify"} => https # None
  /\ pc[t] = "setPolicy" => native[https].anchors = call[t].policy.anchors
  /\ pc[t] \in {"takePolicy", "verify"} => call[t].native = https
  /\ pc[t] = "verify" /\ call[t].policy # NoPolicy =>
       native[https].anchors = call[t].policy.anchors
  /\ pc[t] \in {"send", "await"} => /\ Born(call[t].native)
                                    /\ MadeFor(call[t].native, call[t].policy)

AgreedSession ==
  /\ http # None => Born(http) /\ native[http].anchors = << >>
  /\ https # None => Born(https)
  /\ policy # NoPolicy => https # None /\ native[https].anchors = policy.anchors

AgreedInv == ~raced => AgreedSession /\ \A t \in Threads : AgreedCall(t)

LEMMA NoPolicyIs == NoPolicy.anchors = << >>
  BY Zenon DEF NoPolicy, Policy

LEMMA AgreedKept ==
  Shapes /\ InsecureInv /\ SlotsInv /\ AgreedInv /\ [Next]_vars => AgreedInv'
<1> SUFFICES ASSUME Shapes, InsecureInv, SlotsInv, AgreedInv, [Next]_vars
             PROVE  AgreedInv'
  OBVIOUS
<1> USE SessionAssumption DEF Shapes, SlotsInv, AgreedInv, AgreedSession, AgreedCall,
   Born, MadeFor
<1>1. ASSUME NEW t \in Threads, RequestBegins(t) PROVE AgreedInv'
  <2>1. Beginning(t)
    BY <1>1, Begun
  <2>2. CASE Ends(t)
    BY <2>1, <2>2, NoCallIs, SMT DEF Beginning, Goes, Ends
  <2>3. ASSUME NEW a \in Arguments(t, calls[t] + 1), NEW scheme \in {"http", "https"},
               NEW q, Given(t, a, scheme, q)
        PROVE  AgreedInv'
    <3> DEFINE begun == [NoCall EXCEPT !.verify = a.verify, !.normalized = q]
    <3>1. begun.policy = NoPolicy /\ begun.native = None
      BY BegunIs
    <3>2. call' = [call EXCEPT ![t] = begun] /\ Goes(t, scheme)
      BY <2>3, Zenon DEF Given
    <3> HIDE DEF begun
    <3> QED
      BY <2>1, <3>1, <3>2, SMT DEF Beginning, Goes
  <2> QED
    BY <2>1, <2>2, <2>3, Zenon DEF Beginning
<1>2. ASSUME NEW t \in Threads, TestsHttp(t) PROVE AgreedInv'
  BY <1>2, NoCallIs, NoPolicyIs, SMT DEF TestsHttp, Goes, Forget, attributes
<1>3. ASSUME NEW t \in Threads, CreatesHttp(t) PROVE AgreedInv'
  <2>1. CASE Ends(t) /\ UNCHANGED << http, native, raced >>
    BY <1>3, <2>1, NoCallIs, SMT DEF CreatesHttp, Ends, Goes
  <2>2. ASSUME NEW n \in Natives, Creates(n, << >>, http), http' = n, Goes(t, "takeHttp"),
               UNCHANGED call
        PROVE  AgreedInv'
    <3> SUFFICES ASSUME ~raced' PROVE AgreedInv'
      OBVIOUS
    <3>1. UNCHANGED << https, closed, policy >> /\ pc[t] = "createHttp"
      BY <1>3 DEF CreatesHttp
    <3>2. /\ ~raced /\ http = None /\ native[n].at = "unborn"
          /\ native'[n].at = "open" /\ native'[n].anchors = << >>
          /\ \A m \in Natives \ {n} : native'[m] = native[m]
      <4> HIDE DEF Shapes, SlotsInv, AgreedInv
      <4> QED
        BY <2>2, CreatesIs, SMT
    <3>3. AgreedSession'
      <4>1. http' # None => Born(http)' /\ native'[http'].anchors = << >>
        BY <2>2, <3>2, SMT
      <4>2. https' # None => Born(https)'
        BY <2>2, <3>1, <3>2, SMT
      <4>3. policy' # NoPolicy =>
              https' # None /\ native'[https'].anchors = policy'.anchors
        BY <2>2, <3>1, <3>2, SMT
      <4> QED
        BY <4>1, <4>2, <4>3
    <3>4. AgreedCall(t)'
      BY <2>2, <3>1, <3>2, SMT DEF Goes
    <3>5. ASSUME NEW u \in Threads \ {t} PROVE AgreedCall(u)'
      <4>1. pc'[u] = pc[u] /\ call'[u] = call[u]
        BY <2>2, SMT DEF Goes
      <4>2. AgreedCall(u) /\ AgreedSession
        BY <3>2
      <4>3. pc[u] # "takeHttp"
        BY <3>2, <4>2
      <4>4. \A m : Born(m) => m # n /\ Born(m)' /\ native'[m] = native[m]
        BY <3>2, SMT
      <4> HIDE DEF Born, Shapes, SlotsInv, AgreedInv
      <4> QED
        BY <2>2, <3>1, <4>1, <4>2, <4>3, <4>4, SMT
    <3> QED
      BY <3>3, <3>4, <3>5
  <2> QED
    BY <1>3, <2>1, <2>2, Zenon DEF CreatesHttp
<1>4. ASSUME NEW t \in Threads, TakesHttp(t) PROVE AgreedInv'
  BY <1>4, NoCallIs, NoPolicyIs, SMT DEF TakesHttp, Goes, attributes
<1>5. ASSUME NEW t \in Threads, TestsHttps(t) PROVE AgreedInv'
  BY <1>5, NoCallIs, NoPolicyIs, SMT DEF TestsHttps, Goes, Forget, attributes
<1>6. ASSUME NEW t \in Threads, ReadsPolicy(t) PROVE AgreedInv'
  <2> DEFINE read == IF verifyInput = "off" THEN Insecure ELSE Read
  <2>1. \/ Ends(t)
        \/ Goes(t, "createHttps") /\ call' = [call EXCEPT ![t].policy = read]
    BY <1>6, Zenon DEF ReadsPolicy
  <2>2. pc[t] = "readPolicy" /\ UNCHANGED << http, https, policy, native, raced >>
    BY <1>6 DEF ReadsPolicy, attributes
  <2> HIDE DEF read
  <2> QED
    BY <2>1, <2>2, SMT DEF Ends, Goes
<1>7. ASSUME NEW t \in Threads, CreatesHttps(t) PROVE AgreedInv'
  <2> PICK n \in Natives : Creates(n, call[t].policy.anchors, https) /\ https' = n
    BY <1>7, Zenon DEF CreatesHttps
  <2> SUFFICES ASSUME ~raced' PROVE AgreedInv'
    OBVIOUS
  <2>1. /\ UNCHANGED << http, closed, policy, call >>
        /\ pc[t] = "createHttps" /\ Goes(t, "setPolicy")
    BY <1>7 DEF CreatesHttps
  <2>2. /\ ~raced /\ https = None /\ native[n].at = "unborn"
        /\ native'[n].at = "open" /\ native'[n].anchors = call[t].policy.anchors
        /\ \A m \in Natives \ {n} : native'[m] = native[m]
    <3> HIDE DEF Shapes, SlotsInv, AgreedInv
    <3> QED
      BY CreatesIs, SMT
  <2>3. AgreedSession'
    BY <2>1, <2>2, SMT
  <2>4. AgreedCall(t)'
    BY <2>1, <2>2, SMT DEF Goes
  <2>5. \A u \in Threads \ {t} : AgreedCall(u)'
    BY <2>1, <2>2, SMT DEF Goes
  <2> QED
    BY <2>3, <2>4, <2>5
<1>8. ASSUME NEW t \in Threads, SetsPolicy(t) PROVE AgreedInv'
  BY <1>8, NoCallIs, NoPolicyIs, SMT DEF SetsPolicy, Goes
<1>9. ASSUME NEW t \in Threads, TakesHttps(t) PROVE AgreedInv'
  BY <1>9, NoCallIs, NoPolicyIs, SMT DEF TakesHttps, Goes, attributes
<1>10. ASSUME NEW t \in Threads, TakesPolicy(t) PROVE AgreedInv'
  BY <1>10, NoCallIs, NoPolicyIs, SMT DEF TakesPolicy, Goes, attributes
<1>11. ASSUME NEW t \in Threads, Verifies(t) PROVE AgreedInv'
  <2> DEFINE resolved == Resolves(call[t].verify, call[t].policy)
  <2>1. resolved # NoPolicy => resolved.insecure \/ resolved = call[t].policy
    <3>1. call[t].verify \in {"none", "off", "bundle"}
      BY DEF InsecureInv
    <3> QED
      BY <3>1, Policies, SMT DEF Resolves
  <2>2. \/ Ends(t)
        \/ /\ resolved # NoPolicy /\ Goes(t, "send")
           /\ call' = [call EXCEPT ![t].policy = resolved]
    BY <1>11, Zenon DEF Verifies
  <2>3. pc[t] = "verify" /\ UNCHANGED << http, https, policy, native, raced >>
    BY <1>11 DEF Verifies, attributes
  <2> HIDE DEF resolved
  <2>4. ~raced => AgreedCall(t)'
    <3>1. CASE Ends(t)
      BY <2>3, <3>1, SMT DEF Ends, Goes
    <3>2. CASE /\ resolved # NoPolicy /\ Goes(t, "send")
               /\ call' = [call EXCEPT ![t].policy = resolved]
      <4>1. /\ pc'[t] = "send" /\ call'[t].policy = resolved
            /\ call'[t].native = call[t].native
        BY <3>2, SMT DEF Goes
      <4> QED
        BY <2>1, <2>3, <3>2, <4>1, SMT
    <3> QED
      BY <2>2, <3>1, <3>2
  <2>5. ~raced => \A u \in Threads \ {t} : AgreedCall(u)'
    BY <2>2, <2>3, SMT DEF Ends, Goes
  <2>6. ~raced => AgreedSession'
    BY <2>3
  <2> QED
    BY <2>3, <2>4, <2>5, <2>6
<1>12. ASSUME NEW t \in Threads, Sends(t) PROVE AgreedInv'
  <2>1. UNCHANGED << http, https, policy, native, raced >> /\ pc[t] = "send"
    BY <1>12 DEF Sends, attributes
  <2>2. Ends(t) \/ (Goes(t, "await") /\ UNCHANGED call)
    BY <1>12, Zenon DEF Sends
  <2>3. ~raced => AgreedCall(t)'
    BY <2>1, <2>2, SMT DEF Ends, Goes
  <2>4. ~raced => \A u \in Threads \ {t} : AgreedCall(u)'
    BY <2>1, <2>2, SMT DEF Ends, Goes
  <2>5. ~raced => AgreedSession'
    BY <2>1
  <2> QED
    BY <2>1, <2>3, <2>4, <2>5
<1>13. ASSUME NEW t \in Threads, Receives(t) PROVE AgreedInv'
  BY <1>13, NoCallIs, NoPolicyIs, SMT DEF Receives, Ends, attributes, Goes
<1>14. ASSUME NEW t \in Threads, CloseBegins(t) PROVE AgreedInv'
  BY <1>14, NoCallIs, NoPolicyIs, SMT DEF CloseBegins, Goes, Ends
<1>15. ASSUME NEW t \in Threads, CloseLists(t) PROVE AgreedInv'
  BY <1>15, NoCallIs, NoPolicyIs, SMT DEF CloseLists, Goes, Opened, attributes
<1>16. ASSUME NEW t \in Threads, CloseSteps(t) PROVE AgreedInv'
  <2>1. CASE closing[t] = << >>
    BY <1>16, <2>1, CloseStepsIs, SMT
  <2>2. CASE closing[t] # << >>
    <3>1. UNCHANGED << pc, call, http, https, policy, raced >>
      BY <1>16, <2>2, CloseStepsIs, Zenon
    <3>2. \A n \in Natives : /\ native'[n].anchors = native[n].anchors
                             /\ native[n].at # "unborn" => native'[n].at # "unborn"
      BY <1>16, CloseStepsIs, SMT
    <3> QED
      BY <3>1, <3>2, SMT
  <2> QED
    BY <2>1, <2>2
<1>17. ASSUME NEW t \in Threads, Interrupted(t) PROVE AgreedInv'
  BY <1>17, NoCallIs, NoPolicyIs, SMT DEF Interrupted, Ends, attributes, Goes
<1>18. CASE BundleChanges
  BY <1>18, NoCallIs, NoPolicyIs, SMT DEF BundleChanges, attributes
<1>19. CASE UNCHANGED vars
  BY <1>19, NoCallIs, NoPolicyIs, SMT DEF vars, attributes
<1> QED
  BY <1>1, <1>2, <1>3, <1>4, <1>5, <1>6, <1>7, <1>8, <1>9, <1>10, <1>11, <1>12,
     <1>13, <1>14, <1>15, <1>16, <1>17, <1>18, <1>19 DEF Next

-----------------------------------------------------------------------------
(* OneMessage.  What the serializer adds to the headers of a request.       *)

HeaderLists == Seq([name : Names, value : Values])

\* At most one header has the name: any two that have it are the same one.
LEMMA OnlyOne ==
  ASSUME NEW headers \in HeaderLists, NEW name, Occurrences(headers, name) <= 1,
         NEW i \in DOMAIN headers, NEW j \in DOMAIN headers,
         headers[i].name = name, headers[j].name = name
  PROVE  i = j
<1> DEFINE found == {k \in DOMAIN headers : headers[k].name = name}
<1>1. DOMAIN headers = 1 .. Len(headers) /\ Len(headers) \in Nat
  BY SMT DEF HeaderLists
<1>2. IsFiniteSet(1 .. Len(headers))
  BY <1>1, FS_Interval, SMT
<1>3. IsFiniteSet(found)
  BY <1>1, <1>2, FS_Subset
<1>4. IsFiniteSet({i}) /\ Cardinality({i}) = 1
  BY FS_Singleton
<1>5. {i} \in SUBSET found
  OBVIOUS
<1>6. 1 <= Cardinality(found) /\ (Cardinality(found) = 1 => {i} = found)
  BY <1>3, <1>4, <1>5, FS_Subset
<1>7. Cardinality(found) <= 1 /\ Cardinality(found) \in Nat
  BY <1>3, FS_CardinalityType, Zenon DEF Occurrences
<1>8. Cardinality(found) = 1
  BY <1>6, <1>7, SMT
<1>9. j \in found
  OBVIOUS
<1> QED
  BY <1>6, <1>8, <1>9

\* One header and no other has the name.
LEMMA ExactlyOne ==
  ASSUME NEW headers, NEW name, NEW i \in DOMAIN headers, headers[i].name = name,
         \A j \in DOMAIN headers : headers[j].name = name => j = i
  PROVE  /\ Occurrences(headers, name) = 1
         /\ ValueOf(headers, name) = headers[i].value
<1>1. {j \in DOMAIN headers : headers[j].name = name} = {i}
  OBVIOUS
<1>2. Occurrences(headers, name) = 1
  BY <1>1, FS_Singleton, Zenon DEF Occurrences
<1>3. (CHOOSE j \in DOMAIN headers : headers[j].name = name) = i
  OBVIOUS
<1> QED
  BY <1>2, <1>3, Zenon DEF ValueOf

LEMMA NoneAtAll ==
  ASSUME NEW headers, NEW name, ~Carries(headers, name)
  PROVE  Occurrences(headers, name) = 0
<1>1. {j \in DOMAIN headers : headers[j].name = name} = {}
  BY DEF Carries
<1> QED
  BY <1>1, FS_EmptySet, Zenon DEF Occurrences

\* How a sequence between two others is found in the whole.
LEMMA Between ==
  ASSUME NEW S, NEW a \in Seq(S), NEW b \in Seq(S), NEW c \in Seq(S)
  PROVE  /\ DOMAIN (a \o b \o c) = 1 .. (Len(a) + Len(b) + Len(c))
         /\ \A i \in 1 .. Len(a) : (a \o b \o c)[i] = a[i]
         /\ \A i \in 1 .. Len(b) : (a \o b \o c)[Len(a) + i] = b[i]
         /\ \A i \in 1 .. Len(c) : (a \o b \o c)[Len(a) + Len(b) + i] = c[i]
  BY SMT

InFront(headers) ==
  IF Carries(headers, "host") THEN << >> ELSE << Header("host", "plain") >>
AtTheEnd(headers, length) ==
  IF length = 0 \/ Carries(headers, "content-length") THEN << >>
  ELSE << Header("content-length", "2") >>

\* Where a header on the wire comes from, and where the caller's headers go.
LEMMA WireIs ==
  ASSUME NEW headers \in HeaderLists, NEW length
  PROVE  LET wire == Completed(headers, length)
             k == Len(InFront(headers))
         IN  /\ \A i \in DOMAIN headers : k + i \in DOMAIN wire /\ wire[k + i] = headers[i]
             /\ k = IF Carries(headers, "host") THEN 0 ELSE 1
             /\ k = 1 => 1 \in DOMAIN wire /\ wire[1] = Header("host", "plain")
             /\ AtTheEnd(headers, length) # << >> =>
                  LET last == k + Len(headers) + 1
                  IN  last \in DOMAIN wire /\ wire[last] = Header("content-length", "2")
             /\ \A i \in DOMAIN wire :
                  \/ k = 1 /\ i = 1
                  \/ \E j \in DOMAIN headers : i = k + j
                  \/ AtTheEnd(headers, length) # << >> /\ i = k + Len(headers) + 1
<1> DEFINE H == [name : Names, value : Values]
           front == InFront(headers)
           end   == AtTheEnd(headers, length)
           wire  == Completed(headers, length)
<1>1. Header("host", "plain") \in H /\ Header("content-length", "2") \in H
  BY SMT DEF Header, Names, Values
<1>2. /\ front \in Seq(H) /\ Len(front) = IF Carries(headers, "host") THEN 0 ELSE 1
      /\ Len(front) = 1 => front[1] = Header("host", "plain")
  <2> HIDE DEF H
  <2> QED
    BY <1>1, SMT DEF InFront
<1>3. /\ end \in Seq(H) /\ Len(end) = IF end = << >> THEN 0 ELSE 1
      /\ end # << >> => end[1] = Header("content-length", "2")
  <2> HIDE DEF H
  <2> QED
    BY <1>1, SMT DEF AtTheEnd
<1>4. wire = front \o headers \o end
  BY Zenon DEF Completed, InFront, AtTheEnd
<1>5. headers \in Seq(H) /\ DOMAIN headers = 1 .. Len(headers) /\ Len(headers) \in Nat
  BY SMT DEF HeaderLists
<1> HIDE DEF H, front, end, wire
<1>6. /\ DOMAIN wire = 1 .. (Len(front) + Len(headers) + Len(end))
      /\ \A i \in 1 .. Len(front) : wire[i] = front[i]
      /\ \A i \in 1 .. Len(headers) : wire[Len(front) + i] = headers[i]
      /\ \A i \in 1 .. Len(end) : wire[Len(front) + Len(headers) + i] = end[i]
  <2>1. front \in Seq(H) /\ headers \in Seq(H) /\ end \in Seq(H)
    BY <1>2, <1>3, <1>5
  <2> DEFINE s == front \o headers \o end
  <2>2. /\ DOMAIN s = 1 .. (Len(front) + Len(headers) + Len(end))
        /\ \A i \in 1 .. Len(front) : s[i] = front[i]
        /\ \A i \in 1 .. Len(headers) : s[Len(front) + i] = headers[i]
        /\ \A i \in 1 .. Len(end) : s[Len(front) + Len(headers) + i] = end[i]
    BY <2>1, Between, SMT
  <2> HIDE DEF s
  <2>3. wire = s
    BY <1>4 DEF s
  <2> QED
    BY <2>2, <2>3, Zenon
<1>60. /\ Len(front) = 0 \/ Len(front) = 1
       /\ Len(end) = 0 \/ Len(end) = 1
       /\ end # << >> => Len(end) = 1 /\ end[1] = Header("content-length", "2")
       /\ Len(front) = (IF Carries(headers, "host") THEN 0 ELSE 1)
  BY <1>2, <1>3, Zenon
<1>7. /\ Len(front) = (IF Carries(headers, "host") THEN 0 ELSE 1)
      /\ Len(front) \in {0, 1} /\ Len(end) \in {0, 1}
      /\ \A i \in DOMAIN headers : /\ Len(front) + i \in DOMAIN wire
                                   /\ wire[Len(front) + i] = headers[i]
      /\ Len(front) = 1 => 1 \in DOMAIN wire /\ wire[1] = Header("host", "plain")
      /\ end # << >> =>
           /\ Len(front) + Len(headers) + 1 \in DOMAIN wire
           /\ wire[Len(front) + Len(headers) + 1] = Header("content-length", "2")
  <2>1. end # << >> =>
          /\ Len(front) + Len(headers) + 1 \in DOMAIN wire
          /\ wire[Len(front) + Len(headers) + 1] = Header("content-length", "2")
    BY <1>5, <1>6, <1>60, SMT
  <2>2. \A i \in DOMAIN headers : /\ Len(front) + i \in DOMAIN wire
                                  /\ wire[Len(front) + i] = headers[i]
    BY <1>5, <1>6, <1>60, SMT
  <2>3. Len(front) = 1 => 1 \in DOMAIN wire /\ wire[1] = Header("host", "plain")
    <3> SUFFICES ASSUME Len(front) = 1
                 PROVE  1 \in DOMAIN wire /\ wire[1] = Header("host", "plain")
      OBVIOUS
    <3>1. 1 \in 1 .. Len(front)
      BY SMT
    <3>2. DOMAIN wire = 1 .. (1 + Len(headers) + Len(end))
      BY <1>6
    <3>3. 1 \in DOMAIN wire
      BY <1>5, <1>60, <3>2, SMT
    <3> QED
      BY <1>2, <1>6, <3>1, <3>3, Zenon
  <2> QED
    BY <1>60, <2>1, <2>2, <2>3, Zenon
<1>8. ASSUME NEW i \in DOMAIN wire
      PROVE  \/ Len(front) = 1 /\ i = 1
             \/ \E j \in DOMAIN headers : i = Len(front) + j
             \/ end # << >> /\ i = Len(front) + Len(headers) + 1
  <2>1. CASE i <= Len(front)
    BY <1>5, <1>6, <1>7, <2>1, SMT
  <2>2. CASE Len(front) < i /\ i <= Len(front) + Len(headers)
    <3>1. i - Len(front) \in DOMAIN headers /\ i = Len(front) + (i - Len(front))
      BY <1>5, <1>6, <1>7, <2>2, SMT
    <3> QED
      BY <3>1, Zenon
  <2>3. CASE i > Len(front) + Len(headers)
    <3>1. Len(end) = 1 /\ end # << >>
      <4>1. Len(end) # 0
        BY <1>5, <1>6, <1>7, <2>3, SMT
      <4>2. Len(end) = 1
        BY <1>60, <4>1
      <4> QED
        BY <1>3, <4>2
    <3> QED
      BY <1>5, <1>6, <1>7, <2>3, <3>1, SMT
  <2> QED
    BY <1>5, <1>6, <1>7, <2>1, <2>2, <2>3, SMT
<1> QED
  BY <1>7, <1>8, Zenon DEF front, end, wire

\* A typed request that the serializer accepts is one message.
LEMMA SerializedIsOne ==
  ASSUME NEW q, q.headers \in HeaderLists, q.length \in {0, 2}, Serializes(q)
  PROVE  LET wire == Completed(q.headers, q.length)
         IN  /\ Occurrences(wire, "host") = 1
             /\ ~Carries(wire, "transfer-encoding")
             /\ Occurrences(wire, "content-length") <= 1
             /\ IF Carries(wire, "content-length")
                  THEN Digits[ValueOf(wire, "content-length")] = q.length
                  ELSE q.length = 0
<1> DEFINE headers == q.headers
           wire    == Completed(headers, q.length)
           k       == Len(InFront(headers))
           last    == k + Len(headers) + 1
<1>1. /\ \A i \in DOMAIN headers : k + i \in DOMAIN wire /\ wire[k + i] = headers[i]
      /\ k = IF Carries(headers, "host") THEN 0 ELSE 1
      /\ k = 1 => 1 \in DOMAIN wire /\ wire[1] = Header("host", "plain")
      /\ AtTheEnd(headers, q.length) # << >> =>
           last \in DOMAIN wire /\ wire[last] = Header("content-length", "2")
      /\ \A i \in DOMAIN wire :
           \/ k = 1 /\ i = 1
           \/ \E j \in DOMAIN headers : i = k + j
           \/ AtTheEnd(headers, q.length) # << >> /\ i = last
  BY WireIs, Zenon
<1>2. /\ Header("host", "plain").name = "host"
      /\ Header("content-length", "2").name = "content-length"
      /\ Header("content-length", "2").value = "2" /\ Digits["2"] = 2
  BY SMT DEF Header, Digits
<1>3. AtTheEnd(headers, q.length) # << >> <=>
        q.length # 0 /\ ~Carries(headers, "content-length")
  <2>1. << Header("content-length", "2") >> # << >>
    BY SMT
  <2> QED
    BY <2>1, Zenon DEF AtTheEnd
<1>4. /\ Occurrences(headers, "host") <= 1 /\ Occurrences(headers, "content-length") <= 1
      /\ ~Carries(headers, "transfer-encoding")
      /\ Carries(headers, "content-length") =>
           Digits[ValueOf(headers, "content-length")] = q.length
  BY Zenon DEF Serializes, FramingAccepted
<1>5. headers \in HeaderLists
  OBVIOUS
<1> HIDE DEF headers, wire, k, last
<1>6. Occurrences(wire, "host") = 1
  <2>1. CASE Carries(headers, "host")
    <3>1. PICK j \in DOMAIN headers : headers[j].name = "host"
      BY <2>1 DEF Carries
    <3>2. k = 0 /\ k + j \in DOMAIN wire /\ wire[k + j].name = "host"
      BY <1>1, <2>1, <3>1
    <3>3. ASSUME NEW i \in DOMAIN wire, wire[i].name = "host" PROVE i = k + j
      <4>1. CASE AtTheEnd(headers, q.length) # << >> /\ i = last
        BY <1>1, <1>2, <3>3, <4>1
      <4>2. ASSUME NEW m \in DOMAIN headers, i = k + m PROVE i = k + j
        BY <1>1, <1>4, <1>5, <3>1, <3>3, <4>2, OnlyOne
      <4> QED
        BY <1>1, <3>2, <4>1, <4>2
    <3> QED
      BY <3>2, <3>3, ExactlyOne
  <2>2. CASE ~Carries(headers, "host")
    <3>1. k = 1 /\ 1 \in DOMAIN wire /\ wire[1].name = "host"
      BY <1>1, <1>2, <2>2
    <3>2. ASSUME NEW i \in DOMAIN wire, wire[i].name = "host" PROVE i = 1
      <4>1. CASE AtTheEnd(headers, q.length) # << >> /\ i = last
        BY <1>1, <1>2, <3>2, <4>1
      <4>2. ASSUME NEW m \in DOMAIN headers, i = k + m PROVE FALSE
        <5>1. headers[m].name = "host"
          BY <1>1, <3>2, <4>2
        <5> QED
          BY <2>2, <5>1 DEF Carries
      <4> QED
        BY <1>1, <4>1, <4>2
    <3> QED
      BY <3>1, <3>2, ExactlyOne
  <2> QED
    BY <2>1, <2>2
<1>7. ~Carries(wire, "transfer-encoding")
  <2> SUFFICES ASSUME NEW i \in DOMAIN wire, wire[i].name = "transfer-encoding"
               PROVE  FALSE
    BY DEF Carries
  <2>1. CASE k = 1 /\ i = 1
    BY <1>1, <1>2, <2>1
  <2>2. CASE AtTheEnd(headers, q.length) # << >> /\ i = last
    BY <1>1, <1>2, <2>2
  <2>3. ASSUME NEW m \in DOMAIN headers, i = k + m PROVE FALSE
    <3>1. headers[m].name = "transfer-encoding"
      BY <1>1, <2>3
    <3> QED
      BY <1>4, <3>1 DEF Carries
  <2> QED
    BY <1>1, <2>1, <2>2, <2>3
<1>8. CASE Carries(headers, "content-length")
  <2>1. PICK j \in DOMAIN headers : headers[j].name = "content-length"
    BY <1>8 DEF Carries
  <2>2. /\ k + j \in DOMAIN wire /\ wire[k + j].name = "content-length"
        /\ wire[k + j].value = headers[j].value
    BY <1>1, <2>1
  <2>3. ASSUME NEW i \in DOMAIN wire, wire[i].name = "content-length" PROVE i = k + j
    <3>1. CASE k = 1 /\ i = 1
      BY <1>1, <1>2, <2>3, <3>1
    <3>2. ASSUME NEW m \in DOMAIN headers, i = k + m PROVE i = k + j
      BY <1>1, <1>4, <1>5, <2>1, <2>3, <3>2, OnlyOne
    <3> QED
      BY <1>1, <1>3, <1>8, <3>1, <3>2
  <2>4. /\ Occurrences(wire, "content-length") = 1
        /\ ValueOf(wire, "content-length") = headers[j].value
    BY <2>2, <2>3, ExactlyOne
  <2>5. \A m \in DOMAIN headers : headers[m].name = "content-length" => m = j
    BY <1>4, <1>5, <2>1, OnlyOne
  <2>6. ValueOf(headers, "content-length") = headers[j].value
    BY <2>1, <2>5, ExactlyOne
  <2>7. Digits[ValueOf(wire, "content-length")] = q.length
    BY <1>4, <1>8, <2>4, <2>6
  <2>8. Carries(wire, "content-length")
    BY <2>2 DEF Carries
  <2>9. Occurrences(wire, "content-length") <= 1
    BY <2>4, SMT
  <2> QED
    BY <1>6, <1>7, <2>7, <2>8, <2>9 DEF wire, headers
<1>9. CASE ~Carries(headers, "content-length") /\ q.length # 0
  <2>1. last \in DOMAIN wire /\ wire[last].name = "content-length" /\ wire[last].value = "2"
    BY <1>1, <1>2, <1>3, <1>9
  <2>2. ASSUME NEW i \in DOMAIN wire, wire[i].name = "content-length" PROVE i = last
    <3>1. CASE k = 1 /\ i = 1
      BY <1>1, <1>2, <2>2, <3>1
    <3>2. ASSUME NEW m \in DOMAIN headers, i = k + m PROVE FALSE
      <4>1. headers[m].name = "content-length"
        BY <1>1, <2>2, <3>2
      <4> QED
        BY <1>9, <4>1 DEF Carries
    <3> QED
      BY <1>1, <3>1, <3>2
  <2>3. /\ Occurrences(wire, "content-length") = 1
        /\ ValueOf(wire, "content-length") = "2"
    BY <2>1, <2>2, ExactlyOne
  <2>4. Digits[ValueOf(wire, "content-length")] = q.length
    BY <1>2, <1>9, <2>3
  <2>5. Carries(wire, "content-length")
    BY <2>1 DEF Carries
  <2>6. Occurrences(wire, "content-length") <= 1
    BY <2>3, SMT
  <2> QED
    BY <1>6, <1>7, <2>4, <2>5, <2>6 DEF wire, headers
<1>10. CASE ~Carries(headers, "content-length") /\ q.length = 0
  <2>1. ~Carries(wire, "content-length")
    <3> SUFFICES ASSUME NEW i \in DOMAIN wire, wire[i].name = "content-length"
                 PROVE  FALSE
      BY DEF Carries
    <3>1. CASE k = 1 /\ i = 1
      BY <1>1, <1>2, <3>1
    <3>2. ASSUME NEW m \in DOMAIN headers, i = k + m PROVE FALSE
      <4>1. headers[m].name = "content-length"
        BY <1>1, <3>2
      <4> QED
        BY <1>10, <4>1 DEF Carries
    <3> QED
      BY <1>1, <1>3, <1>10, <3>1, <3>2
  <2>2. Occurrences(wire, "content-length") <= 1
    BY <2>1, NoneAtAll, SMT
  <2> QED
    BY <1>6, <1>7, <1>10, <2>1, <2>2 DEF wire, headers
<1> QED
  BY <1>8, <1>9, <1>10

\* Whatever is added, headers with known names and values stay so.
LEMMA DefaultsTyped ==
  ASSUME NEW headers \in HeaderLists, NEW json
  PROVE  DefaultHeaders(headers, json) \in HeaderLists
<1> DEFINE H == [name : Names, value : Values]
           typed == IF json = "none" \/ Carries(headers, "content-type") THEN headers
                    ELSE Append(headers, Header("content-type", "plain"))
<1>1. Header("content-type", "plain") \in H /\ Header("user-agent", "plain") \in H
  BY SMT DEF Header, Names, Values
<1>2. headers \in Seq(H)
  BY DEF HeaderLists
<1>3. typed \in Seq(H) /\ << Header("user-agent", "plain") >> \o typed \in Seq(H)
  <2> HIDE DEF H
  <2> QED
    BY <1>1, <1>2, SMT
<1>4. \/ DefaultHeaders(headers, json) = typed
      \/ DefaultHeaders(headers, json) = << Header("user-agent", "plain") >> \o typed
  BY Zenon DEF DefaultHeaders
<1> QED
  BY <1>3, <1>4, Zenon DEF HeaderLists

\* What a call holds of its request.
Normal(request) == request.headers \in HeaderLists /\ request.length \in {0, 2}
NormalInv == \A t \in Threads : Normal(call[t].normalized)

LEMMA RejectedIs == \A kind : Normal(Rejected(kind))
<1>1. << >> \in HeaderLists
  BY SMT DEF HeaderLists
<1> QED
  BY <1>1, SMT DEF Normal, Rejected

LEMMA NoCallNormal == Normal(NoCall.normalized)
  BY RejectedIs, Zenon DEF NoCall

LEMMA NormalizedIs ==
  ASSUME NEW a, a.headers \in HeaderLists
  PROVE  Normal(NormalizeRequest(a))
<1> DEFINE headers == DefaultHeaders(a.headers, a.json)
           length  == BodyLength(a.data, a.json)
           made    == [error |-> "none", method |-> a.method, scheme |-> a.url,
                       headers |-> headers, length |-> length]
<1>1. headers \in HeaderLists
  BY DefaultsTyped
<1>2. length \in {0, 2}
  BY SMT DEF BodyLength
<1>3. made.headers = headers /\ made.length = length
  <2> HIDE DEF headers, length
  <2> QED
    BY SMT
<1>4. \/ NormalizeRequest(a) = Rejected("unicode")
      \/ NormalizeRequest(a) = Rejected("invalid")
      \/ NormalizeRequest(a) = made
  BY Zenon DEF NormalizeRequest
<1> QED
  BY <1>1, <1>2, <1>3, <1>4, RejectedIs, Zenon DEF Normal

LEMMA NormalKept == Shapes /\ NormalInv /\ [Next]_vars => NormalInv'
<1> SUFFICES ASSUME Shapes, NormalInv, [Next]_vars PROVE NormalInv'
  OBVIOUS
<1> USE DEF Shapes, NormalInv
<1>1. ASSUME NEW t \in Threads, RequestBegins(t) PROVE NormalInv'
  <2>1. PICK a \in Arguments(t, calls[t] + 1) :
          LET q == NormalizeRequest(a)
          IN  IF closed \/ a.otherProfile \/ q.error # "none" THEN Ends(t)
              ELSE /\ Goes(t, q.scheme)
                   /\ call' = [call EXCEPT ![t] = [NoCall EXCEPT
                                 !.verify = a.verify, !.normalized = q]]
    BY <1>1, Zenon DEF RequestBegins
  <2> DEFINE q     == NormalizeRequest(a)
             begun == [NoCall EXCEPT !.verify = a.verify, !.normalized = q]
  <2>2. call' = [call EXCEPT ![t] = NoCall] \/ call' = [call EXCEPT ![t] = begun]
    BY <2>1, Zenon DEF Ends
  <2>3. calls[t] < MaxCalls
    BY <1>1 DEF RequestBegins
  <2>4. calls[t] + 1 \in 1 .. MaxCalls
    BY <2>3, SessionAssumption, SMT
  <2>5. Normal(q)
    BY <2>4, ArgumentsAssumption, NormalizedIs, Zenon DEF HeaderLists
  <2> HIDE DEF q
  <2>6. Normal(begun.normalized)
    <3>1. begun.normalized = q
      BY SMT DEF NoCall
    <3> QED
      BY <2>5, <3>1
  <2> HIDE DEF begun
  <2> QED
    BY <2>2, <2>6, NoCallNormal, SMT
<1>2. ASSUME NEW t \in Threads, TestsHttp(t) PROVE NormalInv'
  BY <1>2, NoCallNormal, RejectedIs, SMT
     DEF TestsHttp, Goes, Ends, Creates, Forget, attributes
<1>3. ASSUME NEW t \in Threads, CreatesHttp(t) PROVE NormalInv'
  BY <1>3, NoCallNormal, RejectedIs, SMT
     DEF CreatesHttp, Goes, Ends, Creates, Forget, attributes
<1>4. ASSUME NEW t \in Threads, TakesHttp(t) PROVE NormalInv'
  BY <1>4, NoCallNormal, RejectedIs, SMT
     DEF TakesHttp, Goes, Ends, Creates, Forget, attributes
<1>5. ASSUME NEW t \in Threads, TestsHttps(t) PROVE NormalInv'
  BY <1>5, NoCallNormal, RejectedIs, SMT
     DEF TestsHttps, Goes, Ends, Creates, Forget, attributes
<1>6. ASSUME NEW t \in Threads, ReadsPolicy(t) PROVE NormalInv'
  BY <1>6, NoCallNormal, RejectedIs, SMT
     DEF ReadsPolicy, Goes, Ends, Creates, Forget, attributes
<1>7. ASSUME NEW t \in Threads, CreatesHttps(t) PROVE NormalInv'
  BY <1>7, NoCallNormal, RejectedIs, SMT
     DEF CreatesHttps, Goes, Ends, Creates, Forget, attributes
<1>8. ASSUME NEW t \in Threads, SetsPolicy(t) PROVE NormalInv'
  BY <1>8, NoCallNormal, RejectedIs, SMT
     DEF SetsPolicy, Goes, Ends, Creates, Forget, attributes
<1>9. ASSUME NEW t \in Threads, TakesHttps(t) PROVE NormalInv'
  BY <1>9, NoCallNormal, RejectedIs, SMT
     DEF TakesHttps, Goes, Ends, Creates, Forget, attributes
<1>10. ASSUME NEW t \in Threads, TakesPolicy(t) PROVE NormalInv'
  BY <1>10, NoCallNormal, RejectedIs, SMT
     DEF TakesPolicy, Goes, Ends, Creates, Forget, attributes
<1>11. ASSUME NEW t \in Threads, Verifies(t) PROVE NormalInv'
  BY <1>11, NoCallNormal, RejectedIs, SMT
     DEF Verifies, Goes, Ends, Creates, Forget, attributes
<1>12. ASSUME NEW t \in Threads, Sends(t) PROVE NormalInv'
  BY <1>12, NoCallNormal, RejectedIs, SMT
     DEF Sends, Goes, Ends, Creates, Forget, attributes
<1>13. ASSUME NEW t \in Threads, Receives(t) PROVE NormalInv'
  BY <1>13, NoCallNormal, RejectedIs, SMT
     DEF Receives, Goes, Ends, Creates, Forget, attributes
<1>14. ASSUME NEW t \in Threads, CloseBegins(t) PROVE NormalInv'
  BY <1>14, NoCallNormal, RejectedIs, SMT
     DEF CloseBegins, Goes, Ends, Creates, Forget, attributes
<1>15. ASSUME NEW t \in Threads, CloseLists(t) PROVE NormalInv'
  BY <1>15, NoCallNormal, RejectedIs, SMT
     DEF CloseLists, Goes, Ends, Creates, Forget, attributes
<1>16. ASSUME NEW t \in Threads, CloseSteps(t) PROVE NormalInv'
  BY <1>16, NoCallNormal, RejectedIs, SMT
     DEF CloseSteps, Goes, Ends, Creates, Forget, attributes
<1>17. ASSUME NEW t \in Threads, Interrupted(t) PROVE NormalInv'
  BY <1>17, NoCallNormal, RejectedIs, SMT
     DEF Interrupted, Goes, Ends, Creates, Forget, attributes
<1>18. CASE BundleChanges
  BY <1>18, SMT DEF BundleChanges, attributes
<1>19. CASE UNCHANGED vars
  BY <1>19, SMT DEF vars, attributes
<1> QED
  BY <1>1, <1>2, <1>3, <1>4, <1>5, <1>6, <1>7, <1>8, <1>9, <1>10, <1>11, <1>12,
     <1>13, <1>14, <1>15, <1>16, <1>17, <1>18, <1>19 DEF Next


-----------------------------------------------------------------------------
(* The lines of a PEM bundle, one by one *)

PemScans(E) == [anchors : Seq(E), block : Seq(E), refused : BOOLEAN]

\* A scan that cannot end with anchors any more.
Doomed(scan) ==
  \/ scan.refused
  \/ Len(scan.block) > 2
  \/ Len(scan.block) = 2 /\ scan.block[2] \in Markers

LEMMA ScanFields ==
  ASSUME NEW E, NEW scan \in PemScans(E)
  PROVE  /\ scan.anchors \in Seq(E) /\ scan.block \in Seq(E) /\ scan.refused \in BOOLEAN
         /\ Len(scan.block) \in Nat
         /\ scan.block = << >> <=> Len(scan.block) = 0
         /\ Len(scan.block) = 2 => scan.block[2] \in E
  BY SMT DEF PemScans

LEMMA AppendIs ==
  ASSUME NEW E, NEW q \in Seq(E), NEW x \in E
  PROVE  /\ Append(q, x) \in Seq(E) /\ Len(Append(q, x)) = Len(q) + 1
         /\ Len(q) = 1 => Append(q, x)[2] = x
         /\ Len(q) = 2 => Append(q, x)[2] = q[2]
  BY SMT

\* What becomes of a scan outside of a block.
Outside(scan, line, next) ==
  /\ line \in {"blank", "comment"} => next = scan
  /\ line = "begin" => /\ next.anchors = scan.anchors
                       /\ next.block = << line >>
                       /\ next.refused = FALSE
  /\ line \notin {"blank", "comment", "begin"} => next.refused

LEMMA LineOutside ==
  ASSUME NEW E, NEW scan \in PemScans(E), NEW line \in E,
         scan.refused = FALSE, scan.block = << >>
  PROVE  Outside(scan, line, PemLine(scan, line))
<1>1. line = "begin" => /\ [scan EXCEPT !.block = << line >>].anchors = scan.anchors
                        /\ [scan EXCEPT !.block = << line >>].block = << line >>
                        /\ [scan EXCEPT !.block = << line >>].refused = FALSE
  BY DEF PemScans
<1>2. [scan EXCEPT !.refused = TRUE].refused
  BY DEF PemScans
<1> QED
  BY <1>1, <1>2, Zenon DEF PemLine, Outside

\* And within one.
Inside(scan, line, next) ==
  /\ line = "blank" => next = scan
  /\ line = "begin" => next.refused
  /\ line \notin {"blank", "begin", "end"} =>
       /\ next.anchors = scan.anchors
       /\ next.block = Append(scan.block, line)
       /\ next.refused = FALSE
  /\ line = "end" =>
       IF Len(scan.block) # 2 \/ scan.block[2] \in Markers
         THEN next.refused
         ELSE /\ next.anchors = Append(scan.anchors, scan.block[2])
              /\ next.block = << >>
              /\ next.refused = FALSE

LEMMA LineInside ==
  ASSUME NEW E, NEW scan \in PemScans(E), NEW line \in E,
         scan.refused = FALSE, scan.block # << >>
  PROVE  Inside(scan, line, PemLine(scan, line))
<1>1. /\ [scan EXCEPT !.block = Append(@, line)].anchors = scan.anchors
      /\ [scan EXCEPT !.block = Append(@, line)].block = Append(scan.block, line)
      /\ [scan EXCEPT !.block = Append(@, line)].refused = FALSE
  BY DEF PemScans
<1>2. [scan EXCEPT !.refused = TRUE].refused
  BY DEF PemScans
<1>3. CASE line = "end"
  <2> DEFINE next == [anchors |-> Append(scan.anchors, scan.block[2]), block |-> << >>,
                      refused |-> FALSE]
  <2>1. PemLine(scan, line) = IF Len(scan.block) # 2 \/ scan.block[2] \in Markers
                                THEN [scan EXCEPT !.refused = TRUE] ELSE next
    BY <1>3, Zenon DEF PemLine
  <2>2. next.anchors = Append(scan.anchors, scan.block[2]) /\ next.block = << >>
        /\ next.refused = FALSE
    OBVIOUS
  <2> HIDE DEF next
  <2> QED
    BY <1>2, <1>3, <2>1, <2>2 DEF Inside
<1>4. CASE line # "end"
  BY <1>1, <1>2, <1>4, Zenon DEF PemLine, Inside
<1> QED
  BY <1>3, <1>4

LEMMA PemTyped ==
  ASSUME NEW E
  PROVE  /\ PemStart \in PemScans(E)
         /\ \A scan \in PemScans(E), line \in E : PemLine(scan, line) \in PemScans(E)
<1>1. PemStart \in PemScans(E)
  BY SMT DEF PemStart, PemScans
<1>2. ASSUME NEW scan \in PemScans(E), NEW line \in E
      PROVE  PemLine(scan, line) \in PemScans(E)
  <2>1. [scan EXCEPT !.refused = TRUE] \in PemScans(E)
    BY DEF PemScans
  <2>2. [scan EXCEPT !.block = << line >>] \in PemScans(E)
    <3>1. << line >> \in Seq(E)
      OBVIOUS
    <3> QED
      BY <3>1 DEF PemScans
  <2>3. [scan EXCEPT !.block = Append(@, line)] \in PemScans(E)
    BY ScanFields, AppendIs DEF PemScans
  <2>4. Len(scan.block) = 2 =>
          [anchors |-> Append(scan.anchors, scan.block[2]), block |-> << >>,
           refused |-> FALSE] \in PemScans(E)
    <3> SUFFICES ASSUME Len(scan.block) = 2
                 PROVE  Append(scan.anchors, scan.block[2]) \in Seq(E)
      BY DEF PemScans
    <3> QED
      BY ScanFields, AppendIs
  <2> QED
    BY <2>1, <2>2, <2>3, <2>4, Zenon DEF PemLine
<1> QED
  BY <1>1, <1>2

LEMMA DoomedStays ==
  ASSUME NEW E, NEW scan \in PemScans(E), NEW line \in E, Doomed(scan)
  PROVE  Doomed(PemLine(scan, line))
<1>1. CASE scan.refused
  BY <1>1, Zenon DEF PemLine, Doomed
<1>2. CASE ~scan.refused
  <2>1. scan.refused = FALSE /\ scan.block # << >> /\ Len(scan.block) # 0
    BY <1>2, ScanFields, SMT DEF Doomed
  <2>2. CASE line \in {"blank", "begin"}
    BY <2>1, <2>2, LineInside DEF Doomed, Inside
  <2>3. CASE line = "end"
    <3>1. Len(scan.block) # 2 \/ scan.block[2] \in Markers
      <4>1. \A k \in Nat : k > 2 => k # 2
        BY SMT
      <4>2. Len(scan.block) > 2 => Len(scan.block) # 2
        BY <4>1, ScanFields
      <4> QED
        BY <1>2, <4>2 DEF Doomed
    <3> QED
      BY <2>1, <2>3, <3>1, LineInside DEF Doomed, Inside
  <2>4. CASE line \notin {"blank", "begin", "end"}
    <3>1. PemLine(scan, line).block = Append(scan.block, line)
      BY <2>1, <2>4, LineInside DEF Inside
    <3>2. Len(scan.block) \in Nat /\ Len(scan.block) >= 2
      BY <1>2, ScanFields, SMT DEF Doomed
    <3>3. Len(Append(scan.block, line)) = Len(scan.block) + 1
      BY ScanFields, AppendIs
    <3>4. Len(PemLine(scan, line).block) > 2
      BY <3>1, <3>2, <3>3, SMT
    <3> QED
      BY <3>4 DEF Doomed
  <2> QED
    BY <2>2, <2>3, <2>4
<1> QED
  BY <1>1, <1>2

-----------------------------------------------------------------------------
(* The reference, one line more *)

MarkedTo(lines, n, marker) == {j \in 1 .. n : lines[j] = marker}

LEMMA MarkedGrows ==
  ASSUME NEW lines, NEW n \in Nat, NEW marker
  PROVE  /\ Cardinality(MarkedTo(lines, n, marker)) \in Nat
         /\ Cardinality(MarkedTo(lines, n + 1, marker)) =
              Cardinality(MarkedTo(lines, n, marker))
                + (IF lines[n + 1] = marker THEN 1 ELSE 0)
<1>1. IsFiniteSet(1 .. n)
  BY FS_Interval
<1>2. MarkedTo(lines, n, marker) \subseteq 1 .. n /\ n + 1 \notin 1 .. n
  BY SMT DEF MarkedTo
<1>3. IsFiniteSet(MarkedTo(lines, n, marker)) /\ n + 1 \notin MarkedTo(lines, n, marker)
  BY <1>1, <1>2, FS_Subset
<1>4. Cardinality(MarkedTo(lines, n, marker)) \in Nat
  BY <1>3, FS_CardinalityType
<1>5. CASE lines[n + 1] = marker
  <2>1. MarkedTo(lines, n + 1, marker) = MarkedTo(lines, n, marker) \cup {n + 1}
    <3>1. 1 .. n + 1 = (1 .. n) \cup {n + 1}
      BY OneMore
    <3> QED
      BY <1>5, <3>1 DEF MarkedTo
  <2>2. Cardinality(MarkedTo(lines, n, marker) \cup {n + 1})
          = Cardinality(MarkedTo(lines, n, marker)) + 1
    BY <1>3, FS_AddElement
  <2> QED
    BY <1>4, <1>5, <2>1, <2>2
<1>6. CASE lines[n + 1] # marker
  <2>1. MarkedTo(lines, n + 1, marker) = MarkedTo(lines, n, marker)
    BY <1>6, OneMore, Zenon DEF MarkedTo
  <2> QED
    BY <1>4, <1>6, <2>1, SMT
<1> QED
  BY <1>4, <1>5, <1>6

\* The lines that count, up to the n-th.
Keeps(lines, i) == lines[i] # "blank" /\ (lines[i] = "comment" => InBlock(lines, i))
KeptTo(lines, n) == {i \in 1 .. n : Keeps(lines, i)}
CountTo(lines, n) == Cardinality(KeptTo(lines, n))
RightAt(lines, i) ==
  CASE CountTo(lines, i) % 3 = 1 -> lines[i] = "begin"
    [] CountTo(lines, i) % 3 = 2 -> lines[i] \notin Markers
    [] OTHER                     -> lines[i] = "end"
FitsTo(lines, n) == \A i \in KeptTo(lines, n) : RightAt(lines, i)

LEMMA CountGrows ==
  ASSUME NEW lines, NEW n \in Nat
  PROVE  /\ CountTo(lines, n) \in Nat /\ IsFiniteSet(KeptTo(lines, n))
         /\ CountTo(lines, n) = 0 <=> KeptTo(lines, n) = {}
         /\ CountTo(lines, n + 1) =
              CountTo(lines, n) + (IF Keeps(lines, n + 1) THEN 1 ELSE 0)
         /\ FitsTo(lines, n + 1) <=>
              FitsTo(lines, n) /\ (Keeps(lines, n + 1) => RightAt(lines, n + 1))
<1>1. IsFiniteSet(1 .. n)
  BY FS_Interval
<1>2. KeptTo(lines, n) \subseteq 1 .. n /\ n + 1 \notin 1 .. n
  BY SMT DEF KeptTo
<1>3. IsFiniteSet(KeptTo(lines, n)) /\ n + 1 \notin KeptTo(lines, n)
  BY <1>1, <1>2, FS_Subset
<1>4. CountTo(lines, n) \in Nat /\ (CountTo(lines, n) = 0 <=> KeptTo(lines, n) = {})
  BY <1>3, FS_CardinalityType, FS_EmptySet DEF CountTo
<1>5. CASE Keeps(lines, n + 1)
  <2>1. KeptTo(lines, n + 1) = KeptTo(lines, n) \cup {n + 1}
    <3>1. 1 .. n + 1 = (1 .. n) \cup {n + 1}
      BY OneMore
    <3> QED
      BY <1>5, <3>1 DEF KeptTo
  <2>2. Cardinality(KeptTo(lines, n) \cup {n + 1}) = Cardinality(KeptTo(lines, n)) + 1
    BY <1>3, FS_AddElement
  <2>3. CountTo(lines, n + 1) = CountTo(lines, n) + 1
    BY <2>1, <2>2 DEF CountTo
  <2>4. FitsTo(lines, n + 1) <=> FitsTo(lines, n) /\ RightAt(lines, n + 1)
    BY <2>1, Zenon DEF FitsTo
  <2> QED
    BY <1>3, <1>4, <1>5, <2>3, <2>4
<1>6. CASE ~Keeps(lines, n + 1)
  <2>1. KeptTo(lines, n + 1) = KeptTo(lines, n)
    <3>1. 1 .. n + 1 = (1 .. n) \cup {n + 1}
      BY OneMore
    <3> QED
      BY <1>6, <3>1 DEF KeptTo
  <2>2. CountTo(lines, n + 1) = CountTo(lines, n) + 0
    BY <1>4, <2>1, SMT DEF CountTo
  <2>3. FitsTo(lines, n + 1) <=> FitsTo(lines, n)
    BY <2>1, Zenon DEF FitsTo
  <2> QED
    BY <1>3, <1>4, <1>6, <2>2, <2>3
<1> QED
  BY <1>5, <1>6

LEMMA IsBundleIs ==
  ASSUME NEW lines, NEW n \in Nat, DOMAIN lines = 1 .. n
  PROVE  IsBundle(lines) <=> /\ CountTo(lines, n) # 0 /\ CountTo(lines, n) % 3 = 0
                             /\ FitsTo(lines, n)
<1> DEFINE kept == {i \in DOMAIN lines :
                      /\ lines[i] # "blank"
                      /\ lines[i] = "comment" => InBlock(lines, i)}
           nth(i) == Cardinality({j \in kept : j <= i}) % 3
<1>1. kept = KeptTo(lines, n)
  BY DEF KeptTo, Keeps
<1>2. ASSUME NEW i \in kept PROVE {j \in kept : j <= i} = KeptTo(lines, i)
  <2>1. i \in 1 .. n /\ \A j : j \in 1 .. i <=> j \in 1 .. n /\ j <= i
    BY <1>1, SMT DEF KeptTo
  <2>2. \A j : j \in kept <=> j \in 1 .. n /\ Keeps(lines, j)
    BY <1>1 DEF KeptTo
  <2> HIDE DEF kept
  <2> QED
    BY <2>1, <2>2 DEF KeptTo
<1>3. \A i \in kept : nth(i) = CountTo(lines, i) % 3
  BY <1>2 DEF CountTo
<1>4. IsBundle(lines) <=>
        /\ kept # {} /\ Cardinality(kept) % 3 = 0
        /\ \A i \in kept : CASE nth(i) = 1 -> lines[i] = "begin"
                              [] nth(i) = 2 -> lines[i] \notin Markers
                              [] OTHER      -> lines[i] = "end"
  BY Zenon DEF IsBundle
<1> HIDE DEF kept, nth
<1>5. (\A i \in kept : CASE nth(i) = 1 -> lines[i] = "begin"
                          [] nth(i) = 2 -> lines[i] \notin Markers
                          [] OTHER      -> lines[i] = "end") <=> FitsTo(lines, n)
  BY <1>1, <1>3 DEF FitsTo, RightAt
<1> QED
  BY <1>1, <1>4, <1>5, CountGrows DEF CountTo

-----------------------------------------------------------------------------
(* Scan and reference in step *)

LEMMA Thirds ==
  /\ \A m \in Nat : m % 3 = 0 \/ m % 3 = 1 \/ m % 3 = 2
  /\ \A m \in Nat : m % 3 = 0 => (m + 1) % 3 = 1
  /\ \A m \in Nat : m % 3 = 1 => (m + 1) % 3 = 2
  /\ \A m \in Nat : m % 3 = 2 => (m + 1) % 3 = 0
  /\ \A m \in Nat : m + 1 # 0 /\ m + 0 = m
  /\ 1 # 0 /\ 0 # 1 /\ 2 # 0 /\ 0 # 2 /\ 1 # 2 /\ 2 # 1
  BY SMT

BeginsTo(lines, n) == Cardinality(MarkedTo(lines, n, "begin"))
EndsTo(lines, n) == Cardinality(MarkedTo(lines, n, "end"))

\* As long as all lines that count are the right ones.
InStep(scan, found, lines, n) ==
  /\ scan.refused = FALSE
  /\ CountTo(lines, n) = 0 => found = << >>
  /\ CountTo(lines, n) % 3 = 0 =>
       /\ scan.block = << >> /\ scan.anchors = found
       /\ BeginsTo(lines, n) = EndsTo(lines, n)
  /\ CountTo(lines, n) % 3 = 1 =>
       /\ Len(scan.block) = 1 /\ scan.anchors = found
       /\ BeginsTo(lines, n) = EndsTo(lines, n) + 1
  /\ CountTo(lines, n) % 3 = 2 =>
       /\ Len(scan.block) = 2 /\ scan.block[2] \notin Markers
       /\ Append(scan.anchors, scan.block[2]) = found
       /\ BeginsTo(lines, n) = EndsTo(lines, n) + 1

LEMMA BlocksGrow ==
  ASSUME NEW lines, NEW n \in Nat
  PROVE  /\ BeginsTo(lines, n) \in Nat /\ EndsTo(lines, n) \in Nat
         /\ lines[n + 1] # "begin" => BeginsTo(lines, n + 1) = BeginsTo(lines, n)
         /\ lines[n + 1] = "begin" => BeginsTo(lines, n + 1) = BeginsTo(lines, n) + 1
         /\ lines[n + 1] # "end" => EndsTo(lines, n + 1) = EndsTo(lines, n)
         /\ lines[n + 1] = "end" => EndsTo(lines, n + 1) = EndsTo(lines, n) + 1
         /\ BeginsTo(lines, n) = EndsTo(lines, n) => ~InBlock(lines, n + 1)
         /\ BeginsTo(lines, n) = EndsTo(lines, n) + 1 => InBlock(lines, n + 1)
<1>1. /\ BeginsTo(lines, n) \in Nat /\ EndsTo(lines, n) \in Nat
      /\ BeginsTo(lines, n + 1) =
           BeginsTo(lines, n) + (IF lines[n + 1] = "begin" THEN 1 ELSE 0)
      /\ EndsTo(lines, n + 1) =
           EndsTo(lines, n) + (IF lines[n + 1] = "end" THEN 1 ELSE 0)
  BY MarkedGrows DEF BeginsTo, EndsTo
<1>2. (n + 1) - 1 = n
  BY SMT
<1>3. InBlock(lines, n + 1) <=> BeginsTo(lines, n) > EndsTo(lines, n)
  BY <1>2 DEF InBlock, BeginsTo, EndsTo, MarkedTo
<1> QED
  BY <1>1, <1>3

LEMMA RightIs ==
  ASSUME NEW lines, NEW n \in Nat
  PROVE  /\ ~Keeps(lines, n + 1) => CountTo(lines, n + 1) = CountTo(lines, n)
                                    /\ (FitsTo(lines, n + 1) <=> FitsTo(lines, n))
         /\ Keeps(lines, n + 1) =>
              /\ CountTo(lines, n + 1) # 0
              /\ FitsTo(lines, n + 1) <=> FitsTo(lines, n) /\ RightAt(lines, n + 1)
              /\ CountTo(lines, n) % 3 = 0 =>
                   /\ CountTo(lines, n + 1) % 3 = 1
                   /\ RightAt(lines, n + 1) <=> lines[n + 1] = "begin"
              /\ CountTo(lines, n) % 3 = 1 =>
                   /\ CountTo(lines, n + 1) % 3 = 2
                   /\ RightAt(lines, n + 1) <=> lines[n + 1] \notin Markers
              /\ CountTo(lines, n) % 3 = 2 =>
                   /\ CountTo(lines, n + 1) % 3 = 0
                   /\ RightAt(lines, n + 1) <=> lines[n + 1] = "end"
<1>1. CASE ~Keeps(lines, n + 1)
  <2>1. CountTo(lines, n) \in Nat /\ CountTo(lines, n + 1) = CountTo(lines, n) + 0
        /\ (FitsTo(lines, n + 1) <=> FitsTo(lines, n))
    BY <1>1, CountGrows
  <2> QED
    BY <1>1, <2>1, Thirds
<1>2. CASE Keeps(lines, n + 1)
  <2>1. CountTo(lines, n) \in Nat /\ CountTo(lines, n + 1) = CountTo(lines, n) + 1
        /\ (FitsTo(lines, n + 1) <=> FitsTo(lines, n) /\ RightAt(lines, n + 1))
    BY <1>2, CountGrows
  <2>2. /\ CountTo(lines, n + 1) # 0
        /\ CountTo(lines, n) % 3 = 0 => CountTo(lines, n + 1) % 3 = 1
        /\ CountTo(lines, n) % 3 = 1 => CountTo(lines, n + 1) % 3 = 2
        /\ CountTo(lines, n) % 3 = 2 => CountTo(lines, n + 1) % 3 = 0
    BY <2>1, Thirds
  <2>3. /\ CountTo(lines, n + 1) % 3 = 1 => (RightAt(lines, n + 1) <=> lines[n + 1] = "begin")
        /\ CountTo(lines, n + 1) % 3 = 2
             => (RightAt(lines, n + 1) <=> lines[n + 1] \notin Markers)
        /\ CountTo(lines, n + 1) % 3 = 0 => (RightAt(lines, n + 1) <=> lines[n + 1] = "end")
    BY DEF RightAt
  <2> QED
    BY <1>2, <2>1, <2>2, <2>3, Zenon
<1> QED
  BY <1>1, <1>2

LEMMA OneLength ==
  ASSUME NEW x
  PROVE  << x >> # << >> /\ Len(<< x >>) = 1
  OBVIOUS

LEMMA StaysInStep ==
  ASSUME NEW E, NEW lines, NEW n \in Nat, NEW scan \in PemScans(E), NEW found \in Seq(E),
         NEW line \in E, lines[n + 1] = line, FitsTo(lines, n), InStep(scan, found, lines, n)
  PROVE  IF FitsTo(lines, n + 1)
           THEN InStep(PemLine(scan, line), Certificate(found, line), lines, n + 1)
           ELSE Doomed(PemLine(scan, line))
<1> DEFINE next == PemLine(scan, line)
<1>1. /\ scan.refused = FALSE
      /\ line \in Markers => Certificate(found, line) = found
      /\ line \notin Markers => Certificate(found, line) = Append(found, line)
  BY DEF InStep, Certificate
<1>2. CountTo(lines, n) \in Nat
  BY CountGrows
<1>3. Markers = {"begin", "end", "blank", "comment", "text"}
  BY DEF Markers
<1>4. CASE CountTo(lines, n) % 3 = 0
  <2>1. scan.block = << >> /\ scan.anchors = found /\ BeginsTo(lines, n) = EndsTo(lines, n)
    BY <1>4 DEF InStep
  <2>2. /\ line \in {"blank", "comment"} => next = scan
        /\ line = "begin" => /\ next.anchors = scan.anchors /\ next.block = << line >>
                             /\ next.refused = FALSE
        /\ line \notin {"blank", "comment", "begin"} => next.refused
    <3>1. scan.refused = FALSE /\ scan.block = << >>
      BY <1>1, <2>1
    <3>2. Outside(scan, line, next)
      BY <3>1, LineOutside
    <3> HIDE DEF next
    <3> QED
      BY <3>2 DEF Outside
  <2> HIDE DEF next
  <2>3. CASE line \in {"blank", "comment"}
    <3>1. ~Keeps(lines, n + 1)
      BY <2>1, <2>3, BlocksGrow DEF Keeps
    <3>2. CountTo(lines, n + 1) = CountTo(lines, n) /\ FitsTo(lines, n + 1)
      BY <3>1, RightIs
    <3>3. BeginsTo(lines, n + 1) = BeginsTo(lines, n)
          /\ EndsTo(lines, n + 1) = EndsTo(lines, n)
      BY <2>3, BlocksGrow
    <3>4. next = scan /\ Certificate(found, line) = found
      BY <1>1, <1>3, <2>2, <2>3
    <3>5. InStep(next, Certificate(found, line), lines, n + 1)
      BY <3>2, <3>3, <3>4 DEF InStep
    <3> QED
      BY <3>2, <3>5 DEF next
  <2>4. CASE line = "begin"
    <3>1. Keeps(lines, n + 1)
      BY <2>4 DEF Keeps
    <3>2. /\ CountTo(lines, n + 1) # 0 /\ CountTo(lines, n + 1) % 3 = 1
          /\ FitsTo(lines, n + 1)
      BY <1>4, <2>4, <3>1, RightIs
    <3>3. BeginsTo(lines, n + 1) = EndsTo(lines, n + 1) + 1
      BY <2>1, <2>4, BlocksGrow
    <3>4. /\ next.anchors = scan.anchors /\ Len(next.block) = 1
          /\ next.refused = FALSE /\ Certificate(found, line) = found
      BY <1>1, <1>3, <2>2, <2>4, OneLength
    <3>5. InStep(next, Certificate(found, line), lines, n + 1)
      BY <2>1, <3>2, <3>3, <3>4, Thirds, Zenon DEF InStep
    <3> QED
      BY <3>2, <3>5 DEF next
  <2>5. CASE line \notin {"blank", "comment", "begin"}
    <3>1. Keeps(lines, n + 1)
      BY <2>5 DEF Keeps
    <3>2. ~FitsTo(lines, n + 1)
      BY <1>4, <2>5, <3>1, RightIs
    <3> QED
      BY <2>2, <2>5, <3>2 DEF Doomed, next
  <2> QED
    BY <2>3, <2>4, <2>5
<1>5. CASE CountTo(lines, n) % 3 = 1 \/ CountTo(lines, n) % 3 = 2
  <2>1. /\ Len(scan.block) = 1 \/ Len(scan.block) = 2
        /\ BeginsTo(lines, n) = EndsTo(lines, n) + 1
    BY <1>5 DEF InStep
  <2>2. scan.block # << >>
    <3>1. scan.block = << >> <=> Len(scan.block) = 0
      BY ScanFields
    <3> QED
      BY <2>1, <3>1, Thirds
  <2>3. /\ line = "blank" => next = scan
        /\ line = "begin" => next.refused
        /\ line \notin {"blank", "begin", "end"} =>
             /\ next.anchors = scan.anchors /\ next.block = Append(scan.block, line)
             /\ next.refused = FALSE
        /\ line = "end" =>
             IF Len(scan.block) # 2 \/ scan.block[2] \in Markers
               THEN next.refused
               ELSE /\ next.anchors = Append(scan.anchors, scan.block[2])
                    /\ next.block = << >> /\ next.refused = FALSE
    <3>1. scan.refused = FALSE
      BY <1>1
    <3>2. Inside(scan, line, next)
      BY <2>2, <3>1, LineInside
    <3> HIDE DEF next
    <3> QED
      BY <3>2 DEF Inside
  <2> HIDE DEF next
  <2>4. CASE line = "blank"
    <3>1. ~Keeps(lines, n + 1)
      BY <2>4 DEF Keeps
    <3>2. CountTo(lines, n + 1) = CountTo(lines, n) /\ FitsTo(lines, n + 1)
      BY <3>1, RightIs
    <3>3. BeginsTo(lines, n + 1) = BeginsTo(lines, n)
          /\ EndsTo(lines, n + 1) = EndsTo(lines, n)
      BY <2>4, BlocksGrow
    <3>4. next = scan /\ Certificate(found, line) = found
      BY <1>1, <1>3, <2>3, <2>4
    <3>5. InStep(next, Certificate(found, line), lines, n + 1)
      BY <3>2, <3>3, <3>4 DEF InStep
    <3> QED
      BY <3>2, <3>5 DEF next
  <2>5. CASE line # "blank"
    <3>1. Keeps(lines, n + 1)
      BY <2>1, <2>5, BlocksGrow DEF Keeps
    <3>2. CASE line = "begin"
      <4>1. ~FitsTo(lines, n + 1)
        BY <1>3, <1>5, <3>1, <3>2, RightIs
      <4> QED
        BY <2>3, <3>2, <4>1 DEF Doomed, next
    <3>3. CASE CountTo(lines, n) % 3 = 1 /\ line = "end"
      <4>1. ~FitsTo(lines, n + 1)
        BY <1>3, <3>1, <3>3, RightIs
      <4>2. Len(scan.block) = 1
        BY <3>3 DEF InStep
      <4> QED
        BY <2>3, <3>3, <4>1, <4>2, Thirds DEF Doomed, next
    <3>4. CASE CountTo(lines, n) % 3 = 1 /\ line \notin {"begin", "end"}
      <4>1. Len(scan.block) = 1 /\ scan.anchors = found
        BY <3>4 DEF InStep
      <4>2. /\ next.anchors = found /\ next.block = Append(scan.block, line)
            /\ next.refused = FALSE
        BY <2>3, <2>5, <3>4, <4>1
      <4>3. Len(next.block) = 2 /\ next.block[2] = line
        BY <4>1, <4>2, ScanFields, AppendIs
      <4>4. CASE line \in Markers
        <5>1. ~FitsTo(lines, n + 1)
          BY <3>1, <3>4, <4>4, RightIs
        <5> QED
          BY <4>3, <4>4, <5>1 DEF Doomed, next
      <4>5. CASE line \notin Markers
        <5>1. /\ CountTo(lines, n + 1) # 0 /\ CountTo(lines, n + 1) % 3 = 2
              /\ FitsTo(lines, n + 1)
          BY <3>1, <3>4, <4>5, RightIs
        <5>2. BeginsTo(lines, n + 1) = EndsTo(lines, n + 1) + 1
          BY <2>1, <3>4, BlocksGrow
        <5>3. InStep(next, Certificate(found, line), lines, n + 1)
          BY <1>1, <4>2, <4>3, <4>5, <5>1, <5>2, Thirds, Zenon DEF InStep
        <5> QED
          BY <5>1, <5>3 DEF next
      <4> QED
        BY <4>4, <4>5
    <3>5. CASE CountTo(lines, n) % 3 = 2 /\ line = "end"
      <4>1. /\ Len(scan.block) = 2 /\ scan.block[2] \notin Markers
            /\ Append(scan.anchors, scan.block[2]) = found
        BY <3>5 DEF InStep
      <4>2. /\ next.anchors = found /\ next.block = << >> /\ next.refused = FALSE
        BY <2>3, <3>5, <4>1
      <4>3. /\ CountTo(lines, n + 1) # 0 /\ CountTo(lines, n + 1) % 3 = 0
            /\ FitsTo(lines, n + 1)
        BY <3>1, <3>5, RightIs
      <4>4. BeginsTo(lines, n + 1) = EndsTo(lines, n + 1)
        BY <2>1, <3>5, BlocksGrow
      <4>5. Certificate(found, line) = found
        BY <1>1, <1>3, <3>5
      <4>6. InStep(next, Certificate(found, line), lines, n + 1)
        BY <4>2, <4>3, <4>4, <4>5, Thirds, Zenon DEF InStep
      <4> QED
        BY <4>3, <4>6 DEF next
    <3>6. CASE CountTo(lines, n) % 3 = 2 /\ line \notin {"begin", "end"}
      <4>1. ~FitsTo(lines, n + 1)
        BY <3>1, <3>6, RightIs
      <4>2. next.block = Append(scan.block, line) /\ Len(scan.block) = 2
        BY <2>3, <2>5, <3>6 DEF InStep
      <4>3. Len(next.block) = 2 + 1
        <5>1. Len(Append(scan.block, line)) = Len(scan.block) + 1
          BY ScanFields, AppendIs
        <5> QED
          BY <4>2, <5>1
      <4>4. Len(next.block) > 2
        BY <4>3, SMT
      <4> QED
        BY <4>1, <4>4 DEF Doomed, next
    <3> QED
      BY <1>5, <3>2, <3>3, <3>4, <3>5, <3>6
  <2> QED
    BY <2>4, <2>5
<1> QED
  BY <1>2, <1>4, <1>5, Thirds

\* _read_pem_bundle() goes through the lines one by one.
LEMMA PemRuns ==
  ASSUME NEW E, NEW lines \in Seq(E)
  PROVE  \E run : /\ run[0] = PemStart
                  /\ \A i \in 1 .. Len(lines) :
                       run[i] = PemLine(run[i - 1], lines[i])
                  /\ run[Len(lines)] = FoldLeft(PemLine, PemStart, lines)
<1> DEFINE F == [x \in PemScans(E) \X E |-> PemLine(x[1], x[2])]
           D == DOMAIN lines
           Eq(g) == g = [s \in SUBSET D |->
                           IF s = {} THEN PemStart
                                     ELSE PemLine(g[s \ {Max(s)}], lines[Max(s)])]
           iter == CHOOSE g : Eq(g)
<1>1. F \in [PemScans(E) \X E -> PemScans(E)] /\ PemStart \in PemScans(E)
  BY PemTyped, Zenon
<1>2. Len(lines) \in Nat /\ D = 1 .. Len(lines)
      /\ \A i \in D : lines[i] \in E
  BY SMT
<1>3. \E g : Eq(g)
  <2> HIDE DEF F
  <2>1. PICK g : FoldedWith(g, F, PemScans(E), PemStart, lines)
    BY <1>1, FoldExists
  <2> USE DEF F
  <2>2. ASSUME NEW s \in SUBSET D, s # {}
        PROVE  g[s] = PemLine(g[s \ {Max(s)}], lines[Max(s)])
    <3>1. Max(s) \in D
      BY <1>2, <2>2, MaxIs, Zenon
    <3>2. lines[Max(s)] \in E /\ g[s \ {Max(s)}] \in PemScans(E)
      BY <1>2, <2>1, <3>1 DEF FoldedWith
    <3>3. g[s] = F[<< g[s \ {Max(s)}], lines[Max(s)] >>]
      BY <2>1, <2>2, Zenon DEF FoldedWith
    <3> QED
      BY <3>2, <3>3
  <2>3. \A s \in SUBSET D :
          g[s] = IF s = {} THEN PemStart
                           ELSE PemLine(g[s \ {Max(s)}], lines[Max(s)])
    BY <2>1, <2>2, Zenon DEF FoldedWith
  <2>4. Eq(g)
    BY <2>1, <2>3, Zenon DEF FoldedWith
  <2> QED
    BY <2>4
<1>4. Eq(iter)
  <2> HIDE DEF Eq
  <2> QED
    BY <1>3
<1>5. FoldLeft(PemLine, PemStart, lines) = iter[D]
  BY DEF FoldLeft, MapThenFoldSet
<1> HIDE DEF iter
<1>6. \A s \in SUBSET D : iter[s] = IF s = {} THEN PemStart
        ELSE PemLine(iter[s \ {Max(s)}], lines[Max(s)])
  BY <1>4, Zenon
<1> DEFINE run == [i \in 0 .. Len(lines) |-> iter[1 .. i]]
<1>7. run[0] = PemStart
  <2>1. 0 \in 0 .. Len(lines) /\ 1 .. 0 = {} /\ {} \in SUBSET D
    BY <1>2, SMT
  <2>2. run[0] = iter[1 .. 0]
    BY <2>1
  <2> HIDE DEF run
  <2> QED
    BY <1>6, <2>1, <2>2, Zenon
<1>8. ASSUME NEW i \in 1 .. Len(lines)
      PROVE  run[i] = PemLine(run[i - 1], lines[i])
  <2>1. i \in 0 .. Len(lines) /\ i - 1 \in 0 .. Len(lines)
    BY <1>2, SMT
  <2>2. run[i] = iter[1 .. i] /\ run[i - 1] = iter[1 .. (i - 1)]
    BY <2>1
  <2>3. /\ 1 .. i \in SUBSET D /\ 1 .. i # {} /\ Max(1 .. i) = i
        /\ (1 .. i) \ {Max(1 .. i)} = 1 .. (i - 1)
    BY <1>2, FoldRuns
  <2> HIDE DEF run
  <2> QED
    BY <1>6, <2>2, <2>3, Zenon
<1>9. run[Len(lines)] = iter[D]
  <2>1. Len(lines) \in 0 .. Len(lines)
    BY <1>2, SMT
  <2> QED
    BY <1>2, <2>1
<1> QED
  BY <1>5, <1>7, <1>8, <1>9

LEMMA CertificatesTyped ==
  ASSUME NEW E
  PROVE  /\ << >> \in Seq(E)
         /\ \A found \in Seq(E), line \in E : Certificate(found, line) \in Seq(E)
  BY AppendIs DEF Certificate

\* And so does the reference.
LEMMA CertificatesRun ==
  ASSUME NEW E, NEW lines \in Seq(E)
  PROVE  \E run : /\ run[0] = << >>
                  /\ \A i \in 1 .. Len(lines) :
                       run[i] = Certificate(run[i - 1], lines[i])
                  /\ run[Len(lines)] = FoldLeft(Certificate, << >>, lines)
<1> DEFINE F == [x \in Seq(E) \X E |-> Certificate(x[1], x[2])]
           D == DOMAIN lines
           Eq(g) == g = [s \in SUBSET D |->
                           IF s = {} THEN << >>
                                     ELSE Certificate(g[s \ {Max(s)}], lines[Max(s)])]
           iter == CHOOSE g : Eq(g)
<1>1. F \in [Seq(E) \X E -> Seq(E)] /\ << >> \in Seq(E)
  BY CertificatesTyped, Zenon
<1>2. Len(lines) \in Nat /\ D = 1 .. Len(lines)
      /\ \A i \in D : lines[i] \in E
  BY SMT
<1>3. \E g : Eq(g)
  <2> HIDE DEF F
  <2>1. PICK g : FoldedWith(g, F, Seq(E), << >>, lines)
    BY <1>1, FoldExists
  <2> USE DEF F
  <2>2. ASSUME NEW s \in SUBSET D, s # {}
        PROVE  g[s] = Certificate(g[s \ {Max(s)}], lines[Max(s)])
    <3>1. Max(s) \in D
      BY <1>2, <2>2, MaxIs, Zenon
    <3>2. lines[Max(s)] \in E /\ g[s \ {Max(s)}] \in Seq(E)
      BY <1>2, <2>1, <3>1 DEF FoldedWith
    <3>3. g[s] = F[<< g[s \ {Max(s)}], lines[Max(s)] >>]
      BY <2>1, <2>2, Zenon DEF FoldedWith
    <3> QED
      BY <3>2, <3>3
  <2>3. \A s \in SUBSET D :
          g[s] = IF s = {} THEN << >>
                           ELSE Certificate(g[s \ {Max(s)}], lines[Max(s)])
    BY <2>1, <2>2, Zenon DEF FoldedWith
  <2>4. Eq(g)
    BY <2>1, <2>3, Zenon DEF FoldedWith
  <2> QED
    BY <2>4
<1>4. Eq(iter)
  <2> HIDE DEF Eq
  <2> QED
    BY <1>3
<1>5. FoldLeft(Certificate, << >>, lines) = iter[D]
  BY DEF FoldLeft, MapThenFoldSet
<1> HIDE DEF iter
<1>6. \A s \in SUBSET D : iter[s] = IF s = {} THEN << >>
        ELSE Certificate(iter[s \ {Max(s)}], lines[Max(s)])
  BY <1>4, Zenon
<1> DEFINE run == [i \in 0 .. Len(lines) |-> iter[1 .. i]]
<1>7. run[0] = << >>
  <2>1. 0 \in 0 .. Len(lines) /\ 1 .. 0 = {} /\ {} \in SUBSET D
    BY <1>2, SMT
  <2>2. run[0] = iter[1 .. 0]
    BY <2>1
  <2> HIDE DEF run
  <2> QED
    BY <1>6, <2>1, <2>2, Zenon
<1>8. ASSUME NEW i \in 1 .. Len(lines)
      PROVE  run[i] = Certificate(run[i - 1], lines[i])
  <2>1. i \in 0 .. Len(lines) /\ i - 1 \in 0 .. Len(lines)
    BY <1>2, SMT
  <2>2. run[i] = iter[1 .. i] /\ run[i - 1] = iter[1 .. (i - 1)]
    BY <2>1
  <2>3. /\ 1 .. i \in SUBSET D /\ 1 .. i # {} /\ Max(1 .. i) = i
        /\ (1 .. i) \ {Max(1 .. i)} = 1 .. (i - 1)
    BY <1>2, FoldRuns
  <2> HIDE DEF run
  <2> QED
    BY <1>6, <2>2, <2>3, Zenon
<1>9. run[Len(lines)] = iter[D]
  <2>1. Len(lines) \in 0 .. Len(lines)
    BY <1>2, SMT
  <2> QED
    BY <1>2, <2>1
<1> QED
  BY <1>5, <1>7, <1>8, <1>9

\* Whatever lines a text has, what is read are the certificates it consists of.
LEMMA ReadIs ==
  ASSUME NEW lines, IsText(lines)
  PROVE  ReadPemBundle(lines) = Anchors(lines)
<1> DEFINE E == ToSet(lines)
<1>0. lines \in Seq(E)
  BY DEF IsText
<1> HIDE DEF E
<1>1. /\ Len(lines) \in Nat /\ DOMAIN lines = 1 .. Len(lines)
      /\ \A i \in 1 .. Len(lines) : lines[i] \in E
  BY <1>0, ElementsOf
<1>2. PICK run : /\ run[0] = PemStart
                 /\ \A i \in 1 .. Len(lines) : run[i] = PemLine(run[i - 1], lines[i])
                 /\ run[Len(lines)] = FoldLeft(PemLine, PemStart, lines)
  BY <1>0, PemRuns
<1>3. PICK found : /\ found[0] = << >>
                   /\ \A i \in 1 .. Len(lines) :
                        found[i] = Certificate(found[i - 1], lines[i])
                   /\ found[Len(lines)] = FoldLeft(Certificate, << >>, lines)
  BY <1>0, CertificatesRun
<1> DEFINE Holds(n) == n <= Len(lines) =>
             /\ run[n] \in PemScans(E) /\ found[n] \in Seq(E)
             /\ IF FitsTo(lines, n) THEN InStep(run[n], found[n], lines, n)
                                    ELSE Doomed(run[n])
           T == {n \in Nat : Holds(n)}
<1>4. 0 \in T
  <2>1. run[0] \in PemScans(E) /\ found[0] \in Seq(E)
    BY <1>2, <1>3, PemTyped, CertificatesTyped
  <2>2. 1 .. 0 = {} /\ Cardinality({}) = 0 /\ 0 % 3 = 0
    BY FS_EmptySet, SMT
  <2>3. /\ KeptTo(lines, 0) = {} /\ CountTo(lines, 0) = 0
        /\ BeginsTo(lines, 0) = 0 /\ EndsTo(lines, 0) = 0
    BY <2>2 DEF KeptTo, CountTo, BeginsTo, EndsTo, MarkedTo
  <2>4. FitsTo(lines, 0)
    BY <2>3 DEF FitsTo
  <2>5. PemStart.refused = FALSE /\ PemStart.block = << >> /\ PemStart.anchors = << >>
    BY DEF PemStart
  <2>6. InStep(run[0], found[0], lines, 0)
    BY <1>2, <1>3, <2>2, <2>3, <2>5, Thirds, Zenon DEF InStep
  <2> QED
    BY <2>1, <2>4, <2>6
<1>5. ASSUME NEW n \in T PROVE n + 1 \in T
  <2>1. n \in Nat /\ Holds(n)
    OBVIOUS
  <2> HIDE DEF T
  <2>2. ASSUME n + 1 <= Len(lines)
        PROVE  /\ run[n + 1] \in PemScans(E) /\ found[n + 1] \in Seq(E)
               /\ IF FitsTo(lines, n + 1)
                    THEN InStep(run[n + 1], found[n + 1], lines, n + 1)
                    ELSE Doomed(run[n + 1])
    <3>1. n <= Len(lines) /\ n + 1 \in 1 .. Len(lines)
      BY <1>1, <2>1, <2>2, SMT
    <3>2. /\ run[n] \in PemScans(E) /\ found[n] \in Seq(E)
          /\ IF FitsTo(lines, n) THEN InStep(run[n], found[n], lines, n)
                                 ELSE Doomed(run[n])
      BY <2>1, <3>1, Zenon
    <3> HIDE DEF Holds
    <3>3. PICK line \in E : lines[n + 1] = line
      BY <1>1, <3>1
    <3>4. /\ run[n + 1] = PemLine(run[n], line)
          /\ found[n + 1] = Certificate(found[n], line)
      BY <1>2, <1>3, <2>1, <3>1, <3>3, OneMore
    <3>5. run[n + 1] \in PemScans(E) /\ found[n + 1] \in Seq(E)
      BY <3>2, <3>4, PemTyped, CertificatesTyped
    <3>6. CASE FitsTo(lines, n)
      <4>1. InStep(run[n], found[n], lines, n)
        BY <3>2, <3>6
      <4>2. IF FitsTo(lines, n + 1)
              THEN InStep(PemLine(run[n], line), Certificate(found[n], line), lines, n + 1)
              ELSE Doomed(PemLine(run[n], line))
        BY <2>1, <3>2, <3>3, <3>6, <4>1, StaysInStep
      <4> QED
        BY <3>4, <3>5, <4>2
    <3>7. CASE ~FitsTo(lines, n)
      <4>1. ~FitsTo(lines, n + 1)
        BY <2>1, <3>7, CountGrows
      <4>2. Doomed(PemLine(run[n], line))
        BY <3>2, <3>7, DoomedStays
      <4> QED
        BY <3>4, <3>5, <4>1, <4>2
    <3> QED
      BY <3>6, <3>7
  <2>3. Holds(n + 1)
    BY <2>2
  <2> HIDE DEF Holds
  <2> QED
    BY <2>1, <2>3, OneMore, Zenon DEF T
<1> DEFINE scan == run[Len(lines)]
<1> HIDE DEF T
<1>6. /\ scan \in PemScans(E)
      /\ IF FitsTo(lines, Len(lines)) THEN InStep(scan, found[Len(lines)], lines, Len(lines))
                                      ELSE Doomed(scan)
  <2> HIDE DEF Holds
  <2>1. T \in SUBSET Nat
    BY DEF T
  <2>2. Len(lines) \in T
    BY <1>1, <1>4, <1>5, <2>1, AllNumbers
  <2>3. Holds(Len(lines)) /\ Len(lines) <= Len(lines)
    BY <1>1, <2>2 DEF T
  <2> QED
    BY <2>3 DEF Holds
<1>7. ReadPemBundle(lines)
        = IF scan.refused \/ scan.block # << >> THEN << >> ELSE scan.anchors
  BY <1>2, Zenon DEF ReadPemBundle
<1>8. Anchors(lines) = IF IsBundle(lines) THEN found[Len(lines)] ELSE << >>
  BY <1>3, Zenon DEF Anchors, Certificates
<1> HIDE DEF scan
<1>9. IsBundle(lines) <=> /\ CountTo(lines, Len(lines)) # 0
                          /\ CountTo(lines, Len(lines)) % 3 = 0
                          /\ FitsTo(lines, Len(lines))
  BY <1>1, IsBundleIs
<1>10. CASE ~FitsTo(lines, Len(lines))
  <2>1. scan.refused \/ scan.block # << >>
    <3>1. scan.block = << >> => ~(Len(scan.block) > 2) /\ Len(scan.block) # 2
      BY SMT
    <3> QED
      BY <1>6, <1>10, <3>1 DEF Doomed
  <2> QED
    BY <1>7, <1>8, <1>9, <1>10, <2>1
<1>11. CASE FitsTo(lines, Len(lines)) /\ CountTo(lines, Len(lines)) % 3 = 0
  <2>1. /\ scan.refused = FALSE /\ scan.block = << >> /\ scan.anchors = found[Len(lines)]
        /\ CountTo(lines, Len(lines)) = 0 => found[Len(lines)] = << >>
    BY <1>6, <1>11, Zenon DEF InStep
  <2> QED
    BY <1>7, <1>8, <1>9, <1>11, <2>1, Zenon
<1>12. CASE FitsTo(lines, Len(lines)) /\ CountTo(lines, Len(lines)) % 3 # 0
  <2>1. CountTo(lines, Len(lines)) \in Nat
    BY <1>1, CountGrows
  <2>2. CountTo(lines, Len(lines)) % 3 = 1 \/ CountTo(lines, Len(lines)) % 3 = 2
    BY <1>12, <2>1, Thirds
  <2>3. Len(scan.block) = 1 \/ Len(scan.block) = 2
    BY <1>6, <1>12, <2>2, Zenon DEF InStep
  <2>4. scan.block # << >>
    <3>1. scan.block = << >> <=> Len(scan.block) = 0
      BY <1>6, ScanFields
    <3> QED
      BY <2>3, <3>1, Thirds
  <2> QED
    BY <1>7, <1>8, <1>9, <1>12, <2>4, Zenon
<1> QED
  BY <1>10, <1>11, <1>12

LEMMA NothingMisread == Misread = {}
  BY PemAssumption, ReadIs DEF Misread

-----------------------------------------------------------------------------
(* PolicyIsBundle.  What the session has been given, what a call has read   *)
(* and what a worker has been given are all from one bundle that was there. *)

Known(anchors) ==
  anchors # << >> => \E lines \in Bundles \cup Replacements : anchors = Anchors(lines)

KnownInv ==
  /\ bundle \in Bundles \cup Replacements
  /\ Known(policy.anchors)
  /\ \A t \in Threads : Known(call[t].policy.anchors)
  /\ \A n \in Natives : Known(native[n].anchors)

\* No anchors, and those that are read from the file as it is now.
LEMMA PoliciesKnown ==
  /\ Known(<< >>) /\ Known(NoPolicy.anchors) /\ Known(Insecure.anchors)
  /\ Known(NoCall.policy.anchors)
  /\ KnownInv => Known(Read.anchors)
<1>1. NoPolicy.anchors = << >> /\ Insecure.anchors = << >> /\ NoCall.policy = NoPolicy
  BY DEF NoPolicy, Insecure, Policy, NoCall
<1>2. ASSUME KnownInv PROVE Known(Read.anchors)
  <2>1. Read.anchors = ReadPemBundle(bundle)
    BY DEF Read, Policy
  <2>2. bundle \in Bundles \cup Replacements /\ IsText(bundle)
    BY <1>2, BundlesAssumption DEF KnownInv
  <2>3. ReadPemBundle(bundle) = Anchors(bundle)
    BY <2>2, ReadIs
  <2> QED
    BY <2>1, <2>2, <2>3, Zenon DEF Known
<1>3. Known(<< >>)
  BY Zenon DEF Known
<1> QED
  BY <1>1, <1>2, <1>3, Zenon

LEMMA KnownKept == Shapes /\ InsecureInv /\ KnownInv /\ [Next]_vars => KnownInv'
<1> SUFFICES ASSUME Shapes, InsecureInv, KnownInv, [Next]_vars PROVE KnownInv'
  OBVIOUS
<1> USE DEF Shapes, KnownInv
<1>1. ASSUME NEW t \in Threads, RequestBegins(t) PROVE KnownInv'
  <2>1. Beginning(t)
    BY <1>1, Begun
  <2>2. CASE Ends(t)
    BY <2>1, <2>2, PoliciesKnown, SMT DEF Beginning, Ends
  <2>3. ASSUME NEW a, NEW scheme, NEW q, Given(t, a, scheme, q)
        PROVE  KnownInv'
    <3> DEFINE begun == [NoCall EXCEPT !.verify = a.verify, !.normalized = q]
    <3>1. begun.policy = NoPolicy
      BY BegunIs
    <3>2. call' = [call EXCEPT ![t] = begun]
      BY <2>3, Zenon DEF Given
    <3> HIDE DEF begun
    <3> QED
      BY <2>1, <3>1, <3>2, PoliciesKnown, SMT DEF Beginning
  <2> QED
    BY <2>1, <2>2, <2>3, Zenon DEF Beginning
<1>2. ASSUME NEW t \in Threads, TestsHttp(t) PROVE KnownInv'
  BY <1>2, PoliciesKnown, SMT
     DEF TestsHttp, Goes, Ends, Creates, Forget, attributes
<1>3. ASSUME NEW t \in Threads, CreatesHttp(t) PROVE KnownInv'
  <2>1. UNCHANGED << bundle, policy >>
    BY <1>3 DEF CreatesHttp
  <2>2. \A n \in Natives : Known(native'[n].anchors)
    <3>1. ASSUME NEW n \in Natives, Creates(n, << >>, http)
          PROVE  \A m \in Natives : Known(native'[m].anchors)
      BY <3>1, PoliciesKnown, SMT DEF Creates
    <3> QED
      BY <1>3, <3>1 DEF CreatesHttp
  <2>3. call' = call \/ call' = [call EXCEPT ![t] = NoCall]
    BY <1>3 DEF CreatesHttp, Ends
  <2>4. \A u \in Threads : Known(call'[u].policy.anchors)
    BY <2>3, PoliciesKnown
  <2> QED
    BY <2>1, <2>2, <2>4
<1>4. ASSUME NEW t \in Threads, TakesHttp(t) PROVE KnownInv'
  BY <1>4, PoliciesKnown, SMT
     DEF TakesHttp, Goes, Ends, Creates, Forget, attributes
<1>5. ASSUME NEW t \in Threads, TestsHttps(t) PROVE KnownInv'
  BY <1>5, PoliciesKnown, SMT
     DEF TestsHttps, Goes, Ends, Creates, Forget, attributes
<1>6. ASSUME NEW t \in Threads, ReadsPolicy(t) PROVE KnownInv'
  <2> DEFINE read == IF verifyInput = "off" THEN Insecure ELSE Read
  <2>1. Known(read.anchors)
    BY PoliciesKnown
  <2>2. \/ call' = [call EXCEPT ![t] = NoCall]
        \/ call' = [call EXCEPT ![t].policy = read]
    BY <1>6, Zenon DEF ReadsPolicy, Ends
  <2>3. UNCHANGED << bundle, policy, native >>
    BY <1>6 DEF ReadsPolicy, attributes
  <2> HIDE DEF read
  <2>4. \A u \in Threads : Known(call'[u].policy.anchors)
    <3>1. CASE call' = [call EXCEPT ![t] = NoCall]
      BY <3>1, PoliciesKnown
    <3>2. CASE call' = [call EXCEPT ![t].policy = read]
      <4>1. \A u \in Threads \ {t} : call'[u] = call[u]
        BY <3>2
      <4>2. call'[t].policy = read
        BY <3>2
      <4> QED
        BY <2>1, <4>1, <4>2
    <3> QED
      BY <2>2, <3>1, <3>2
  <2> QED
    BY <2>3, <2>4
<1>7. ASSUME NEW t \in Threads, CreatesHttps(t) PROVE KnownInv'
  BY <1>7, PoliciesKnown, SMT
     DEF CreatesHttps, Goes, Ends, Creates, Forget, attributes
<1>8. ASSUME NEW t \in Threads, SetsPolicy(t) PROVE KnownInv'
  BY <1>8, PoliciesKnown, SMT
     DEF SetsPolicy, Goes, Ends, Creates, Forget, attributes
<1>9. ASSUME NEW t \in Threads, TakesHttps(t) PROVE KnownInv'
  BY <1>9, PoliciesKnown, SMT
     DEF TakesHttps, Goes, Ends, Creates, Forget, attributes
<1>10. ASSUME NEW t \in Threads, TakesPolicy(t) PROVE KnownInv'
  BY <1>10, PoliciesKnown, SMT
     DEF TakesPolicy, Goes, Ends, Creates, Forget, attributes
<1>11. ASSUME NEW t \in Threads, Verifies(t) PROVE KnownInv'
  <2> DEFINE resolved == Resolves(call[t].verify, call[t].policy)
  <2>1. resolved # NoPolicy => Known(resolved.anchors)
    <3>1. call[t].verify \in {"none", "off", "bundle"}
      BY DEF InsecureInv
    <3>2. \/ resolved = call[t].policy \/ resolved = Insecure
          \/ resolved = Read \/ resolved = NoPolicy
      BY <3>1, Zenon DEF Resolves
    <3> QED
      BY <3>2, PoliciesKnown
  <2>2. \/ call' = [call EXCEPT ![t] = NoCall]
        \/ resolved # NoPolicy /\ call' = [call EXCEPT ![t].policy = resolved]
    BY <1>11, Zenon DEF Verifies, Ends
  <2>3. UNCHANGED << bundle, policy, native >>
    BY <1>11 DEF Verifies, attributes
  <2> HIDE DEF resolved
  <2>4. \A u \in Threads : Known(call'[u].policy.anchors)
    <3>1. CASE call' = [call EXCEPT ![t] = NoCall]
      BY <3>1, PoliciesKnown
    <3>2. CASE resolved # NoPolicy /\ call' = [call EXCEPT ![t].policy = resolved]
      <4>1. \A u \in Threads \ {t} : call'[u] = call[u]
        BY <3>2
      <4>2. call'[t].policy = resolved
        BY <3>2
      <4> QED
        BY <2>1, <3>2, <4>1, <4>2
    <3> QED
      BY <2>2, <3>1, <3>2
  <2> QED
    BY <2>3, <2>4
<1>12. ASSUME NEW t \in Threads, Sends(t) PROVE KnownInv'
  BY <1>12, PoliciesKnown, SMT
     DEF Sends, Goes, Ends, Creates, Forget, attributes
<1>13. ASSUME NEW t \in Threads, Receives(t) PROVE KnownInv'
  BY <1>13, PoliciesKnown, SMT
     DEF Receives, Goes, Ends, Creates, Forget, attributes
<1>14. ASSUME NEW t \in Threads, CloseBegins(t) PROVE KnownInv'
  BY <1>14, PoliciesKnown, SMT
     DEF CloseBegins, Goes, Ends, Creates, Forget, attributes
<1>15. ASSUME NEW t \in Threads, CloseLists(t) PROVE KnownInv'
  BY <1>15, PoliciesKnown, SMT
     DEF CloseLists, Goes, Ends, Creates, Forget, attributes
<1>16. ASSUME NEW t \in Threads, CloseSteps(t) PROVE KnownInv'
  <2>1. UNCHANGED << bundle, policy >>
    BY <1>16 DEF CloseSteps, attributes
  <2>2. \A n \in Natives : native'[n].anchors = native[n].anchors
    BY <1>16 DEF CloseSteps
  <2>3. call' = call \/ call' = [call EXCEPT ![t] = NoCall]
    BY <1>16 DEF CloseSteps, Ends
  <2>4. \A u \in Threads : Known(call'[u].policy.anchors)
    BY <2>3, PoliciesKnown
  <2> QED
    BY <2>1, <2>2, <2>4
<1>17. ASSUME NEW t \in Threads, Interrupted(t) PROVE KnownInv'
  BY <1>17, PoliciesKnown, SMT
     DEF Interrupted, Goes, Ends, Creates, Forget, attributes
<1>18. CASE BundleChanges
  BY <1>18, SMT DEF BundleChanges, attributes
<1>19. CASE UNCHANGED vars
  BY <1>19, SMT DEF vars, attributes
<1> QED
  BY <1>1, <1>2, <1>3, <1>4, <1>5, <1>6, <1>7, <1>8, <1>9, <1>10, <1>11, <1>12,
     <1>13, <1>14, <1>15, <1>16, <1>17, <1>18, <1>19 DEF Next

-----------------------------------------------------------------------------
\* The inductive invariant.
IInv ==
  /\ Shapes /\ InsecureInv /\ SlotsInv /\ LeakInv /\ AgreedInv
  /\ NormalInv /\ KnownInv

LEMMA InitIInv == Init => IInv
<1> SUFFICES ASSUME Init PROVE IInv
  OBVIOUS
<1>1. Shapes
  BY InitShapes
<1>2. InsecureInv
  BY NoCallIs, Policies, SMT DEF Init, InsecureInv
<1>3. SlotsInv
  BY SMT DEF Init, SlotsInv
<1>4. LeakInv
  BY SMT DEF Init, LeakInv
<1>5. AgreedInv
  BY SMT DEF Init, AgreedInv, AgreedSession, AgreedCall
<1>6. NormalInv
  BY RejectedIs, Zenon DEF Init, NormalInv, Normal, NoCall
<1>7. KnownInv
  BY PoliciesKnown, SMT DEF Init, KnownInv
<1> QED
  BY <1>1, <1>2, <1>3, <1>4, <1>5, <1>6, <1>7 DEF IInv

LEMMA IInvKept == IInv /\ [Next]_vars => IInv'
  BY ShapesKept, InsecureKept, SlotsKept, LeakKept, AgreedKept, NormalKept,
     KnownKept, Zenon DEF IInv

\* Verification is off only by the choice of the caller, for every set of
\* threads and arguments and whatever happens to the bundle file.
THEOREM InsecureOnlyByChoice == Spec => []InsecureByChoice
<1>1. IInv => InsecureByChoice
  BY SMT DEF IInv, InsecureInv, InsecureByChoice, Chosen
<1> QED
  BY <1>1, InitIInv, IInvKept, PTL DEF Spec

\* A verified request goes to a worker that was given the anchors it was
\* checked against, unless threads raced to create the native sessions.
THEOREM WorkerHasThePolicy == Spec => []VerifiedAsAgreed
<1>1. IInv => VerifiedAsAgreed
  BY SMT DEF IInv, AgreedInv, AgreedCall, VerifiedAsAgreed, MadeFor
<1> QED
  BY <1>1, InitIInv, IInvKept, PTL DEF Spec

\* close() leaves no native session behind, unless threads raced to create
\* them or close() was interrupted.
THEOREM CloseLeavesNone == Spec => []OnlyRacesLeak
<1>1. IInv => OnlyRacesLeak
  BY SMT DEF IInv, LeakInv, OnlyRacesLeak
<1> QED
  BY <1>1, InitIInv, IInvKept, PTL DEF Spec

\* Whatever headers the callers give, a request on the wire is one message.
THEOREM OneMessageOnTheWire == Spec => []OneMessage
<1>1. IInv => OneMessage
  BY SerializedIsOne, Zenon DEF IInv, NormalInv, Normal, OneMessage
<1> QED
  BY <1>1, InitIInv, IInvKept, PTL DEF Spec

\* Whatever is in the files, and whenever they are replaced: the anchors read
\* from a text are its certificates, and a worker has those of one bundle.
THEOREM AnchorsAreOfABundle == Spec => []PolicyIsBundle
<1>1. IInv => PolicyIsBundle
  BY NothingMisread, Zenon DEF IInv, KnownInv, Known, PolicyIsBundle
<1> QED
  BY <1>1, InitIInv, IInvKept, PTL DEF Spec

=============================================================================
