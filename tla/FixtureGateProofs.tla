------------------------- MODULE FixtureGateProofs -------------------------
(***************************************************************************)
(* The gate of fixture-service.py is correct for any number of calls,      *)
(* releases and keys: the counters are exact, no wake-up is lost, the      *)
(* implementation keeps the promise of HoldGate, and so are the accounts   *)
(* it keeps of attempts and failures, at the end.                          *)
(***************************************************************************)
EXTENDS FixtureGate, FiniteSetTheorems, TLAPS

\* An epoch a call has read is never ahead of the counter it was read from.
SeenIsPast ==
    \A c \in Calls : pc[c] \in Published \cup {"epoch"} =>
        seen[c] <= released[Key(c)]

\* The calls behind a release's number were made under its key and never
\* come back into the handler; once it has bumped they have been told.
Accounted(r, c) ==
    /\ pc[c] \in Published \cup {"answer", "done"}
    /\ Key(c) = relKey[r]
    /\ pc[r] = "done" /\ pc[c] \in Published => Told(c)

CountedCalls ==
    \A r \in Releases : pc[r] \in {"bump", "done"} =>
        /\ reported[r] = Cardinality(heldSet[r])
        /\ \A c \in heldSet[r] : Accounted(r, c)

IInv == TypeOK /\ InflightIsExact /\ SeenIsPast /\ NoSleeperIsTold
        /\ CountedCalls
-----------------------------------------------------------------------------
(* The calls in the handler under a key are a finite set.                  *)
LEMMA InHandlerIsFinite ==
    \A k : IsFiniteSet(InHandler(k)) /\ Cardinality(InHandler(k)) \in Nat
<1> SUFFICES ASSUME NEW k
             PROVE  IsFiniteSet(InHandler(k)) /\ Cardinality(InHandler(k)) \in Nat
  OBVIOUS
<1>1. InHandler(k) \subseteq Calls
  BY DEF InHandler
<1> QED
  BY <1>1, ThreadsAreFinite, FS_Subset, FS_CardinalityType

(* A step that moves no call into or out of the handler, and rewrites no   *)
(* body of a call inside it, keeps InHandler.                              *)
LEMMA SameHandler ==
    ASSUME \A c \in Calls : (pc'[c] \in Published) <=> (pc[c] \in Published),
           \A c \in Calls : pc[c] \in Published => body'[c] = body[c],
           NEW k
    PROVE  InHandler(k)' = InHandler(k)
BY DEF InHandler, Key, Published

(* The initial state satisfies the inductive invariant.                    *)
LEMMA InitIInv == Init => IInv
<1> SUFFICES ASSUME Init PROVE IInv
  OBVIOUS
<1>1. (CHOOSE q \in Requests : TRUE) \in Requests
  BY SomeRequest
<1>2. (CHOOSE k \in Keys : TRUE) \in Keys
  BY SomeRequest
<1>3. TypeOK
  BY <1>1, <1>2 DEF Init, TypeOK, PCs, Threads
<1>4. InflightIsExact
  <2>1. \A k \in Keys : InHandler(k) = {}
    BY DEF Init, InHandler, Published, Threads
  <2> QED
    BY <2>1, FS_EmptySet DEF Init, InflightIsExact
<1>5. SeenIsPast /\ NoSleeperIsTold /\ CountedCalls
  BY DEF Init, SeenIsPast, NoSleeperIsTold, CountedCalls, Published, Threads
<1> QED
  BY <1>3, <1>4, <1>5 DEF IInv
-----------------------------------------------------------------------------
(* Type correctness is preserved; inflight stays a natural number because  *)
(* it counts a set that contains the call that leaves it.                  *)
LEMMA TypeStep == TypeOK /\ InflightIsExact /\ [Next]_vars => TypeOK'
<1> SUFFICES ASSUME TypeOK, InflightIsExact, [Next]_vars PROVE TypeOK'
  OBVIOUS
<1> USE DEF TypeOK, Goto, Reply, sharedVars, releaseLocals, Threads, PCs
<1>1. ASSUME NEW c \in Calls, Arrive(c) PROVE TypeOK'
  BY <1>1, ThreadsAreDistinct DEF Arrive
<1>2. ASSUME NEW c \in Calls, Reject(c) PROVE TypeOK'
  BY <1>2, ThreadsAreDistinct DEF Reject
<1>3. ASSUME NEW c \in Calls, Count(c) PROVE TypeOK'
  <2>1. Key(c) \in Keys /\ body[c].op \in Ops
    BY RequestsAreRequests DEF Request, Key
  <2> QED
    BY <1>3, <2>1, ThreadsAreDistinct DEF Count
<1>4. ASSUME NEW c \in Calls,
             FailPermanently(c) \/ FailTransiently(c) \/ AnswerAtOnce(c)
      PROVE TypeOK'
  <2>1. PICK v \in {"permanent", "transient", "ok"} :
            status' = [status EXCEPT ![c] = v]
    BY <1>4 DEF FailPermanently, FailTransiently, AnswerAtOnce
  <2>2. /\ pc' = [pc EXCEPT ![c] = "done"]
        /\ UNCHANGED <<sharedVars, body, relKey, attempts, seen, releaseLocals>>
    BY <1>4 DEF FailPermanently, FailTransiently, AnswerAtOnce
  <2> QED
    BY <2>1, <2>2, ThreadsAreDistinct
<1>5. ASSUME NEW c \in Calls, ReadEpoch(c) PROVE TypeOK'
  <2>1. Key(c) \in Keys
    BY RequestsAreRequests DEF Request, Key
  <2> QED
    BY <1>5, <2>1, ThreadsAreDistinct DEF ReadEpoch
<1>6. ASSUME NEW c \in Calls, Publish(c) PROVE TypeOK'
  <2>1. Key(c) \in Keys
    BY RequestsAreRequests DEF Request, Key
  <2> QED
    BY <1>6, <2>1, ThreadsAreDistinct DEF Publish
<1>7. ASSUME NEW c \in Calls, CheckPredicate(c) \/ Ceiling(c) PROVE TypeOK'
  BY <1>7, ThreadsAreDistinct DEF CheckPredicate, Ceiling
<1>8. ASSUME NEW c \in Calls, Unpublish(c) PROVE TypeOK'
  <2>1. Key(c) \in Keys
    BY RequestsAreRequests DEF Request, Key
  <2>2. inflight[Key(c)] - 1 \in Nat
    <3>1. c \in InHandler(Key(c))
      BY <1>8 DEF Unpublish, InHandler, Published
    <3>2. Cardinality(InHandler(Key(c))) # 0
      BY <3>1, InHandlerIsFinite, FS_EmptySet
    <3> QED
      BY <2>1, <3>2, InHandlerIsFinite DEF InflightIsExact
  <2> QED
    BY <1>8, <2>1, <2>2, ThreadsAreDistinct DEF Unpublish
<1>9. ASSUME NEW c \in Calls, AnswerHeld(c) PROVE TypeOK'
  BY <1>9, ThreadsAreDistinct DEF AnswerHeld
<1>10. ASSUME NEW r \in Releases, ArriveRelease(r) PROVE TypeOK'
  BY <1>10, ThreadsAreDistinct DEF ArriveRelease
<1>11. ASSUME NEW r \in Releases, CountHeld(r) PROVE TypeOK'
  BY <1>11, ThreadsAreDistinct DEF CountHeld, InHandler
<1>12. ASSUME NEW r \in Releases, Bump(r) PROVE TypeOK'
  BY <1>12, ThreadsAreDistinct DEF Bump
<1>13. CASE UNCHANGED vars
  BY <1>13 DEF vars
<1> QED
  BY <1>1, <1>2, <1>3, <1>4, <1>5, <1>6, <1>7, <1>8, <1>9, <1>10, <1>11,
     <1>12, <1>13 DEF Next, Accept, Work, ReleaseWork, Finished
-----------------------------------------------------------------------------
(* The counter behind GET /inflight stays exact.                           *)
LEMMA InflightStep ==
    TypeOK /\ InflightIsExact /\ [Next]_vars => InflightIsExact'
<1> SUFFICES ASSUME TypeOK, InflightIsExact, [Next]_vars, NEW k \in Keys
             PROVE  inflight'[k] = Cardinality(InHandler(k)')
  BY DEF InflightIsExact
<1> USE DEF TypeOK, Goto, Reply, sharedVars, releaseLocals, Threads, PCs
<1>0. Keys # {} /\ \A c \in Calls : Key(c) \in Keys
  BY RequestsAreRequests DEF Request, Key
<1>1. SUFFICES ASSUME
          ~ \E c \in Calls : Publish(c) \/ Unpublish(c)
                 PROVE inflight' = inflight /\ InHandler(k)' = InHandler(k)
  <2>1. ASSUME NEW c \in Calls, Publish(c)
        PROVE inflight'[k] = Cardinality(InHandler(k)')
    <3>1. CASE k = Key(c)
      <4>1. InHandler(k)' = InHandler(k) \cup {c}
        BY <2>1, <3>1, ThreadsAreDistinct DEF Publish, InHandler, Published, Key
      <4>2. c \notin InHandler(k)
        BY <2>1 DEF Publish, InHandler, Published
      <4>3. Cardinality(InHandler(k)') = Cardinality(InHandler(k)) + 1
        BY <4>1, <4>2, InHandlerIsFinite, FS_AddElement
      <4> QED
        BY <2>1, <3>1, <4>3 DEF Publish, InflightIsExact
    <3>2. CASE k # Key(c)
      <4>1. InHandler(k)' = InHandler(k)
        BY <2>1, <3>2, ThreadsAreDistinct DEF Publish, InHandler, Published, Key
      <4> QED
        BY <2>1, <3>2, <4>1 DEF Publish, InflightIsExact
    <3> QED
      BY <3>1, <3>2
  <2>2. ASSUME NEW c \in Calls, Unpublish(c)
        PROVE inflight'[k] = Cardinality(InHandler(k)')
    <3>1. CASE k = Key(c)
      <4>1. InHandler(k)' = InHandler(k) \ {c}
        BY <2>2, <3>1, ThreadsAreDistinct DEF Unpublish, InHandler, Published, Key
      <4>2. c \in InHandler(k)
        BY <2>2, <3>1 DEF Unpublish, InHandler, Published
      <4>3. Cardinality(InHandler(k)') = Cardinality(InHandler(k)) - 1
        BY <4>1, <4>2, InHandlerIsFinite, FS_RemoveElement
      <4> QED
        BY <2>2, <3>1, <4>3 DEF Unpublish, InflightIsExact
    <3>2. CASE k # Key(c)
      <4>1. InHandler(k)' = InHandler(k)
        BY <2>2, <3>2, ThreadsAreDistinct DEF Unpublish, InHandler, Published, Key
      <4> QED
        BY <2>2, <3>2, <4>1 DEF Unpublish, InflightIsExact
    <3> QED
      BY <3>1, <3>2
  <2> QED
    BY <1>1, <2>1, <2>2 DEF InflightIsExact
<1> USE DEF Published
<1>2. ASSUME NEW c \in Calls, Accept(c)
      PROVE inflight' = inflight /\ InHandler(k)' = InHandler(k)
  BY <1>2, SameHandler, ThreadsAreDistinct DEF Accept, Arrive, Reject
<1>3. ASSUME NEW c \in Calls,
             \/ Count(c) \/ FailPermanently(c) \/ FailTransiently(c)
             \/ AnswerAtOnce(c) \/ ReadEpoch(c) \/ AnswerHeld(c)
      PROVE inflight' = inflight /\ InHandler(k)' = InHandler(k)
  BY <1>3, SameHandler, ThreadsAreDistinct
     DEF Count, FailPermanently, FailTransiently, AnswerAtOnce, ReadEpoch,
         AnswerHeld
<1>4. ASSUME NEW c \in Calls, CheckPredicate(c) \/ Ceiling(c)
      PROVE inflight' = inflight /\ InHandler(k)' = InHandler(k)
  BY <1>4, SameHandler, ThreadsAreDistinct DEF CheckPredicate, Ceiling
<1>5. ASSUME NEW r \in Releases, ArriveRelease(r) \/ CountHeld(r) \/ Bump(r)
      PROVE inflight' = inflight /\ InHandler(k)' = InHandler(k)
  BY <1>5, SameHandler, ThreadsAreDistinct DEF ArriveRelease, CountHeld, Bump
<1>6. CASE UNCHANGED vars
  BY <1>6, SameHandler DEF vars
<1> QED
  BY <1>1, <1>2, <1>3, <1>4, <1>5, <1>6 DEF Next, Work, ReleaseWork, Finished

(* Epochs stay behind the counters they were read from.                    *)
LEMMA SeenStep == TypeOK /\ SeenIsPast /\ [Next]_vars => SeenIsPast'
<1> SUFFICES ASSUME TypeOK, SeenIsPast, [Next]_vars PROVE SeenIsPast'
  OBVIOUS
<1> USE DEF TypeOK, Goto, Reply, sharedVars, releaseLocals, Threads, PCs,
            Published, SeenIsPast, Key
<1>0. \A q \in Requests : q.key \in Keys
  BY RequestsAreRequests DEF Request
<1>1. ASSUME NEW c \in Calls, Accept(c) PROVE SeenIsPast'
  BY <1>1, ThreadsAreDistinct DEF Accept, Arrive, Reject
<1>2. ASSUME NEW c \in Calls,
             \/ Count(c) \/ FailPermanently(c) \/ FailTransiently(c)
             \/ AnswerAtOnce(c) \/ AnswerHeld(c)
      PROVE SeenIsPast'
  BY <1>2, ThreadsAreDistinct
     DEF Count, FailPermanently, FailTransiently, AnswerAtOnce, AnswerHeld
<1>3. ASSUME NEW c \in Calls, ReadEpoch(c) PROVE SeenIsPast'
  BY <1>0, <1>3, ThreadsAreDistinct DEF ReadEpoch
<1>4. ASSUME NEW c \in Calls, Publish(c) \/ Unpublish(c) PROVE SeenIsPast'
  BY <1>4, ThreadsAreDistinct DEF Publish, Unpublish
<1>5. ASSUME NEW c \in Calls, CheckPredicate(c) \/ Ceiling(c)
      PROVE SeenIsPast'
  BY <1>5, ThreadsAreDistinct DEF CheckPredicate, Ceiling
<1>6. ASSUME NEW r \in Releases, ArriveRelease(r) \/ CountHeld(r)
      PROVE SeenIsPast'
  BY <1>6, ThreadsAreDistinct DEF ArriveRelease, CountHeld
<1>7. ASSUME NEW r \in Releases, Bump(r) PROVE SeenIsPast'
  BY <1>0, <1>7, ThreadsAreDistinct DEF Bump
<1>8. CASE UNCHANGED vars
  BY <1>8 DEF vars
<1> QED
  BY <1>1, <1>2, <1>3, <1>4, <1>5, <1>6, <1>7, <1>8
     DEF Next, Work, ReleaseWork, Finished

(* No thread goes to sleep, or stays asleep, once it has been told.        *)
LEMMA SleeperStep ==
    TypeOK /\ NoSleeperIsTold /\ [Next]_vars => NoSleeperIsTold'
<1> SUFFICES ASSUME TypeOK, NoSleeperIsTold, [Next]_vars PROVE NoSleeperIsTold'
  OBVIOUS
<1> USE DEF TypeOK, Goto, Reply, sharedVars, releaseLocals, Threads, PCs,
            NoSleeperIsTold, Told, Key
<1>1. ASSUME NEW c \in Calls, Accept(c) PROVE NoSleeperIsTold'
  BY <1>1, ThreadsAreDistinct DEF Accept, Arrive, Reject
<1>2. ASSUME NEW c \in Calls,
             \/ Count(c) \/ FailPermanently(c) \/ FailTransiently(c)
             \/ AnswerAtOnce(c) \/ ReadEpoch(c) \/ AnswerHeld(c)
      PROVE NoSleeperIsTold'
  BY <1>2, ThreadsAreDistinct
     DEF Count, FailPermanently, FailTransiently, AnswerAtOnce, ReadEpoch,
         AnswerHeld
<1>3. ASSUME NEW c \in Calls, Publish(c) \/ Unpublish(c)
      PROVE NoSleeperIsTold'
  BY <1>3, ThreadsAreDistinct DEF Publish, Unpublish
<1>4. ASSUME NEW c \in Calls, CheckPredicate(c) \/ Ceiling(c)
      PROVE NoSleeperIsTold'
  BY <1>4, ThreadsAreDistinct DEF CheckPredicate, Ceiling
<1>5. ASSUME NEW r \in Releases, ArriveRelease(r) \/ CountHeld(r)
      PROVE NoSleeperIsTold'
  BY <1>5, ThreadsAreDistinct DEF ArriveRelease, CountHeld
<1>6. ASSUME NEW r \in Releases, Bump(r) PROVE NoSleeperIsTold'
  BY <1>6, ThreadsAreDistinct DEF Bump
<1>7. CASE UNCHANGED vars
  BY <1>7 DEF vars
<1> QED
  BY <1>1, <1>2, <1>3, <1>4, <1>5, <1>6, <1>7
     DEF Next, Work, ReleaseWork, Finished

(* What a release counted, it tells.                                       *)
LEMMA CountedStep ==
    TypeOK /\ InflightIsExact /\ SeenIsPast /\ CountedCalls /\ [Next]_vars
        => CountedCalls'
<1> SUFFICES ASSUME TypeOK, InflightIsExact, SeenIsPast, CountedCalls,
                    [Next]_vars,
                    NEW q \in Releases, pc'[q] \in {"bump", "done"}
             PROVE  /\ reported'[q] = Cardinality(heldSet'[q])
                    /\ \A d \in heldSet'[q] : Accounted(q, d)'
  BY DEF CountedCalls
<1> USE DEF TypeOK, Goto, Reply, sharedVars, releaseLocals, Threads, PCs,
            Published, Accounted, Told, Key
<1>0. (\A x \in Requests : x.key \in Keys) /\ heldSet[q] \subseteq Calls
  BY RequestsAreRequests DEF Request
\* The steps that leave this release's own reckoning alone.
<1> DEFINE Same == heldSet'[q] = heldSet[q] /\ reported'[q] = reported[q]
                   /\ pc[q] \in {"bump", "done"}
<1> HIDE DEF Same
<1>1. SUFFICES ASSUME ~ (CountHeld(q) \/ Bump(q))
               PROVE  Same /\ \A d \in heldSet[q] : Accounted(q, d)'
  <2>1. CASE CountHeld(q)
    <3>1. /\ reported'[q] = Cardinality(heldSet'[q])
          /\ \A d \in heldSet'[q] :
                d \in Calls /\ pc[d] \in Published /\ Key(d) = relKey[q]
      BY <2>1 DEF CountHeld, InHandler, InflightIsExact
    <3>2. \A d \in Calls : pc'[d] = pc[d] /\ Key(d)' = Key(d)
      BY <2>1, ThreadsAreDistinct DEF CountHeld
    <3>3. relKey' = relKey /\ pc'[q] = "bump"
      BY <2>1 DEF CountHeld
    <3> QED
      BY <3>1, <3>2, <3>3
  <2>2. CASE Bump(q)
    <3>1. heldSet' = heldSet /\ reported' = reported /\ relKey' = relKey
          /\ body' = body /\ seen' = seen
      BY <2>2 DEF Bump
    <3>2. /\ reported[q] = Cardinality(heldSet[q])
          /\ \A d \in heldSet[q] : Accounted(q, d)
      BY <2>2 DEF Bump, CountedCalls
    <3>3. ASSUME NEW d \in heldSet[q] PROVE Accounted(q, d)'
      <4>1. /\ d \in Calls /\ Key(d) = relKey[q]
            /\ pc[d] \in Published \cup {"answer", "done"}
        BY <1>0, <3>2
      <4>2. pc'[d] \in Published \cup {"answer", "done"}
            /\ (pc'[d] \in Published => pc[d] \in Published)
        BY <2>2, <4>1, ThreadsAreDistinct DEF Bump
      <4>3. pc[d] \in Published => released'[Key(d)] > seen[d]
        <5>1. pc[d] \in Published => seen[d] <= released[Key(d)]
          BY <4>1 DEF SeenIsPast
        <5>2. released'[Key(d)] = released[Key(d)] + 1
          BY <2>2, <4>1 DEF Bump
        <5>3. released[Key(d)] \in Nat /\ seen[d] \in Nat
          BY <4>1
        <5> QED
          BY <5>1, <5>2, <5>3
      <4> QED
        BY <3>1, <4>1, <4>2, <4>3
    <3> QED
      BY <3>1, <3>2, <3>3
  <2> QED
    BY <1>1, <2>1, <2>2 DEF Same, CountedCalls
<1>2. ASSUME Same, relKey'[q] = relKey[q], pc'[q] = pc[q],
             \A d \in Calls : pc[d] \in Published \cup {"answer", "done"} =>
                /\ pc'[d] \in Published \cup {"answer", "done"}
                /\ pc'[d] \in Published => pc[d] \in Published
                /\ Key(d)' = Key(d)
                /\ seen'[d] = seen[d]
                /\ Told(d) => Told(d)'
      PROVE Same /\ \A d \in heldSet[q] : Accounted(q, d)'
  <2>1. \A d \in heldSet[q] : d \in Calls /\ Accounted(q, d)
    BY <1>0, <1>2 DEF CountedCalls, Same
  <2> QED
    BY <1>2, <2>1
<1>3. ASSUME NEW c \in Calls, Accept(c) \/ Work(c) \/ Ceiling(c)
      PROVE Same /\ \A d \in heldSet[q] : Accounted(q, d)'
  <2>1. /\ heldSet' = heldSet /\ reported' = reported /\ relKey' = relKey
        /\ released' = released
    BY <1>3 DEF Accept, Arrive, Reject, Work, Count, FailPermanently,
                FailTransiently, AnswerAtOnce, ReadEpoch, Publish,
                CheckPredicate, Unpublish, AnswerHeld, Ceiling
  <2>2. pc'[q] = pc[q] /\ \A d \in Calls \ {c} :
            pc'[d] = pc[d] /\ body'[d] = body[d] /\ seen'[d] = seen[d]
    <3>1. q # c
      BY ThreadsAreDistinct
    <3> QED
      BY <1>3, <3>1 DEF Accept, Arrive, Reject, Work, Count, FailPermanently,
                FailTransiently, AnswerAtOnce, ReadEpoch, Publish,
                CheckPredicate, Unpublish, AnswerHeld, Ceiling
  <2>3. pc[c] \in Published \cup {"answer", "done"} =>
            /\ pc'[c] \in Published \cup {"answer", "done"}
            /\ pc'[c] \in Published => pc[c] \in Published
            /\ body'[c] = body[c] /\ seen'[c] = seen[c]
    BY <1>3 DEF Accept, Arrive, Reject, Work, Count, FailPermanently,
                FailTransiently, AnswerAtOnce, ReadEpoch, Publish,
                CheckPredicate, Unpublish, AnswerHeld, Ceiling
  <2> QED
    BY <1>2, <2>1, <2>2, <2>3 DEF Same
<1>4. ASSUME NEW r \in Releases, r # q, CountHeld(r) \/ Bump(r)
      PROVE Same /\ \A d \in heldSet[q] : Accounted(q, d)'
  <2>1. /\ heldSet'[q] = heldSet[q] /\ reported'[q] = reported[q]
        /\ relKey' = relKey /\ pc'[q] = pc[q] /\ body' = body /\ seen' = seen
    BY <1>4 DEF CountHeld, Bump
  <2>2. \A d \in Calls : pc[d] \in Published \cup {"answer", "done"} =>
            /\ pc'[d] \in Published \cup {"answer", "done"}
            /\ pc'[d] \in Published => pc[d] \in Published
    BY <1>4, ThreadsAreDistinct DEF CountHeld, Bump
  <2>3. \A k \in Keys : released[k] \in Nat /\ released'[k] \in Nat
                        /\ released'[k] >= released[k]
    <3>1. CASE CountHeld(r)
      BY <3>1 DEF CountHeld
    <3>2. CASE Bump(r)
      <4>1. released' = [released EXCEPT ![relKey[r]] = released[relKey[r]] + 1]
        BY <3>2 DEF Bump
      <4>2. \A k \in Keys : released[k] \in Nat
                /\ released'[k] \in {released[k], released[k] + 1}
        BY <4>1
      <4>3. ASSUME NEW n \in Nat, NEW p \in {n, n + 1}
            PROVE  p \in Nat /\ p >= n
        OBVIOUS
      <4> QED
        BY <4>2, <4>3
    <3> QED
      BY <1>4, <3>1, <3>2
  <2>4. ASSUME NEW d \in Calls, Told(d) PROVE Told(d)'
    <3>1. Key(d) \in Keys /\ Key(d)' = Key(d) /\ seen'[d] = seen[d]
          /\ seen[d] \in Nat
      BY <1>0, <2>1
    <3>2. /\ released[Key(d)] \in Nat /\ released'[Key(d)] \in Nat
          /\ released'[Key(d)] >= released[Key(d)]
      BY <2>3, <3>1
    <3>3. released'[Key(d)] > seen[d]
      BY <2>4, <3>1, <3>2
    <3> QED
      BY <3>1, <3>3
  <2> QED
    BY <1>2, <2>1, <2>2, <2>4 DEF Same
<1>5. ASSUME NEW r \in Releases, ArriveRelease(r)
      PROVE Same /\ \A d \in heldSet[q] : Accounted(q, d)'
  <2>1. r # q
    BY <1>5 DEF ArriveRelease
  <2> QED
    BY <1>2, <1>5, <2>1, ThreadsAreDistinct DEF ArriveRelease, Same
<1>6. CASE UNCHANGED vars
  BY <1>2, <1>6 DEF vars, Same
<1> QED
  BY <1>1, <1>3, <1>4, <1>5, <1>6 DEF Next, ReleaseWork, Finished
-----------------------------------------------------------------------------
(* The inductive invariant holds throughout.                               *)
LEMMA Induction == Spec => []IInv
<1>1. IInv /\ [Next]_vars => IInv'
  BY TypeStep, InflightStep, SeenStep, SleeperStep, CountedStep DEF IInv
<1> QED
  BY <1>1, InitIInv, PTL DEF Spec

(* Type correctness, which includes that GET /inflight is never negative.  *)
THEOREM TypeCorrectness == Spec => []TypeOK
BY Induction, PTL DEF IInv

(* GET /inflight is always the number of calls in the handler.             *)
THEOREM InflightExactness == Spec => []InflightIsExact
BY Induction, PTL DEF IInv

(* No wake-up is lost, whatever the number of waiters and releases.        *)
THEOREM NoLostWakeUp == Spec => []NoSleeperIsTold
BY Induction, PTL DEF IInv

(* A release that has answered has ended every hold it counted.            *)
THEOREM ReleaseIsComplete == Spec => []ReleaseReachesEveryHold
<1>1. IInv => ReleaseReachesEveryHold
  BY DEF IInv, CountedCalls, Accounted, ReleaseReachesEveryHold
<1> QED
  BY <1>1, Induction, PTL
-----------------------------------------------------------------------------
(* The refinement: the locked sections of the handlers implement HoldGate. *)
Phase == [c \in Calls |-> PhaseOf(c)]
Under == [c \in Calls |-> Key(c)]
ToldSet == {c \in Calls : pc[c] \in Published \cup {"epoch"} /\ Told(c)}
Over == {r \in Releases : pc[r] = "done"}

(* Which phase each program location stands for.                           *)
LEMMA PhaseTable ==
    ASSUME NEW c \in Calls
    PROVE  /\ pc[c] = "idle" => PhaseOf(c) = "out"
           /\ pc[c] \in {"accepted", "counted", "epoch"} => PhaseOf(c) = "coming"
           /\ pc[c] \in Published => PhaseOf(c) = "held"
           /\ pc[c] \in {"answer", "done"} =>
                 PhaseOf(c) = IF status[c] = "malformed" THEN "out" ELSE "left"
BY DEF PhaseOf, Published

(* The same table in the next state.                                       *)
LEMMA PhaseTableNext ==
    ASSUME NEW c \in Calls
    PROVE  /\ pc'[c] = "idle" => PhaseOf(c)' = "out"
           /\ pc'[c] \in {"accepted", "counted", "epoch"}
                 => PhaseOf(c)' = "coming"
           /\ pc'[c] \in Published => PhaseOf(c)' = "held"
           /\ pc'[c] \in {"answer", "done"} =>
                 PhaseOf(c)' = IF status'[c] = "malformed" THEN "out" ELSE "left"
BY DEF PhaseOf, Published

LEMMA InitRefines == Init => Gate!HInit
<1> SUFFICES ASSUME Init PROVE Gate!HInit
  OBVIOUS
<1>1. Phase = [c \in Calls |-> "out"]
  BY PhaseTable DEF Init, Phase, Threads
<1>2. (CHOOSE q \in Requests : TRUE).key \in Keys
  BY SomeRequest, RequestsAreRequests DEF Request
<1>3. Under \in [Calls -> Keys]
  BY <1>2 DEF Init, Under, Key
<1>4. ToldSet = {}
  BY DEF Init, ToldSet, Published, Threads
<1>5. Over = {}
  BY DEF Init, Over, Threads
<1> QED
  BY <1>1, <1>3, <1>4, <1>5 DEF Gate!HInit, Phase, Under, ToldSet, Over

(* A call that has not been answered has not been turned away either.      *)
LEMMA StatusStep ==
    TypeOK /\ (\A c \in Calls : pc[c] # "done" => status[c] = "none")
    /\ [Next]_vars => (\A c \in Calls : pc'[c] # "done" => status'[c] = "none")
<1> SUFFICES ASSUME TypeOK, [Next]_vars,
                    \A c \in Calls : pc[c] # "done" => status[c] = "none",
                    NEW d \in Calls, pc'[d] # "done"
             PROVE  status'[d] = "none"
  OBVIOUS
<1> USE DEF TypeOK, Goto, Reply, Threads
<1>1. ASSUME NEW c \in Calls, Accept(c) \/ Work(c) \/ Ceiling(c)
      PROVE status'[d] = "none"
  BY <1>1, ThreadsAreDistinct DEF Accept, Arrive, Reject, Work, Count,
     FailPermanently, FailTransiently, AnswerAtOnce, ReadEpoch, Publish,
     CheckPredicate, Unpublish, AnswerHeld, Ceiling
<1>2. ASSUME NEW r \in Releases, ArriveRelease(r) \/ ReleaseWork(r)
      PROVE status'[d] = "none"
  BY <1>2, ThreadsAreDistinct DEF ArriveRelease, ReleaseWork, CountHeld, Bump
<1>3. CASE UNCHANGED vars
  BY <1>3 DEF vars
<1> QED
  BY <1>1, <1>2, <1>3 DEF Next, Finished

(* Every step of the handlers is a step of the gate or leaves it alone.    *)
LEMMA StepRefines ==
    /\ TypeOK /\ TypeOK' /\ SeenIsPast
    /\ \A c \in Calls : pc[c] # "done" => status[c] = "none"
    /\ [Next]_vars
    => [Gate!HNext]_(Gate!hvars)
<1> SUFFICES ASSUME TypeOK, TypeOK', SeenIsPast, [Next]_vars,
                    \A c \in Calls : pc[c] # "done" => status[c] = "none"
             PROVE  Gate!HNext \/ (Phase' = Phase /\ Under' = Under
                                   /\ ToldSet' = ToldSet /\ Over' = Over)
  BY DEF Gate!hvars, Phase, Under, ToldSet, Over
<1> USE DEF TypeOK, Goto, Reply, sharedVars, releaseLocals, Threads, PCs
<1> DEFINE Stutter == /\ Phase' = Phase /\ Under' = Under
                      /\ ToldSet' = ToldSet /\ Over' = Over
<1>0. \A x \in Requests : x.key \in Keys
  BY RequestsAreRequests DEF Request
\* No step of a call ends a release.
<1>o. ASSUME NEW c \in Calls, Accept(c) \/ Work(c) \/ Ceiling(c)
      PROVE Over' = Over
  <2>1. PICK to : pc' = [pc EXCEPT ![c] = to]
    BY <1>o DEF Accept, Arrive, Reject, Work, Count, FailPermanently,
           FailTransiently, AnswerAtOnce, ReadEpoch, Publish, CheckPredicate,
           Unpublish, AnswerHeld, Ceiling
  <2>2. \A r \in Releases : pc'[r] = pc[r]
    BY <2>1, ThreadsAreDistinct
  <2> QED
    BY <2>2 DEF Over
\* Two shapes cover the steps of one call.
<1>a. ASSUME NEW c \in Calls, NEW p, PhaseOf(c)' = p, body' = body,
             \A d \in Calls \ {c} : pc'[d] = pc[d] /\ status'[d] = status[d]
      PROVE Phase' = [Phase EXCEPT ![c] = p] /\ Under' = Under
  <2>1. \A d \in Calls \ {c} : PhaseOf(d)' = PhaseOf(d)
    BY <1>a DEF PhaseOf
  <2>2. \A d \in Calls : PhaseOf(d)' = IF d = c THEN p ELSE PhaseOf(d)
    BY <1>a, <2>1
  <2>3. Phase' = [Phase EXCEPT ![c] = p]
    BY <2>2 DEF Phase
  <2>4. Under' = Under
    BY <1>a DEF Under, Key
  <2> QED
    BY <2>3, <2>4
<1>s. ASSUME NEW c \in Calls, PhaseOf(c)' = PhaseOf(c), body' = body,
             \A d \in Calls \ {c} : pc'[d] = pc[d] /\ status'[d] = status[d]
      PROVE Phase' = Phase /\ Under' = Under
  <2>1. \A d \in Calls \ {c} : PhaseOf(d)' = PhaseOf(d)
    BY <1>s DEF PhaseOf
  <2>2. \A d \in Calls : PhaseOf(d)' = PhaseOf(d)
    BY <1>s, <2>1
  <2> QED
    BY <1>s, <2>2 DEF Phase, Under, Key
<1>b. ASSUME NEW c \in Calls, released' = released, body' = body,
             \A d \in Calls \ {c} : pc'[d] = pc[d] /\ seen'[d] = seen[d]
      PROVE ToldSet' \ {c} = ToldSet \ {c}
  BY <1>b DEF ToldSet, Told, Key
<1>1. ASSUME NEW c \in Calls, Arrive(c) PROVE Gate!HNext
  <2>1. PICK q \in Requests : body' = [body EXCEPT ![c] = q]
    BY <1>1 DEF Arrive
  <2>2. Phase[c] = "out" /\ PhaseOf(c)' = "coming"
    BY <1>1, PhaseTable, PhaseTableNext, ThreadsAreDistinct DEF Arrive, Phase
  <2>3. Phase' = [Phase EXCEPT ![c] = "coming"]
    <3>1. \A d \in Calls \ {c} : PhaseOf(d)' = PhaseOf(d)
      BY <1>1, ThreadsAreDistinct DEF Arrive, PhaseOf
    <3> QED
      BY <2>2, <3>1 DEF Phase
  <2>4. Under' = [Under EXCEPT ![c] = q.key] /\ q.key \in Keys
    BY <1>0, <2>1 DEF Under, Key
  <2>5. ToldSet' = ToldSet
    BY <1>1, <2>1, ThreadsAreDistinct DEF Arrive, ToldSet, Told, Key, Published
  <2>6. Gate!Come(c)
    BY <1>1, <1>o, <2>2, <2>3, <2>4, <2>5
       DEF Accept, Gate!Come, Phase, Under, ToldSet, Over
  <2> QED
    BY <2>6 DEF Gate!HNext
<1>2. ASSUME NEW c \in Calls, Reject(c) PROVE Stutter
  <2>1. PhaseOf(c) = "out" /\ PhaseOf(c)' = "out"
    BY <1>2, ThreadsAreDistinct DEF Reject, PhaseOf, Published
  <2>2. \A d \in Calls \ {c} : pc'[d] = pc[d] /\ status'[d] = status[d]
    BY <1>2, ThreadsAreDistinct DEF Reject
  <2>3. Phase' = Phase /\ Under' = Under
    BY <1>2, <2>1, <2>2, <1>s DEF Reject
  <2>4. ToldSet' = ToldSet
    BY <1>2, <2>2, <1>b DEF Reject, ToldSet, Published
  <2> QED
    BY <1>2, <1>o, <2>3, <2>4 DEF Accept
<1>3. ASSUME NEW c \in Calls, Count(c) PROVE Stutter
  <2>1. PhaseOf(c) = "coming" /\ PhaseOf(c)' = "coming"
    BY <1>3, PhaseTable, PhaseTableNext, ThreadsAreDistinct DEF Count
  <2>2. Phase' = Phase /\ Under' = Under
    BY <1>3, <2>1, <1>s, ThreadsAreDistinct DEF Count
  <2>3. ToldSet' = ToldSet
    BY <1>3, ThreadsAreDistinct DEF Count, ToldSet, Told, Key, Published
  <2> QED
    BY <1>3, <1>o, <2>2, <2>3 DEF Work
<1>4. ASSUME NEW c \in Calls,
             FailPermanently(c) \/ FailTransiently(c) \/ AnswerAtOnce(c)
      PROVE Gate!HNext
  <2>1. Phase[c] = "coming" /\ PhaseOf(c)' = "left"
    BY <1>4, ThreadsAreDistinct
       DEF FailPermanently, FailTransiently, AnswerAtOnce, Phase, PhaseOf,
           Published
  <2>a. PICK v : status' = [status EXCEPT ![c] = v]
    BY <1>4 DEF FailPermanently, FailTransiently, AnswerAtOnce
  <2>b. /\ pc' = [pc EXCEPT ![c] = "done"]
        /\ body' = body /\ seen' = seen /\ released' = released
    BY <1>4 DEF FailPermanently, FailTransiently, AnswerAtOnce
  <2>2. /\ \A d \in Calls \ {c} : pc'[d] = pc[d] /\ status'[d] = status[d]
        /\ body' = body /\ seen' = seen /\ released' = released
    BY <2>a, <2>b
  <2>3. Phase' = [Phase EXCEPT ![c] = "left"] /\ Under' = Under
    BY <2>1, <2>2, <1>a
  <2>4. ToldSet' = ToldSet \ {c}
    <3>1. ToldSet' \ {c} = ToldSet \ {c}
      BY <2>2, <2>b, <1>b
    <3>2. c \notin ToldSet'
      BY <2>b DEF ToldSet, Published
    <3> QED
      BY <3>1, <3>2
  <2>5. Gate!Leave(c)
    BY <1>4, <1>o, <2>1, <2>3, <2>4
       DEF Work, Gate!Leave, Phase, Under, ToldSet, Over
  <2> QED
    BY <2>5 DEF Gate!HNext
<1>5. ASSUME NEW c \in Calls, ReadEpoch(c) PROVE Stutter
  <2>1. Phase' = Phase /\ Under' = Under
    <3>1. PhaseOf(c) = "coming" /\ PhaseOf(c)' = "coming"
      BY <1>5, PhaseTable, PhaseTableNext, ThreadsAreDistinct DEF ReadEpoch
    <3> QED
      BY <1>5, <3>1, <1>s, ThreadsAreDistinct DEF ReadEpoch
  <2>2. c \notin ToldSet /\ c \notin ToldSet'
    <3>1. seen'[c] = released'[Key(c)'] /\ seen'[c] \in Nat
      BY <1>5 DEF ReadEpoch, Key
    <3> QED
      BY <1>5, <3>1 DEF ReadEpoch, ToldSet, Told, Published
  <2>3. ToldSet' = ToldSet
    <3>1. ToldSet' \ {c} = ToldSet \ {c}
      BY <1>5, <1>b, ThreadsAreDistinct DEF ReadEpoch
    <3>2. ASSUME NEW d PROVE d \in ToldSet' <=> d \in ToldSet
      <4>1. CASE d = c
        BY <2>2, <4>1
      <4>2. CASE d # c
        BY <3>1, <4>2
      <4> QED
        BY <4>1, <4>2
    <3> QED
      BY <3>2
  <2> QED
    BY <1>5, <1>o, <2>1, <2>3 DEF Work
<1>6. ASSUME NEW c \in Calls, Publish(c) PROVE Gate!HNext
  <2>1. Phase[c] = "coming" /\ PhaseOf(c)' = "held"
    BY <1>6, ThreadsAreDistinct DEF Publish, Phase, PhaseOf, Published
  <2>2. Phase' = [Phase EXCEPT ![c] = "held"] /\ Under' = Under
    BY <1>6, <2>1, <1>a, ThreadsAreDistinct DEF Publish
  <2>3. ToldSet' = ToldSet
    BY <1>6, ThreadsAreDistinct DEF Publish, ToldSet, Told, Key, Published
  <2>4. Gate!Enter(c)
    BY <1>6, <1>o, <2>1, <2>2, <2>3
       DEF Work, Gate!Enter, Phase, Under, ToldSet, Over
  <2> QED
    BY <2>4 DEF Gate!HNext
<1>7. ASSUME NEW c \in Calls, CheckPredicate(c) \/ Ceiling(c) PROVE Stutter
  BY <1>7, <1>o, ThreadsAreDistinct
     DEF Work, CheckPredicate, Ceiling, Phase, Under, ToldSet, PhaseOf, Key, Told,
         Published
<1>8. ASSUME NEW c \in Calls, Unpublish(c) PROVE Gate!HNext
  <2>1. Phase[c] = "held" /\ PhaseOf(c)' = "left"
    BY <1>8, ThreadsAreDistinct DEF Unpublish, Phase, PhaseOf, Published
  <2>2. Phase' = [Phase EXCEPT ![c] = "left"] /\ Under' = Under
    BY <1>8, <2>1, <1>a, ThreadsAreDistinct DEF Unpublish
  <2>3. ToldSet' = ToldSet \ {c}
    BY <1>8, ThreadsAreDistinct DEF Unpublish, ToldSet, Told, Key, Published
  <2>4. Gate!Leave(c)
    BY <1>8, <1>o, <2>1, <2>2, <2>3
       DEF Work, Gate!Leave, Phase, Under, ToldSet, Over
  <2> QED
    BY <2>4 DEF Gate!HNext
<1>9. ASSUME NEW c \in Calls, AnswerHeld(c) PROVE Stutter
  <2>1. PhaseOf(c) = "left" /\ PhaseOf(c)' = "left"
    BY <1>9, ThreadsAreDistinct DEF AnswerHeld, PhaseOf, Published
  <2>2. Phase' = Phase /\ Under' = Under
    BY <1>9, <2>1, <1>s, ThreadsAreDistinct DEF AnswerHeld
  <2>3. ToldSet' = ToldSet
    BY <1>9, ThreadsAreDistinct DEF AnswerHeld, ToldSet, Told, Key, Published
  <2> QED
    BY <1>9, <1>o, <2>2, <2>3 DEF Work
<1>10. ASSUME NEW r \in Releases, ArriveRelease(r) \/ CountHeld(r)
       PROVE Stutter
  BY <1>10, ThreadsAreDistinct
     DEF ArriveRelease, CountHeld, Phase, Under, ToldSet, Over, PhaseOf, Key,
         Told, Published
<1>11. ASSUME NEW r \in Releases, Bump(r) PROVE Gate!HNext
  <2>1. PICK k \in Keys : k = relKey[r]
    OBVIOUS
  <2> DEFINE held == {c \in Calls : Phase[c] = "held" /\ Under[c] = k}
             reached == {c \in Calls : pc[c] = "epoch" /\ Under[c] = k}
  <2>2. Phase' = Phase /\ Under' = Under
    BY <1>11, ThreadsAreDistinct DEF Bump, Phase, Under, PhaseOf, Key, Published
  <2>3. held = {c \in Calls : pc[c] \in Published /\ Key(c) = k}
    BY PhaseTable DEF Phase, Under, PhaseOf, Published
  <2>4. reached \in SUBSET {c \in Calls : Phase[c] = "coming" /\ Under[c] = k}
    BY PhaseTable DEF Phase
  <2>5. ToldSet' = ToldSet \cup held \cup reached
    <3>1. \A c \in Calls :
             (pc'[c] \in Published \cup {"epoch"})
                 <=> (pc[c] \in Published \cup {"epoch"})
      BY <1>11, ThreadsAreDistinct DEF Bump, Published
    <3>2. ASSUME NEW c \in Calls, pc[c] \in Published \cup {"epoch"}
          PROVE Told(c)' <=> (Told(c) \/ Key(c) = k)
      <4>1. body' = body /\ seen' = seen /\ Key(c) \in Keys
            /\ seen[c] \in Nat /\ released[Key(c)] \in Nat
        BY <1>0, <1>11 DEF Bump, Key
      <4>2. released'[Key(c)] = IF Key(c) = k THEN released[Key(c)] + 1
                                              ELSE released[Key(c)]
        BY <1>11, <2>1, <4>1 DEF Bump
      <4>3. seen[c] <= released[Key(c)]
        BY <3>2 DEF SeenIsPast
      <4>4. CASE Key(c) = k
        <5>1. released'[Key(c)] > seen[c]
          BY <4>1, <4>2, <4>3, <4>4
        <5> QED
          BY <4>1, <4>4, <5>1 DEF Told, Key
      <4>5. CASE Key(c) # k
        BY <4>1, <4>2, <4>5 DEF Told, Key
      <4> QED
        BY <4>4, <4>5
    <3>3. ASSUME NEW c \in Calls
          PROVE c \in ToldSet' <=> c \in ToldSet \cup held \cup reached
      BY <2>3, <3>1, <3>2 DEF ToldSet, Under
    <3> QED
      BY <3>3 DEF ToldSet
  <2>6. r \notin Over /\ Over' = Over \cup {r}
    <3>1. pc[r] = "bump"
      BY <1>11 DEF Bump
    <3>2. ASSUME NEW q \in Releases
          PROVE q \in Over' <=> q \in Over \cup {r}
      <4>1. pc'[q] = IF q = r THEN "done"
                     ELSE IF pc[q] = "parked" THEN "woken" ELSE pc[q]
        BY <1>11 DEF Bump
      <4> QED
        BY <4>1 DEF Over
    <3>3. Over' \subseteq Releases /\ Over \cup {r} \subseteq Releases
      BY DEF Over
    <3>4. Over' = Over \cup {r}
      BY <3>2, <3>3
    <3>5. r \notin Over
      BY <3>1 DEF Over
    <3> QED
      BY <3>4, <3>5
  <2>7. Gate!Release(r, k)
    BY <2>2, <2>4, <2>5, <2>6
       DEF Gate!Release, Gate!At, Phase, Under, ToldSet, Over
  <2> QED
    BY <2>7 DEF Gate!HNext
<1>12. CASE UNCHANGED vars
  BY <1>12 DEF vars, Phase, Under, ToldSet, Over, PhaseOf, Key, Told
<1> QED
  BY <1>1, <1>2, <1>3, <1>4, <1>5, <1>6, <1>7, <1>8, <1>9, <1>10, <1>11,
     <1>12 DEF Next, Accept, Work, ReleaseWork, Finished

(* fixture-service.py implements the gate the tests rely on: a release     *)
(* tells every call GET /inflight could have shown, and only a release that*)
(* comes after a call does tell it.                                        *)
THEOREM GateIsImplemented == Spec => ImplementsHoldGate
<1> DEFINE Unanswered == \A c \in Calls : pc[c] # "done" => status[c] = "none"
<1>1. Init => Unanswered
  BY DEF Init
<1>2. TypeOK /\ Unanswered /\ [Next]_vars => Unanswered'
  BY StatusStep
<1>3. Spec => []Unanswered
  <2> HIDE DEF Unanswered
  <2> QED
    BY <1>1, <1>2, TypeCorrectness, PTL DEF Spec
<1>4. Spec => []SeenIsPast
  BY Induction, PTL DEF IInv
<1>5. TypeOK /\ TypeOK' /\ SeenIsPast /\ Unanswered /\ [Next]_vars
        => [Gate!HNext]_(Gate!hvars)
  BY StepRefines
<1> HIDE DEF Unanswered
<1> QED
  BY <1>3, <1>4, <1>5, InitRefines, TypeCorrectness, PTL
     DEF Spec, ImplementsHoldGate, Gate!HSpec
-----------------------------------------------------------------------------
(***************************************************************************)
(* The accounts.                                                           *)
(*                                                                         *)
(* They are right for any number of calls, releases and keys: the attempt  *)
(* numbers and the ordered log agree, fail_times is never overspent, and   *)
(* the peak is the peak.                                                   *)
(***************************************************************************)
\* The log of a key is as long as its count.
LogIsCounted == \A k \in Keys : Len(log[k]) = counts[k]

\* A call has no number until it is counted, and has one then.
NumberedWhenCounted ==
    \A c \in Calls : /\ pc[c] \in {"idle", "accepted"} => attempts[c] = 0
                     /\ pc[c] = "counted" => attempts[c] > 0

\* A number is a place in the log, where the call's operation is.
NumberIsAPlace ==
    \A c \in Calls : attempts[c] > 0 =>
        attempts[c] <= counts[Key(c)] /\ log[Key(c)][attempts[c]] = body[c].op

NumbersDiffer ==
    \A c, d \in Calls :
        attempts[c] > 0 /\ attempts[d] > 0 /\ Key(c) = Key(d) /\ c # d
            => attempts[c] # attempts[d]

\* Only the first fail_times calls of a key fail transiently.
TransientIsEarly ==
    \A c \in Calls : status[c] = "transient" =>
        attempts[c] > 0 /\ attempts[c] <= body[c].failTimes

AInv == LogIsCounted /\ NumberedWhenCounted /\ NumberIsAPlace /\ NumbersDiffer
        /\ TransientIsEarly
-----------------------------------------------------------------------------
LEMMA KeysAndOps ==
    ASSUME TypeOK, NEW c \in Calls
    PROVE  Key(c) \in Keys /\ body[c].op \in Ops /\ body[c].failTimes \in Nat
BY RequestsAreRequests DEF TypeOK, Request, Key

(* The step of the lock section that counts a call: it takes the next      *)
(* number, which nobody has, and the next place in the log.                *)
LEMMA CountAccounts ==
    ASSUME TypeOK, AInv, NEW c \in Calls, Count(c)
    PROVE  AInv'
<1> DEFINE k == Key(c)
           n == counts[k] + 1
<1>1. k \in Keys /\ body[c].op \in Ops
  BY KeysAndOps
<1>2. counts[k] \in Nat /\ log[k] \in Seq(Ops) /\ n \in Nat /\ n > 0
  BY <1>1 DEF TypeOK
<1>3. /\ pc[c] = "accepted" /\ pc' = [pc EXCEPT ![c] = "counted"]
      /\ counts' = [counts EXCEPT ![k] = n]
      /\ attempts' = [attempts EXCEPT ![c] = n]
      /\ log' = [log EXCEPT ![k] = Append(@, body[c].op)]
      /\ UNCHANGED <<body, status>>
  BY DEF Count, Goto
<1>4. Len(log[k]) = counts[k]
  BY <1>1 DEF AInv, LogIsCounted
<1>5. /\ Len(Append(log[k], body[c].op)) = n
      /\ Append(log[k], body[c].op)[n] = body[c].op
      /\ \A i \in 1..counts[k] : Append(log[k], body[c].op)[i] = log[k][i]
  BY <1>1, <1>2, <1>4
<1>6. \A j \in Keys : /\ j # k => counts'[j] = counts[j] /\ log'[j] = log[j]
                      /\ j = k => counts'[j] = n /\ log'[j] = Append(log[k], body[c].op)
  BY <1>3 DEF TypeOK
<1>7. \A d \in Calls : /\ Key(d)' = Key(d) /\ body'[d] = body[d] /\ status'[d] = status[d]
                       /\ d # c => attempts'[d] = attempts[d] /\ pc'[d] = pc[d]
                       /\ d = c => attempts'[d] = n /\ pc'[d] = "counted"
  BY <1>3 DEF TypeOK, Key, Threads
<1>8. attempts[c] = 0
  BY <1>3 DEF AInv, NumberedWhenCounted
<1>9. \A d \in Calls : attempts[d] \in Nat /\ Key(d) \in Keys
  BY KeysAndOps DEF TypeOK
<1>10. LogIsCounted'
  BY <1>5, <1>6 DEF AInv, LogIsCounted
<1>11. NumberedWhenCounted'
  BY <1>2, <1>7 DEF AInv, NumberedWhenCounted
<1>12. NumberIsAPlace'
  <2> SUFFICES ASSUME NEW d \in Calls, attempts'[d] > 0
               PROVE  attempts'[d] <= counts'[Key(d)'] /\ log'[Key(d)'][attempts'[d]] = body'[d].op
    BY DEF NumberIsAPlace
  <2>1. CASE d = c
    BY <2>1, <1>1, <1>2, <1>5, <1>6, <1>7
  <2>2. CASE d # c /\ Key(d) # k
    BY <2>2, <1>6, <1>7, <1>9 DEF AInv, NumberIsAPlace
  <2>3. CASE d # c /\ Key(d) = k
    <3>1. attempts[d] > 0 /\ attempts[d] <= counts[k] /\ log[k][attempts[d]] = body[d].op
      BY <2>3, <1>7 DEF AInv, NumberIsAPlace
    <3>2. attempts[d] \in 1..counts[k]
      BY <3>1, <1>2, <1>9
    <3>3. attempts'[d] = attempts[d] /\ Key(d)' = k /\ counts'[k] = n
          /\ log'[k] = Append(log[k], body[c].op) /\ body'[d] = body[d]
      BY <2>3, <1>1, <1>6, <1>7
    <3> QED
      BY <3>1, <3>2, <3>3, <1>2, <1>5
  <2> QED
    BY <2>1, <2>2, <2>3
<1>13. NumbersDiffer'
  <2> SUFFICES ASSUME NEW d \in Calls, NEW e \in Calls, d # e,
                      attempts'[d] > 0, attempts'[e] > 0, Key(d)' = Key(e)'
               PROVE  attempts'[d] # attempts'[e]
    BY DEF NumbersDiffer
  <2>1. CASE d # c /\ e # c
    BY <2>1, <1>7 DEF AInv, NumbersDiffer
  <2>2. ASSUME NEW x \in Calls, x # c, Key(x) = k, attempts[x] > 0
        PROVE  attempts[x] < n
    BY <2>2, <1>2, <1>9 DEF AInv, NumberIsAPlace
  <2>3. CASE d = c
    BY <2>2, <2>3, <1>2, <1>7, <1>9
  <2>4. CASE e = c
    BY <2>2, <2>4, <1>2, <1>7, <1>9
  <2> QED
    BY <2>1, <2>3, <2>4
<1>14. TransientIsEarly'
  BY <1>3, <1>7, <1>8 DEF AInv, TransientIsEarly
<1> QED
  BY <1>10, <1>11, <1>12, <1>13, <1>14 DEF AInv

(* Any other step leaves the numbers, the log and the body of a numbered   *)
(* call alone.                                                             *)
LEMMA AccountsStand ==
    ASSUME TypeOK, AInv, UNCHANGED <<counts, log, attempts>>,
           \A c \in Calls : /\ attempts[c] > 0 => body'[c] = body[c]
                            /\ pc'[c] \in {"idle", "accepted"} => pc[c] \in {"idle", "accepted"}
                            /\ pc'[c] = "counted" => pc[c] = "counted"
                            /\ status'[c] = "transient" =>
                                  \/ status[c] = "transient"
                                  \/ attempts[c] > 0 /\ attempts[c] <= body[c].failTimes
    PROVE  AInv'
<1>1. LogIsCounted'
  BY DEF AInv, LogIsCounted
<1>2. NumberedWhenCounted'
  BY DEF AInv, NumberedWhenCounted
<1>3. NumberIsAPlace'
  BY DEF AInv, NumberIsAPlace, Key
<1>4. NumbersDiffer'
  BY DEF AInv, NumbersDiffer, Key
<1>5. TransientIsEarly'
  BY DEF AInv, TransientIsEarly
<1> QED
  BY <1>1, <1>2, <1>3, <1>4, <1>5 DEF AInv

LEMMA InitAInv == Init => AInv
<1> SUFFICES ASSUME Init PROVE AInv
  OBVIOUS
<1>1. \A k \in Keys : Len(log[k]) = 0 /\ counts[k] = 0
  BY DEF Init
<1>2. \A c \in Calls : attempts[c] = 0 /\ status[c] = "none" /\ pc[c] = "idle"
  BY DEF Init, Threads
<1> QED
  BY <1>1, <1>2 DEF AInv, LogIsCounted, NumberedWhenCounted, NumberIsAPlace, NumbersDiffer,
                    TransientIsEarly

LEMMA AccountsStep == TypeOK /\ AInv /\ [Next]_vars => AInv'
<1> SUFFICES ASSUME TypeOK, AInv, [Next]_vars PROVE AInv'
  OBVIOUS
<1> USE DEF Goto, Reply, sharedVars, releaseLocals
<1>1. ASSUME NEW c \in Calls, Arrive(c) PROVE AInv'
  <2>1. attempts[c] = 0
    BY <1>1 DEF Arrive, AInv, NumberedWhenCounted
  <2> QED
    BY <1>1, <2>1, AccountsStand DEF Arrive, TypeOK, Threads
<1>2. ASSUME NEW c \in Calls, Reject(c) PROVE AInv'
  BY <1>2, AccountsStand DEF Reject, TypeOK, Threads
<1>3. ASSUME NEW c \in Calls, Count(c) PROVE AInv'
  BY <1>3, CountAccounts
<1>4. ASSUME NEW c \in Calls, FailTransiently(c) PROVE AInv'
  <2>1. attempts[c] > 0
    BY <1>4 DEF FailTransiently, AInv, NumberedWhenCounted
  <2> QED
    BY <1>4, <2>1, AccountsStand DEF FailTransiently, TypeOK, Threads
<1>5. ASSUME NEW c \in Calls, FailPermanently(c) \/ AnswerAtOnce(c) \/ AnswerHeld(c) PROVE AInv'
  BY <1>5, AccountsStand DEF FailPermanently, AnswerAtOnce, AnswerHeld, TypeOK, Threads
<1>6. ASSUME NEW c \in Calls, ReadEpoch(c) \/ Publish(c) \/ Unpublish(c) PROVE AInv'
  BY <1>6, AccountsStand DEF ReadEpoch, Publish, Unpublish, TypeOK, Threads
<1>7. ASSUME NEW c \in Calls, CheckPredicate(c) \/ Ceiling(c) PROVE AInv'
  BY <1>7, AccountsStand DEF CheckPredicate, Ceiling, TypeOK, Threads
<1>8. ASSUME NEW r \in Releases, ArriveRelease(r) \/ CountHeld(r) PROVE AInv'
  BY <1>8, AccountsStand, ThreadsAreDistinct DEF ArriveRelease, CountHeld, TypeOK, Threads
<1>9. ASSUME NEW r \in Releases, Bump(r) PROVE AInv'
  BY <1>9, AccountsStand, ThreadsAreDistinct DEF Bump, TypeOK, Threads
<1>10. CASE UNCHANGED vars
  BY <1>10, AccountsStand DEF vars
<1> QED
  BY <1>1, <1>2, <1>3, <1>4, <1>5, <1>6, <1>7, <1>8, <1>9, <1>10
     DEF Next, Accept, Work, ReleaseWork, Finished

LEMMA AccountsHold == Spec => []AInv
BY InitAInv, AccountsStep, TypeCorrectness, PTL DEF Spec
-----------------------------------------------------------------------------
(* The ordered log and the attempt numbers are one account of the calls,   *)
(* however many count themselves at once.                                  *)
THEOREM LogIsTheAccount == Spec => []LogNamesEveryCall
<1>1. AInv => LogNamesEveryCall
  BY DEF AInv, LogIsCounted, NumberIsAPlace, NumbersDiffer, LogNamesEveryCall
<1> QED
  BY <1>1, AccountsHold, PTL

(* No more calls fail transiently under a key than the fail_times they     *)
(* asked for: their numbers are different and in 1..fail_times.            *)
THEOREM BudgetIsKept == Spec => []TransientFailuresWithinBudget
<1>1. TypeOK /\ AInv => TransientFailuresWithinBudget
  <2> SUFFICES ASSUME TypeOK, AInv, NEW k \in Keys, NEW q \in Requests
               PROVE  Cardinality({c \in Calls : /\ status[c] = "transient" /\ Key(c) = k
                                                /\ body[c].failTimes = q.failTimes})
                         <= q.failTimes
    BY DEF TransientFailuresWithinBudget
  <2> DEFINE n == q.failTimes
             S == {c \in Calls : status[c] = "transient" /\ Key(c) = k /\ body[c].failTimes = n}
             number == [c \in S |-> attempts[c]]
  <2>1. n \in Nat
    BY RequestsAreRequests DEF Request
  <2>2. \A c \in S : attempts[c] \in 1..n
    BY <2>1 DEF AInv, TransientIsEarly, TypeOK
  <2>3. \A c, d \in S : c # d => attempts[c] # attempts[d]
    BY <2>1, <2>2 DEF AInv, NumbersDiffer
  <2>4. number \in Injection(S, 1..n)
    BY <2>2, <2>3 DEF Injection, IsInjective
  <2>5. IsFiniteSet(1..n) /\ Cardinality(1..n) = n
    BY <2>1, FS_Interval
  <2>6. Cardinality(S) <= Cardinality(1..n)
    <3> HIDE DEF number, S, n
    <3> QED
      BY <2>4, <2>5, FS_Injection
  <2> QED
    BY <2>5, <2>6
<1> QED
  BY <1>1, AccountsHold, TypeCorrectness, PTL

(* GET /peak is never below GET /inflight.                                 *)
PeakIsAbove == \A k \in Keys : inflight[k] <= peak[k]

LEMMA PeakStep ==
    ASSUME TypeOK, TypeOK', PeakIsAbove, [Next]_vars, NEW k \in Keys
    PROVE  /\ inflight'[k] <= peak'[k]
           /\ peak'[k] = IF inflight'[k] > peak[k] THEN inflight'[k] ELSE peak[k]
<1>1. inflight[k] \in Nat /\ peak[k] \in Nat /\ inflight[k] <= peak[k]
  BY DEF TypeOK, PeakIsAbove
<1>2. inflight'[k] \in Nat /\ peak'[k] \in Nat
  BY DEF TypeOK
<1>3. CASE UNCHANGED <<inflight, peak>>
  BY <1>1, <1>3
<1>4. ASSUME NEW c \in Calls, Publish(c) PROVE  /\ inflight'[k] <= peak'[k]
           /\ peak'[k] = IF inflight'[k] > peak[k] THEN inflight'[k] ELSE peak[k]
  BY <1>1, <1>2, <1>4, KeysAndOps DEF Publish, TypeOK
<1>5. ASSUME NEW c \in Calls, Unpublish(c) PROVE  /\ inflight'[k] <= peak'[k]
           /\ peak'[k] = IF inflight'[k] > peak[k] THEN inflight'[k] ELSE peak[k]
  <2>1. Key(c) \in Keys /\ peak' = peak /\ inflight' = [inflight EXCEPT ![Key(c)] = @ - 1]
    BY <1>5, KeysAndOps DEF Unpublish
  <2>2. inflight'[k] <= inflight[k] /\ peak'[k] = peak[k]
    <3>1. inflight \in [Keys -> Nat]
      BY DEF TypeOK
    <3>2. inflight'[k] = IF k = Key(c) THEN inflight[k] - 1 ELSE inflight[k]
      BY <2>1, <3>1
    <3> QED
      BY <1>1, <2>1, <3>2
  <2> QED
    BY <1>1, <1>2, <2>2
<1>6. ASSUME NEW c \in Calls,
             Arrive(c) \/ Reject(c) \/ Count(c) \/ FailPermanently(c) \/ FailTransiently(c)
             \/ AnswerAtOnce(c) \/ ReadEpoch(c) \/ CheckPredicate(c) \/ AnswerHeld(c) \/ Ceiling(c)
      PROVE  UNCHANGED <<inflight, peak>>
  BY <1>6 DEF sharedVars, Arrive, Reject, Count, FailPermanently, FailTransiently, AnswerAtOnce,
              ReadEpoch, CheckPredicate, AnswerHeld, Ceiling
<1>7. ASSUME NEW r \in Releases, ArriveRelease(r) \/ CountHeld(r) \/ Bump(r)
      PROVE  UNCHANGED <<inflight, peak>>
  BY <1>7 DEF sharedVars, ArriveRelease, CountHeld, Bump
<1>8. UNCHANGED vars => UNCHANGED <<inflight, peak>>
  BY DEF vars, sharedVars
<1> QED
  BY <1>3, <1>4, <1>5, <1>6, <1>7, <1>8 DEF Next, Accept, Work, ReleaseWork, Finished

(* GET /peak is the high-water mark of GET /inflight for any number of     *)
(* threads that raise and lower the two.                                   *)
THEOREM PeakIsThePeak == Spec => PeakIsHighWaterMark
<1>1. Init => PeakIsAbove
  BY DEF Init, PeakIsAbove
<1>2. TypeOK /\ TypeOK' /\ PeakIsAbove /\ [Next]_vars => PeakIsAbove'
  BY PeakStep DEF PeakIsAbove
<1>3. Spec => []PeakIsAbove
  BY <1>1, <1>2, TypeCorrectness, PTL DEF Spec
<1>4. TypeOK /\ TypeOK' /\ PeakIsAbove /\ [Next]_vars =>
        [\A k \in Keys : peak'[k] = IF inflight'[k] > peak[k] THEN inflight'[k]
                                                            ELSE peak[k]]_vars
  BY PeakStep
<1> QED
  BY <1>3, <1>4, TypeCorrectness, PTL DEF Spec, PeakIsHighWaterMark
=============================================================================
