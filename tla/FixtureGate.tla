---------------------------- MODULE FixtureGate ----------------------------
(***************************************************************************)
(* The HTTP fixture every port's tests call (scripts/fixture-service.py):  *)
(* a ThreadingHTTPServer, one thread per request, whose shared dictionaries*)
(* are guarded by _lock and whose release counters are guarded by the      *)
(* condition _gate.  No request holds both locks, and every `with' block   *)
(* below is one action.                                                    *)
(***************************************************************************)
EXTENDS Integers, Sequences, FiniteSets

CONSTANTS
    Calls,      \* threads that serve POST /call/{service}/{operation}
    Releases,   \* threads that serve POST /release/{key}
    Keys,       \* the keys the tests use
    Ops,        \* the operations named in the path
    Requests    \* the bodies a test can send, one record each

(* failTimes, permanent and hold are the body's fail_times,                *)
(* fail_permanently and delay_ms # 0.                                      *)
Request == [key : Keys, op : Ops, failTimes : Nat,
            permanent : BOOLEAN, hold : BOOLEAN]

ASSUME RequestsAreRequests == Requests \subseteq Request
ASSUME ThreadsAreFinite == IsFiniteSet(Calls) /\ IsFiniteSet(Releases)
ASSUME ThreadsAreDistinct == Calls \cap Releases = {}
ASSUME SomeRequest == Requests # {} /\ Keys # {}

VARIABLES
    counts, log,        \* _counts, _log              guarded by _lock
    inflight, peak,     \* _inflight, _peak           guarded by _lock
    released,           \* _released                  guarded by _gate
    pc,                 \* where each thread is
    body,               \* body[c]: the request c serves; relKey[r] likewise
    relKey,
    attempts, seen,     \* locals of do_POST
    reported,           \* the local `held' a release will answer with
    heldSet,            \* ghost: the calls that number stands for
    status              \* status[c]: what c answered

sharedVars == <<counts, log, inflight, peak, released>>
vars == <<sharedVars, pc, body, relKey, attempts, seen, reported, heldSet,
          status>>
releaseLocals == <<reported, heldSet>>

Threads == Calls \cup Releases
Key(c) == body[c].key

\* The pc values between _inflight += 1 and _inflight -= 1.
Published == {"wait", "parked", "woken", "unpublish"}
InHandler(k) == {c \in Calls : pc[c] \in Published /\ Key(c) = k}
-----------------------------------------------------------------------------
Init ==
    /\ counts = [k \in Keys |-> 0]
    /\ log = [k \in Keys |-> <<>>]
    /\ inflight = [k \in Keys |-> 0]
    /\ peak = [k \in Keys |-> 0]
    /\ released = [k \in Keys |-> 0]
    /\ pc = [t \in Threads |-> "idle"]
    /\ body = [c \in Calls |-> CHOOSE q \in Requests : TRUE]
    /\ relKey = [r \in Releases |-> CHOOSE k \in Keys : TRUE]
    /\ attempts = [c \in Calls |-> 0]
    /\ seen = [c \in Calls |-> 0]
    /\ reported = [r \in Releases |-> 0]
    /\ heldSet = [r \in Releases |-> {}]
    /\ status = [c \in Calls |-> "none"]

Goto(t, from, to) == pc[t] = from /\ pc' = [pc EXCEPT ![t] = to]

Reply(c, s) == status' = [status EXCEPT ![c] = s]

\* The body parses and names a key.
Arrive(c) ==
    /\ Goto(c, "idle", "accepted")
    /\ \E q \in Requests : body' = [body EXCEPT ![c] = q]
    /\ UNCHANGED <<sharedVars, relKey, attempts, seen, releaseLocals, status>>

\* Invalid JSON or no key: 400, and no counter has moved.
Reject(c) ==
    /\ Goto(c, "idle", "done")
    /\ Reply(c, "malformed")
    /\ UNCHANGED <<sharedVars, body, relKey, attempts, seen, releaseLocals>>

\* Bug: the call is logged after the failure branches, so a failure is not.
CountWithoutLoggingFailures(c) ==
    /\ Goto(c, "accepted", "counted")
    /\ counts' = [counts EXCEPT ![Key(c)] = @ + 1]
    /\ attempts' = [attempts EXCEPT ![c] = counts[Key(c)] + 1]
    /\ log' = IF body[c].permanent THEN log
              ELSE [log EXCEPT ![Key(c)] = Append(@, body[c].op)]
    /\ UNCHANGED <<inflight, peak, released, body, relKey, seen,
                   releaseLocals, status>>

\* with _lock: the call is counted and logged before any failure branch.
Count(c) ==
    /\ Goto(c, "accepted", "counted")
    /\ counts' = [counts EXCEPT ![Key(c)] = @ + 1]
    /\ attempts' = [attempts EXCEPT ![c] = counts[Key(c)] + 1]
    /\ log' = [log EXCEPT ![Key(c)] = Append(@, body[c].op)]
    /\ UNCHANGED <<inflight, peak, released, body, relKey, seen, releaseLocals,
                   status>>

MustFail(c) == body[c].permanent \/ attempts[c] <= body[c].failTimes

FailPermanently(c) ==
    /\ body[c].permanent
    /\ Goto(c, "counted", "done")
    /\ Reply(c, "permanent")
    /\ UNCHANGED <<sharedVars, body, relKey, attempts, seen, releaseLocals>>

\* Bug: one failure too many.
FailOnceMore(c) ==
    /\ ~body[c].permanent
    /\ attempts[c] <= body[c].failTimes + 1
    /\ Goto(c, "counted", "done")
    /\ Reply(c, "transient")
    /\ UNCHANGED <<sharedVars, body, relKey, attempts, seen, releaseLocals>>

FailTransiently(c) ==
    /\ ~body[c].permanent
    /\ attempts[c] <= body[c].failTimes
    /\ Goto(c, "counted", "done")
    /\ Reply(c, "transient")
    /\ UNCHANGED <<sharedVars, body, relKey, attempts, seen, releaseLocals>>

\* Bug: the finally block also covers calls that were never held.
AnswerAtOnceThroughFinally(c) ==
    /\ ~MustFail(c) /\ ~body[c].hold
    /\ Goto(c, "counted", "done")
    /\ Reply(c, "ok")
    /\ inflight' = [inflight EXCEPT ![Key(c)] = @ - 1]
    /\ UNCHANGED <<counts, log, peak, released, body, relKey, attempts, seen,
                   releaseLocals>>

AnswerAtOnce(c) ==
    /\ ~MustFail(c) /\ ~body[c].hold
    /\ Goto(c, "counted", "done")
    /\ Reply(c, "ok")
    /\ UNCHANGED <<sharedVars, body, relKey, attempts, seen, releaseLocals>>

\* Bug: a latch (threading.Event) instead of a counter: once released, a key
\* never holds again.
ReadNoEpoch(c) ==
    /\ ~MustFail(c) /\ body[c].hold
    /\ Goto(c, "counted", "epoch")
    /\ seen' = [seen EXCEPT ![c] = 0]
    /\ UNCHANGED <<sharedVars, body, relKey, attempts, releaseLocals, status>>

\* with _gate: seen = _released[key], BEFORE the call is published.
ReadEpoch(c) ==
    /\ ~MustFail(c) /\ body[c].hold
    /\ Goto(c, "counted", "epoch")
    /\ seen' = [seen EXCEPT ![c] = released[Key(c)]]
    /\ UNCHANGED <<sharedVars, body, relKey, attempts, releaseLocals, status>>

\* Bug: the comparison with the old peak is lost.
PublishLastOccupancy(c) ==
    /\ Goto(c, "epoch", "wait")
    /\ inflight' = [inflight EXCEPT ![Key(c)] = @ + 1]
    /\ peak' = [peak EXCEPT ![Key(c)] = inflight[Key(c)] + 1]
    /\ UNCHANGED <<counts, log, released, body, relKey, attempts, seen,
                   releaseLocals, status>>

\* with _lock: the call becomes visible to GET /inflight and GET /peak.
Publish(c) ==
    /\ Goto(c, "epoch", "wait")
    /\ inflight' = [inflight EXCEPT ![Key(c)] = @ + 1]
    /\ peak' = [peak EXCEPT ![Key(c)] =
                   IF inflight[Key(c)] + 1 > @ THEN inflight[Key(c)] + 1 ELSE @]
    /\ UNCHANGED <<counts, log, released, body, relKey, attempts, seen,
                   releaseLocals, status>>

Told(c) == released[Key(c)] > seen[c]

\* Bug: wait() before the first test of the predicate.
WaitFirst(c) ==
    /\ pc[c] \in {"wait", "woken"}
    /\ pc' = [pc EXCEPT ![c] = IF pc[c] = "woken" /\ Told(c) THEN "unpublish"
                                                            ELSE "parked"]
    /\ UNCHANGED <<sharedVars, body, relKey, attempts, seen, releaseLocals,
                   status>>

\* Bug: the epoch is read once the call is already published.
ReadEpochLate(c) ==
    /\ pc[c] \in {"wait", "woken"}
    /\ seen' = IF pc[c] = "wait"
               THEN [seen EXCEPT ![c] = released[Key(c)]] ELSE seen
    /\ pc' = [pc EXCEPT ![c] = IF released[Key(c)] > seen'[c]
                               THEN "unpublish" ELSE "parked"]
    /\ UNCHANGED <<sharedVars, body, relKey, attempts, releaseLocals, status>>

\* with _gate: wait_for tests its predicate on entry and after each wake-up.
CheckPredicate(c) ==
    /\ pc[c] \in {"wait", "woken"}
    /\ pc' = [pc EXCEPT ![c] = IF Told(c) THEN "unpublish" ELSE "parked"]
    /\ UNCHANGED <<sharedVars, body, relKey, attempts, seen, releaseLocals, status>>

\* Bug: the decrement is not in a finally block, and a timeout skips it.
CeilingSkipsFinally(c) ==
    /\ pc[c] \in {"parked", "woken"}
    /\ pc' = [pc EXCEPT ![c] = "answer"]
    /\ UNCHANGED <<sharedVars, body, relKey, attempts, seen, releaseLocals,
                   status>>

\* Bug: no timeout on the wait; the clock is only looked at after a wake-up.
CeilingOnlyWhenWoken(c) ==
    /\ pc[c] = "woken"
    /\ pc' = [pc EXCEPT ![c] = "unpublish"]
    /\ UNCHANGED <<sharedVars, body, relKey, attempts, seen, releaseLocals,
                   status>>

\* wait_for's timeout, delay_ms: the ceiling on the hold.
Ceiling(c) ==
    /\ pc[c] \in {"parked", "woken"}
    /\ pc' = [pc EXCEPT ![c] = "unpublish"]
    /\ UNCHANGED <<sharedVars, body, relKey, attempts, seen, releaseLocals, status>>

\* finally, with _lock.
Unpublish(c) ==
    /\ Goto(c, "unpublish", "answer")
    /\ inflight' = [inflight EXCEPT ![Key(c)] = @ - 1]
    /\ UNCHANGED <<counts, log, peak, released, body, relKey, attempts, seen,
                   releaseLocals, status>>

AnswerHeld(c) ==
    /\ Goto(c, "answer", "done")
    /\ Reply(c, "ok")
    /\ UNCHANGED <<sharedVars, body, relKey, attempts, seen, releaseLocals>>
-----------------------------------------------------------------------------
ArriveRelease(r) ==
    /\ Goto(r, "idle", "count_held")
    /\ \E k \in Keys : relKey' = [relKey EXCEPT ![r] = k]
    /\ UNCHANGED <<sharedVars, body, attempts, seen, releaseLocals, status>>

\* Bug: a held call keeps _lock, so nobody else's with block can start.
CountHeldBehindTheHold(r) ==
    /\ \A c \in Calls : pc[c] \notin {"wait", "parked", "woken"}
    /\ Goto(r, "count_held", "bump")
    /\ reported' = [reported EXCEPT ![r] = inflight[relKey[r]]]
    /\ heldSet' = [heldSet EXCEPT ![r] = InHandler(relKey[r])]
    /\ UNCHANGED <<sharedVars, body, relKey, attempts, seen, status>>

\* with _lock: held = _inflight[key], the number the reply will carry.
CountHeld(r) ==
    /\ Goto(r, "count_held", "bump")
    /\ reported' = [reported EXCEPT ![r] = inflight[relKey[r]]]
    /\ heldSet' = [heldSet EXCEPT ![r] = InHandler(relKey[r])]
    /\ UNCHANGED <<sharedVars, body, relKey, attempts, seen, status>>

\* Bug: the counter moves and nobody is notified.
BumpSilently(r) ==
    /\ Goto(r, "bump", "done")
    /\ released' = [released EXCEPT ![relKey[r]] = @ + 1]
    /\ UNCHANGED <<counts, log, inflight, peak, body, relKey, attempts, seen,
                   releaseLocals, status>>

\* with _gate: _released[key] += 1 and notify_all, which wakes every waiter
\* of the one condition whatever its key.
Bump(r) ==
    /\ pc[r] = "bump"
    /\ released' = [released EXCEPT ![relKey[r]] = @ + 1]
    /\ pc' = [t \in Threads |-> IF t = r THEN "done"
                                ELSE IF pc[t] = "parked" THEN "woken"
                                ELSE pc[t]]
    /\ UNCHANGED <<counts, log, inflight, peak, body, relKey, attempts, seen,
                   releaseLocals, status>>
-----------------------------------------------------------------------------
Accept(c) == Arrive(c) \/ Reject(c)

Work(c) ==
    \/ Count(c) \/ FailPermanently(c) \/ FailTransiently(c) \/ AnswerAtOnce(c)
    \/ ReadEpoch(c) \/ Publish(c) \/ CheckPredicate(c) \/ Unpublish(c)
    \/ AnswerHeld(c)

ReleaseWork(r) == CountHeld(r) \/ Bump(r)

\* Every request has been answered.
Finished == (\A t \in Threads : pc[t] = "done") /\ UNCHANGED vars

Next ==
    \/ \E c \in Calls : Accept(c) \/ Work(c) \/ Ceiling(c)
    \/ \E r \in Releases : ArriveRelease(r) \/ ReleaseWork(r)
    \/ Finished

Spec == Init /\ [][Next]_vars

(* Handler threads are run by the interpreter and each with block is short,*)
(* so a thread that can step does; requests need never come.  The two      *)
(* fairness assumptions differ in whether the ceiling is counted on.       *)
ThreadFairness ==
    /\ \A c \in Calls : WF_vars(Work(c))
    /\ \A r \in Releases : WF_vars(ReleaseWork(r))

FairSpec == Spec /\ ThreadFairness
CeilingSpec == FairSpec /\ \A c \in Calls : WF_vars(Ceiling(c))
-----------------------------------------------------------------------------
PCs == {"idle", "accepted", "counted", "epoch", "wait", "parked", "woken",
        "unpublish", "answer", "done"}

\* The shape of the state.
TypeOK ==
    /\ counts \in [Keys -> Nat] /\ log \in [Keys -> Seq(Ops)]
    /\ inflight \in [Keys -> Nat] /\ peak \in [Keys -> Nat]
    /\ released \in [Keys -> Nat]
    /\ pc \in [Threads -> PCs \cup {"count_held", "bump"}]
    /\ \A c \in Calls : pc[c] \in PCs
    /\ \A r \in Releases : pc[r] \in {"idle", "count_held", "bump", "done"}
    /\ body \in [Calls -> Requests] /\ relKey \in [Releases -> Keys]
    /\ attempts \in [Calls -> Nat] /\ seen \in [Calls -> Nat]
    /\ reported \in [Releases -> Nat]
    /\ heldSet \in [Releases -> SUBSET Calls]
    /\ status \in [Calls -> {"none", "malformed", "permanent", "transient",
                              "ok"}]

(* GET /inflight never drifts from the calls really inside the handler,    *)
(* whichever of release, ceiling and error ended each of them.             *)
InflightIsExact == \A k \in Keys : inflight[k] = Cardinality(InHandler(k))

(* GET /peak is the high-water mark of GET /inflight, across every         *)
(* interleaving of the threads that update the two.                        *)
PeakIsHighWaterMark ==
    [][\A k \in Keys : peak'[k] = IF inflight'[k] > peak[k] THEN inflight'[k]
                                                           ELSE peak[k]]_vars

(* No lost wake-up: a thread asleep on the condition has not been told to  *)
(* leave.  A release that lands between the epoch read, the publication    *)
(* and the wait is noticed before the thread goes to sleep.                *)
NoSleeperIsTold == \A c \in Calls : pc[c] = "parked" => ~Told(c)

(* POST /release ends every hold it counted: when it has answered, each    *)
(* call behind the number it reports has left or has been told to, however *)
(* long the thread slept between reading _inflight under one lock and      *)
(* bumping _released under the other.                                      *)
ReleaseReachesEveryHold ==
    \A r \in Releases : pc[r] = "done" =>
        /\ reported[r] = Cardinality(heldSet[r])
        /\ \A c \in heldSet[r] : pc[c] \in Published => Told(c)

(* The ordered log the saga tests read and the attempt numbers in the      *)
(* answers are one account of the calls: no two calls under a key share an *)
(* attempt number, and that number is the call's place in the log.         *)
LogNamesEveryCall ==
    /\ \A k \in Keys : Len(log[k]) = counts[k]
    /\ \A c \in Calls : pc[c] \notin {"idle", "accepted"} /\ attempts[c] > 0 =>
          /\ attempts[c] <= counts[Key(c)]
          /\ log[Key(c)][attempts[c]] = body[c].op
          /\ \A d \in Calls : /\ pc[d] \notin {"idle", "accepted"}
                              /\ attempts[d] > 0 /\ d # c /\ Key(d) = Key(c)
                              => attempts[d] # attempts[c]

(* fail_times is a budget shared by every call under the key: concurrent   *)
(* calls that ask for n failures never see more than n of them.            *)
TransientFailuresWithinBudget ==
    \A k \in Keys, n \in {q.failTimes : q \in Requests} :
        Cardinality({c \in Calls : /\ status[c] = "transient"
                                  /\ Key(c) = k /\ body[c].failTimes = n}) <= n

(* A hold that has been told to leave returns without help from the        *)
(* ceiling.                                                                *)
ReleasedHoldReturns ==
    \A c \in Calls : (pc[c] \in Published /\ Told(c)) ~> pc[c] = "done"

(* A release returns while calls are held: the hold is outside both locks. *)
ReleaseNeverBlocks ==
    \A r \in Releases : pc[r] = "count_held" ~> pc[r] = "done"

(* A forgotten release does not hang the test: every accepted call is      *)
(* answered once the ceiling is counted on.                                *)
EveryCallIsAnswered ==
    \A c \in Calls : pc[c] = "accepted" ~> pc[c] = "done"
-----------------------------------------------------------------------------
(* The gate as the tests see it.                                           *)
PhaseOf(c) ==
    CASE pc[c] = "idle" -> "out"
      [] pc[c] \in {"accepted", "counted", "epoch"} -> "coming"
      [] pc[c] \in Published -> "held"
      [] OTHER -> IF status[c] = "malformed" THEN "out" ELSE "left"

Gate == INSTANCE HoldGate WITH
    phase <- [c \in Calls |-> PhaseOf(c)],
    under <- [c \in Calls |-> Key(c)],
    told <- {c \in Calls : pc[c] \in Published \cup {"epoch"} /\ Told(c)},
    over <- {r \in Releases : pc[r] = "done"}

(* The implementation keeps the gate's promise (HoldGate.tla): a release   *)
(* tells every call GET /inflight could have shown, and no call is told by *)
(* a release that was over before the call came.                           *)
ImplementsHoldGate == Gate!HSpec
=============================================================================
