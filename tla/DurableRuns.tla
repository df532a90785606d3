---------------------------- MODULE DurableRuns ----------------------------
(***************************************************************************)
(* The durable runs the ports exercise: rows of the engine's database,     *)
(* executed by workers that are killed with SIGKILL (worker.sh crash) and  *)
(* started again, while the guest of each run calls the fixture service.   *)
(*                                                                         *)
(* The engine is not in this repository.  What is modelled of it is what   *)
(* the ports' tests, guests and issue entries say they rely on: a guest is *)
(* replayed from its first line on every resume and answered from history; *)
(* a call has reached the fixture before its event is durable; a failed    *)
(* attempt under a retry policy records nothing; a send is recorded and    *)
(* then dispatched by the worker's own goroutine; a run whose worker died  *)
(* stays `running` until the reaper takes it; cancellation is a flag a     *)
(* guest may poll, and the refusal of its further calls.                   *)
(*                                                                         *)
(* Guest(p, h) is the next host call of program p after the answers h; the *)
(* guests of the ports are module GuestPrograms.                           *)
(***************************************************************************)
EXTENDS Integers, Sequences, SequencesExt, FiniteSets, FiniteSetsExt

CONSTANTS
    Guest(_, _),    \* the guests
    Scenarios,      \* what a test starts: programs, cancels, and what the fixture should see
    RunIds,         \* bound: rows of the instances table
    Workers,        \* the worker and the second worker
    MaxCrashes,     \* bound: workers killed
    Nobody          \* the owner of a run no worker executes

ASSUME RunIdsAreNumbers == RunIds \subseteq Nat \ {0} /\ IsFiniteSet(RunIds)
ASSUME CrashesAreBounded == MaxCrashes \in Nat
ASSUME TestsFillTheFirstRows ==
    \A test \in Scenarios : \A r \in DOMAIN test.starts, q \in RunIds : q < r => q \in DOMAIN test.starts
ASSUME HorizonsAreTimes == \A test \in Scenarios : test.horizon \in Nat
ASSUME KeysAreOfRuns == \A test \in Scenarios : test.keyed \subseteq RunIds

VARIABLES
    scenario,   \* the test under way
    now,        \* the time of day, up to the scenario's horizon
    runs,       \* the instances table, with each run's events
    exec,       \* the segment a worker has in memory
    outbox,     \* sends recorded and not dispatched, with the worker whose goroutine has them
    log,        \* what the fixture received, in order
    cancels,    \* cancel requests the test has made
    crashes,    \* workers killed
    lost,       \* ghost: the receipts whose event a crash kept from history
    orphans,    \* ghost: children whose spawn a crash kept from their parent's history
    dropped     \* ghost: the sends a crash kept from being dispatched

vars == <<scenario, now, runs, exec, outbox, log, cancels, crashes, lost, orphans, dropped>>

Absent == [prog |-> [w |-> "none"], status |-> "absent", hist |-> <<>>, cancel |-> FALSE,
           parent |-> 0, policy |-> "ABANDON", from |-> 0, waits |-> {}, any |-> FALSE,
           result |-> "none", since |-> 0, until |-> 0, holds |-> FALSE]

Idle == [on |-> Nobody, spent |-> 0, got |-> "none", child |-> 0]

Terminal == {"done", "failed", "dead_lettered", "terminated"}

Live(r)      == runs[r].status \notin Terminal \cup {"absent"}
Executing(r) == exec[r].on # Nobody
Asks(r)      == Guest(runs[r].prog, runs[r].hist)
Count(s, t)  == Cardinality({i \in DOMAIN s : s[i] = t})
Received(t)  == Count(log, t)
Tagged(S, t) == Cardinality({x \in S : x.tag = t})

Fresh(p, parent, policy, from) ==
    [Absent EXCEPT !.prog = p, !.status = "ready", !.parent = parent, !.policy = policy,
                   !.from = from]

\* The next row id.
NewId == CHOOSE r \in RunIds : /\ runs[r].status = "absent"
                               /\ \A q \in RunIds : q < r => runs[q].status # "absent"

\* Times are cut off at the horizon, so that every deadline is one the clock reaches.
After(t, d) == Min({t + d, scenario.horizon})

RoomForARow == \E r \in RunIds : runs[r].status = "absent"

Init ==
    /\ scenario \in Scenarios
    /\ now = 0
    /\ runs = [r \in RunIds |-> IF r \in DOMAIN scenario.starts
                                THEN Fresh(scenario.starts[r], 0, "ABANDON", 0) ELSE Absent]
    /\ exec = [r \in RunIds |-> Idle]
    /\ outbox = {}
    /\ log = <<>>
    /\ cancels = {}
    /\ crashes = 0
    /\ lost = {}
    /\ orphans = 0
    /\ dropped = {}

---------------------------------------------------------------------------
(* The event history.  A write is fenced: the row must still be running.   *)

Answer(op, tag, res, run) == [op |-> op, tag |-> tag, res |-> res, run |-> run, at |-> now]

\* The durable clock: the time of the last event.  Only a sleep moves it by itself, and by
\* exactly its length.
DurableNow(h) == IF h = <<>> THEN now ELSE Last(h).at

Record(r, answer) ==
    /\ runs[r].status = "running"
    /\ runs' = [runs EXCEPT ![r].hist = Append(@, answer)]

---------------------------------------------------------------------------
(* Steps of a segment: the worker has replayed the history and executes    *)
(* the guest's next host call.                                             *)

KeyIsFreeOfAll(r) == r \in scenario.keyed => \A q \in scenario.keyed : ~runs[q].holds

\* A run started under a concurrency key is claimed only while no other run holds the key.  It
\* holds it from its first claim to its end, whoever executes it.
KeyIsFree(r) == r \in scenario.keyed => \A q \in scenario.keyed \ {r} : ~runs[q].holds

ClaimPollsAgain(r, w) ==
    /\ runs[r].status = "ready"
    /\ runs' = [runs EXCEPT ![r].status = "running",
                            ![r].hist = [i \in DOMAIN @ |->
                                IF @[i].op = "pollsignal"
                                THEN [@[i] EXCEPT !.res = "ok"] ELSE @[i]]]
    /\ exec' = [exec EXCEPT ![r] = [Idle EXCEPT !.on = w]]
    /\ UNCHANGED <<scenario, now, outbox, log, cancels, crashes, lost, orphans, dropped>>

\* A worker takes a ready run and replays it.
Claim(r, w) ==
    /\ runs[r].status = "ready"
    /\ KeyIsFree(r)
    /\ runs' = [runs EXCEPT ![r].status = "running", ![r].holds = r \in scenario.keyed]
    /\ exec' = [exec EXCEPT ![r] = [Idle EXCEPT !.on = w]]
    /\ UNCHANGED <<scenario, now, outbox, log, cancels, crashes, lost, orphans, dropped>>

\* What the fixture answers the request of call c that is its n-th under the tag.
Reply(c, n, spent) ==
    IF c.permanent THEN "error"
    ELSE IF n > c.fails THEN "ok"
    ELSE IF spent + 1 < c.tries THEN "none" ELSE "exhausted"

\* The request reaches the fixture.  A failed attempt with budget left records nothing.
MakeCall(r, c) ==
    /\ exec[r].got = "none"
    /\ c.op = "call"
    /\ ~runs[r].cancel
    /\ log' = Append(log, c.tag)
    /\ exec' = [exec EXCEPT ![r].spent = @ + 1,
                            ![r].got = Reply(c, Received(c.tag) + 1, exec[r].spent)]
    /\ UNCHANGED <<scenario, now, runs, outbox, cancels, crashes, lost, orphans, dropped>>

\* The engine refuses a durable call of a run that has been asked to cancel.
RefuseCall(r, c) ==
    /\ exec[r].got = "none"
    /\ c.op = "call"
    /\ runs[r].cancel
    /\ exec' = [exec EXCEPT ![r].got = "refused"]
    /\ UNCHANGED <<scenario, now, runs, outbox, log, cancels, crashes, lost, orphans, dropped>>

RecordCall(r, c) ==
    /\ exec[r].got # "none"
    /\ c.op = "call"
    /\ Record(r, Answer("call", c.tag, exec[r].got, 0))
    /\ exec' = [exec EXCEPT ![r] = [Idle EXCEPT !.on = exec[r].on]]
    /\ UNCHANGED <<scenario, now, outbox, log, cancels, crashes, lost, orphans, dropped>>

\* A send, of the body or of a defer, is recorded; the worker's goroutine has it from here.
RecordSend(r, c) ==
    /\ c.op \in {"send", "deferred"}
    /\ Record(r, Answer(c.op, c.tag, "ok", 0))
    /\ outbox' = outbox \cup {[run |-> r, at |-> Len(runs[r].hist) + 1,
                               tag |-> c.tag, on |-> exec[r].on]}
    /\ UNCHANGED <<scenario, now, exec, log, cancels, crashes, lost, orphans, dropped>>

Dispatch(s) ==
    /\ s \in outbox
    /\ outbox' = outbox \ {s}
    /\ log' = Append(log, s.tag)
    /\ UNCHANGED <<scenario, now, runs, exec, cancels, crashes, lost, orphans, dropped>>

\* Calls the engine answers by itself.
RecordLocal(r, c) ==
    /\ \/ c.op = "poll" /\ Record(r, Answer("poll", "none",
                                            IF runs[r].cancel THEN "cancelled" ELSE "ok", 0))
       \/ c.op = "defer" /\ Record(r, Answer("defer", c.tag, "ok", 0))
    /\ UNCHANGED <<scenario, now, exec, outbox, log, cancels, crashes, lost, orphans, dropped>>

\* A sleep suspends the run and gives the worker back.
SleepBegins(r, c) ==
    /\ c.op = "sleep"
    /\ runs[r].status = "running"
    /\ runs' = [runs EXCEPT
          ![r].hist   = Append(@, [Answer("sleep", "none", "ok", 0) EXCEPT
                                      !.at = After(DurableNow(runs[r].hist), c.length)]),
          ![r].status = "sleeping",
          ![r].until  = After(now, c.length)]
    /\ exec' = [exec EXCEPT ![r] = Idle]
    /\ UNCHANGED <<scenario, now, outbox, log, cancels, crashes, lost, orphans, dropped>>

SleepEnds(r) ==
    /\ runs[r].status = "sleeping"
    /\ now >= runs[r].until
    /\ runs' = [runs EXCEPT ![r].status = "ready", ![r].until = 0]
    /\ UNCHANGED <<scenario, now, exec, outbox, log, cancels, crashes, lost, orphans, dropped>>

\* The child's row is inserted; its parent's event comes after.
InsertChild(r, c) ==
    /\ exec[r].child = 0
    /\ c.op \in {"spawn", "detach"}
    /\ runs[r].status = "running"
    /\ RoomForARow
    /\ runs' = [runs EXCEPT ![NewId] = IF c.op = "spawn" THEN Fresh(c.prog, r, c.policy, 0)
                                                         ELSE Fresh(c.prog, 0, "ABANDON", 0)]
    /\ exec' = [exec EXCEPT ![r].child = NewId]
    /\ UNCHANGED <<scenario, now, outbox, log, cancels, crashes, lost, orphans, dropped>>

RecordChild(r, c) ==
    /\ exec[r].child # 0
    /\ c.op \in {"spawn", "detach"}
    /\ Record(r, Answer(c.op, "none", "ok", exec[r].child))
    /\ exec' = [exec EXCEPT ![r].child = 0]
    /\ UNCHANGED <<scenario, now, outbox, log, cancels, crashes, lost, orphans, dropped>>

\* `from` of a continued run names the first run of its chain.
First(r) == IF runs[r].from = 0 THEN r ELSE runs[r].from

LatestIsTheFirst(k) == k

\* The run a chain of continue-as-new that began with k has come to.
Latest(k) == Max({q \in RunIds : First(q) = k})

ChildEnded(k) == k \in RunIds /\ runs[Latest(k)].status \in Terminal

Over(kids, any) == IF any THEN \E k \in kids : ChildEnded(k) ELSE \A k \in kids : ChildEnded(k)

\* An await of children: answered if they are over, else the run waits without a worker.
AwaitAnswered(r, c) ==
    /\ c.op = "await"
    /\ Over(c.kids, c.any)
    /\ \E k \in c.kids :
          /\ ChildEnded(k)
          /\ LET heard == IF c.any THEN {k} ELSE c.kids
             IN Record(r, Answer("await", "none",
                                 IF \A j \in heard : runs[Latest(j)].status = "done"
                                 THEN "ok" ELSE "error", k))
    /\ UNCHANGED <<scenario, now, exec, outbox, log, cancels, crashes, lost, orphans, dropped>>

AwaitSuspends(r, c) ==
    /\ c.op = "await"
    /\ runs[r].status = "running"
    /\ ~Over(c.kids, c.any)
    /\ runs' = [runs EXCEPT ![r].status = "waiting", ![r].waits = c.kids, ![r].any = c.any]
    /\ exec' = [exec EXCEPT ![r] = Idle]
    /\ UNCHANGED <<scenario, now, outbox, log, cancels, crashes, lost, orphans, dropped>>

ChildWakes(r) ==
    /\ runs[r].status = "waiting"
    /\ Over(runs[r].waits, runs[r].any)
    /\ runs' = [runs EXCEPT ![r].status = "ready", ![r].waits = {}, ![r].any = FALSE]
    /\ UNCHANGED <<scenario, now, exec, outbox, log, cancels, crashes, lost, orphans, dropped>>

\* The run ends and its successor's row is inserted, in one transaction; the successor is its
\* parent's child as the run was.
ContinueRun(r, c) ==
    /\ c.op = "continue"
    /\ runs[r].status = "running"
    /\ RoomForARow
    /\ runs' = [runs EXCEPT ![r].status = "done", ![r].result = "continued", ![r].holds = FALSE,
                            ![NewId] = Fresh(c.prog, runs[r].parent, runs[r].policy, First(r))]
    /\ exec' = [exec EXCEPT ![r] = Idle]
    /\ UNCHANGED <<scenario, now, outbox, log, cancels, crashes, lost, orphans, dropped>>

\* A failure is dead-lettered if its text is the engine's and the last durable act of the
\* run was the call that exhausted its budget.
FinalStatus(r, c) ==
    IF c.op = "return" THEN "done"
    ELSE IF /\ c.wrapped
            /\ runs[r].hist # <<>>
            /\ runs[r].hist[Len(runs[r].hist)].res = "exhausted"
         THEN "dead_lettered" ELSE "failed"

\* The run ends, and with it what its children were declared to do: enforceParentClosePolicy.
Finish(r, c) ==
    /\ c.op \in {"return", "fail"}
    /\ runs[r].status = "running"
    /\ runs' = [q \in RunIds |->
          CASE q = r -> [runs[r] EXCEPT
                            !.status = FinalStatus(r, c),
                            !.holds  = FALSE,
                            !.result = IF c.op = "return" THEN c.outcome ELSE "none"]
            [] q # r /\ runs[q].parent = r /\ Live(q) /\ runs[q].policy = "REQUEST_CANCEL" ->
                    [runs[q] EXCEPT !.cancel = TRUE]
            [] q # r /\ runs[q].parent = r /\ Live(q) /\ runs[q].policy = "TERMINATE" ->
                    [runs[q] EXCEPT !.status = "terminated", !.holds = FALSE]
            [] OTHER -> runs[q]]
    /\ exec' = [exec EXCEPT ![r] = Idle]
    /\ UNCHANGED <<scenario, now, outbox, log, cancels, crashes, lost, orphans, dropped>>

\* A worker still executing a run that was terminated under it finds its write refused.
FenceLost(r) ==
    /\ Executing(r)
    /\ runs[r].status = "terminated"
    /\ exec' = [exec EXCEPT ![r] = Idle]
    /\ UNCHANGED <<scenario, now, runs, outbox, log, cancels, crashes, lost, orphans, dropped>>

ReapReleasesKey(r) ==
    /\ runs[r].status = "running"
    /\ ~Executing(r)
    /\ runs' = [runs EXCEPT ![r].status = "ready", ![r].holds = FALSE]
    /\ UNCHANGED <<scenario, now, exec, outbox, log, cancels, crashes, lost, orphans, dropped>>

\* The heartbeat of a run nobody executes goes stale and the reaper makes it ready.
Reap(r) ==
    /\ runs[r].status = "running"
    /\ ~Executing(r)
    /\ runs' = [runs EXCEPT ![r].status = "ready"]
    /\ UNCHANGED <<scenario, now, exec, outbox, log, cancels, crashes, lost, orphans, dropped>>

\* The worker carries out c, the host call its replay of the guest arrived at.
Perform(r, c) ==
    \/ MakeCall(r, c) \/ RefuseCall(r, c) \/ RecordCall(r, c)
    \/ RecordSend(r, c) \/ RecordLocal(r, c) \/ SleepBegins(r, c)
    \/ InsertChild(r, c) \/ RecordChild(r, c)
    \/ AwaitAnswered(r, c) \/ AwaitSuspends(r, c)
    \/ ContinueRun(r, c) \/ Finish(r, c)

Progress(r) ==
    \/ \E w \in Workers : Claim(r, w)
    \/ Executing(r) /\ \E c \in {Asks(r)} : Perform(r, c)
    \/ SleepEnds(r) \/ ChildWakes(r) \/ FenceLost(r) \/ Reap(r)

---------------------------------------------------------------------------
(* The test and the machine.                                               *)

Tick ==
    /\ now < scenario.horizon
    /\ now' = now + 1
    /\ UNCHANGED <<scenario, runs, exec, outbox, log, cancels, crashes, lost, orphans, dropped>>

\* POST /api/workflows/:id/cancel of a run the test started.
RequestCancel(r) ==
    /\ r \in scenario.cancellable \ cancels
    /\ Live(r)
    /\ cancels' = cancels \cup {r}
    /\ runs' = [runs EXCEPT ![r].cancel = TRUE]
    /\ UNCHANGED <<scenario, now, exec, outbox, log, crashes, lost, orphans, dropped>>

\* Measured, not explained: a REQUEST_CANCEL child learns of its parent's cancel before the close.
CancelPropagates(r) ==
    /\ Live(r)
    /\ runs[r].policy = "REQUEST_CANCEL"
    /\ runs[r].parent # 0
    /\ runs[runs[r].parent].cancel
    /\ ~runs[r].cancel
    /\ runs' = [runs EXCEPT ![r].cancel = TRUE]
    /\ UNCHANGED <<scenario, now, exec, outbox, log, cancels, crashes, lost, orphans, dropped>>

KilledKeepsAnswer(segment) == [segment EXCEPT !.on = Nobody]

\* What SIGKILL leaves of a segment in memory.
Killed(segment) == Idle

\* worker.sh crash: every segment and goroutine of the process is gone, the rows are not.
Crash(w) ==
    /\ crashes < MaxCrashes
    /\ \/ \E r \in RunIds : exec[r].on = w
       \/ \E s \in outbox : s.on = w
    /\ crashes' = crashes + 1
    /\ LET mine   == {r \in RunIds : exec[r].on = w}
           queued == {s \in outbox : s.on = w}
           Unheard(r) == {[crash |-> crashes + 1, run |-> r, nth |-> n, tag |-> Asks(r).tag] :
                             n \in 1..exec[r].spent}
       IN /\ exec' = [r \in RunIds |-> IF r \in mine THEN Killed(exec[r]) ELSE exec[r]]
          /\ outbox' = outbox \ queued
          /\ lost' = lost \cup UNION {Unheard(r) : r \in mine}
          /\ dropped' = dropped \cup queued
          /\ orphans' = orphans + Cardinality({r \in mine : exec[r].child # 0})
    /\ UNCHANGED <<scenario, now, runs, log, cancels>>

Quiescent ==
    /\ \A r \in RunIds : ~Live(r) /\ ~Executing(r)
    /\ outbox = {}

Next ==
    \/ \E r \in RunIds : Progress(r) \/ RequestCancel(r) \/ CancelPropagates(r)
    \/ \E s \in outbox : Dispatch(s)
    \/ \E w \in Workers : Crash(w)
    \/ Tick

Spec == Init /\ [][Next]_vars

\* The engine as a whole keeps going while some run can take a step or a goroutine has a send.
\* Which run goes first is its own business, and nothing is assumed of the test or of crashes.
Fairness ==
    /\ WF_vars(\E r \in RunIds : Progress(r))
    /\ WF_vars(\E s \in outbox : Dispatch(s))
    /\ WF_vars(Tick)

FairSpec == Spec /\ Fairness

---------------------------------------------------------------------------
\* Rows are numbered without a gap, only a running or terminated row is executed, and an
\* unrecorded answer or child is the memory of a worker: what a crash may take.
TypeOK ==
    /\ \A r \in RunIds :
          /\ runs[r].status \in {"absent", "ready", "running", "sleeping", "waiting", "parked"} \cup Terminal
          /\ runs[r].parent \in RunIds \cup {0} /\ runs[r].from \in RunIds \cup {0}
          /\ runs[r].cancel \in BOOLEAN
          /\ exec[r].on \in Workers \cup {Nobody}
          /\ exec[r].child \in RunIds \cup {0}
          /\ Executing(r) => runs[r].status \in {"running", "terminated"}
          /\ ~Executing(r) => exec[r] = Idle
    /\ \A x \in lost : x.run \in RunIds /\ x.crash \in 1..crashes
    /\ \A s \in dropped : s.run \in RunIds /\ s \notin outbox
    /\ orphans \in Nat /\ crashes \in 0..MaxCrashes /\ cancels \subseteq RunIds
============================================================================
