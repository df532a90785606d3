---------------------------- MODULE MailPrograms ----------------------------
(***************************************************************************)
(* The guests that wait for somebody: for signals, promises, locks and     *)
(* updates, or for the clock; and the guests of one host call or none.     *)
(*                                                                         *)
(* As in GuestPrograms a guest is a function of its answers.  The answer   *)
(* of a timed wait also says when the wait began, and every answer when it *)
(* was recorded, which is all a guest can learn of the time: h.Now() is    *)
(* the time of the last durable event.                                     *)
(***************************************************************************)
EXTENDS GuestPrograms, FiniteSets

---------------------------------------------------------------------------
(* Host calls.                                                             *)

\* h.DurableAwaitSignals: waits, and handles no update while it does.
Receive(names, timeout) ==
    [op |-> "recv", names |-> names, timeout |-> timeout, dispatches |-> FALSE]

\* h.AwaitSignals, the wrapper: calls DispatchUpdates before it suspends.
AwaitSignals(names, timeout) == [Receive(names, timeout) EXCEPT !.dispatches = TRUE]

PollSignal(name)          == [op |-> "pollsignal", name |-> name]
SignalWorkflow(to, name)  == [op |-> "signal", to |-> to, name |-> name]
CreatePromise             == [op |-> "create"]
Settle(promise, how)      == [op |-> "settle", promise |-> promise, how |-> how]
AwaitPromise(id, timeout) == [op |-> "awaitpromise", promise |-> id, timeout |-> timeout]
AcquireLock(key, ttl)     == [op |-> "lock", key |-> key, ttl |-> ttl]
ReleaseLock(key)          == [op |-> "unlock", key |-> key]
ScheduleInvoke(tag, wait) == [op |-> "invoke", tag |-> tag, delay |-> wait]
PollChild(run)            == [op |-> "peek", run |-> run]

\* h.SideEffect, h.ScheduleCron, h.ListCrons, a stream's event: recorded, and nothing waits.
Note(what) == [op |-> "note", tag |-> what]

---------------------------------------------------------------------------
(* What a waiting guest can tell.                                          *)

TimedOut(h) == h # <<>> /\ Last(h).res = "timedout"

\* The distinct names heard.
Names(h) == {h[i].tag : i \in {j \in DOMAIN h : h[j].op = "recv" /\ h[j].res = "ok"}}

HeardOf(h, name) == Cardinality({i \in DOMAIN h : h[i].op = "recv" /\ h[i].tag = name})

\* What is left of a budget that began with the first wait of h.
Left(budget, h) == IF h = <<>> THEN budget ELSE budget - (Last(h).at - h[1].since)

\* A budget given anew to every wait.
LeftOfThisCall(budget, h) == budget

---------------------------------------------------------------------------
(* Signals.                                                                *)

SignalOrder(p, h) ==
    IF TimedOut(h) THEN Return("timedout")
    ELSE Propagating(<<Call("waiting"), Receive({"topic"}, p.timeout),
                       Receive({"queued"}, p.timeout), Receive({"queued"}, p.timeout)>>, h)

SignalReceiver(p, h) ==
    IF TimedOut(h) THEN Return("timedout")
    ELSE Propagating(<<Call("waiting"), Receive({"go"}, p.timeout)>>, h)

SignalSender(p, h) ==
    IF Failed(h) THEN Return("error")
                 ELSE Script(<<SignalWorkflow(p.target, "go")>>, Return("sent"), h)

SignalTimeout(p, h) ==
    IF TimedOut(h) THEN Return("timedout")
                   ELSE Script(<<Receive({"never-sent"}, p.timeout)>>, Return("signalled"), h)

PollSignalTwice(p, h) ==
    Propagating(<<PollSignal("go"), Call("polled"), SleepFor(p.length), PollSignal("go")>>, h)

CanSignal(p, h) ==
    IF TimedOut(h) THEN Return(IF p.second THEN "timedout" ELSE "never-released")
    ELSE IF p.second
         THEN Script(<<Call("second"), Receive({"carried"}, p.timeout)>>, Return("carried"), h)
         ELSE Propagating(<<Call("first"), Receive({"go"}, p.timeout),
                            Continue([p EXCEPT !.second = TRUE])>>, h)

\* The loop ends when every name has been heard, or when its total budget is spent.
AwaitEveryName(p, h, left) ==
    CASE TimedOut(h)                           -> Return("timedout")
      [] ~TimedOut(h) /\ p.names = Names(h)    -> Return("complete")
      [] OTHER -> IF left <= 0 THEN Return("timedout") ELSE AwaitSignals(p.names, left)

AwaitEverySignalPerCall(p, h) == AwaitEveryName(p, h, LeftOfThisCall(p.budget, h))

AwaitEverySignal(p, h) == AwaitEveryName(p, h, Left(p.budget, h))

SignalCounter(p, h) ==
    CASE TimedOut(h)                                -> Return("timedout")
      [] ~TimedOut(h) /\ "done" \in Names(h)        -> Return("counted")
      [] OTHER -> IF Left(p.budget, h) <= 0 THEN Return("timedout")
                  ELSE AwaitSignals({"tick", "done"}, Left(p.budget, h))

\* AwaitSignalsWithQuorum narrows the awaited set as distinct names arrive.
QuorumOfVotes(p, h) ==
    CASE h = <<>>                                   -> Call("waiting")
      [] TimedOut(h)                                -> Return("timedout")
      [] ~TimedOut(h) /\ Len(h) - 1 >= p.need       -> Return("quorum")
      [] OTHER                                      -> AwaitSignals(p.names, p.timeout)

Quorum(p, h) ==
    CASE h = <<>>                                            -> Call("waiting")
      [] TimedOut(h)                                         -> Return("timedout")
      [] ~TimedOut(h) /\ Cardinality(Names(h)) >= p.need     -> Return("quorum")
      [] OTHER -> AwaitSignals(p.names \ Names(h), p.timeout)

\* The outcome says which of the two waits timed out.
TwoAwaits(p, h) ==
    Script(<<AwaitSignals({"a", "b"}, p.timeout), AwaitSignals({"a", "b"}, p.timeout)>>,
           Return("read"), h)

\* cleat.NewSelector: the earliest of the timers is the deadline of the wait for the signal.
SelectorRace(p, h) ==
    IF h = <<>> THEN AwaitSignals(p.names, Min(ToSet(p.timers)))
    ELSE Return(IF TimedOut(h) THEN "timer" ELSE "signal")

---------------------------------------------------------------------------
(* Promises.                                                               *)

PromiseParent(p, h) ==
    LET id    == Kid(h, 1)
        child == IF p.mode = "timeout" THEN <<>>
                 ELSE <<Child([w |-> "promisesettler", promise |-> id, mode |-> p.mode])>>
    IN CASE TimedOut(h)  -> Return("timedout")
         [] Failed(h)    -> Return("error")
         [] OTHER -> Script(<<CreatePromise>> \o child \o <<AwaitPromise(id, p.timeout)>>,
                            Return("resolved"), h)

PromiseSettler(p, h) == Propagating(<<Settle(p.promise, p.mode)>>, h)

\* The budget of the waits begins when the last promise has been created.
PromiseChain(p, h) ==
    LET i    == Len(h) - p.count + 1
        left == p.budget - (Last(h).at - h[p.count].at)
    IN IF Len(h) < p.count THEN CreatePromise ELSE
       CASE TimedOut(h)                     -> Return("timedout")
         [] Failed(h)                       -> Wrapped
         [] Len(h) = 2 * p.count /\ ~TimedOut(h) /\ ~Failed(h) -> Return("resolved")
         [] OTHER -> IF left <= 0 THEN Return("timedout") ELSE AwaitPromise(h[i].run, left)

---------------------------------------------------------------------------
(* Locks.                                                                  *)

LockHolder(p, h) ==
    IF h # <<>> /\ h[1].res = "taken" THEN Return("not-acquired")
    ELSE Propagating(<<AcquireLock(p.key, p.ttl), Call("held"), SleepFor(p.hold),
                       ReleaseLock(p.key)>>, h)

LockTry(p, h) ==
    IF h # <<>> /\ h[1].res = "taken" THEN Return("not-acquired")
    ELSE Script(<<AcquireLock(p.key, p.ttl), ReleaseLock(p.key)>>, Return("acquired"), h)

---------------------------------------------------------------------------
(* Updates.  A handler's verdict on a request; `refused` is the validator's. *)

Verdict(w, request) ==
    CASE w = "updates" /\ request.name \in {"apply_one", "apply_two", "echo"} -> "done"
      [] w = "updates" /\ request.name = "guarded" -> IF request.bad THEN "refused" ELSE "done"
      [] w = "updates" /\ request.name = "boom"    -> "failed"
      [] w = "updatable" /\ request.name = "bump"  -> IF request.bad THEN "refused" ELSE "done"
      [] OTHER -> "unhandled"

Updatable(p, h) ==
    Propagating(<<Call("ready"), SleepFor(p.window), AwaitSignals({"stop"}, p.timeout)>>, h)

UpdatesOnPrimitive(p, h) ==
    Script([i \in 1..p.slices |-> Receive({"never"}, 1)], Return("finished"), h)

Updates(p, h) ==
    Script([i \in 1..p.slices |-> AwaitSignals({"never"}, 1)], Return("finished"), h)

---------------------------------------------------------------------------
(* The clock and the query state.                                          *)

QueryState(p, h)   == Script(<<SleepFor(p.length)>>, Return("finished"), h)
QueryTarget(p, h)  == Script([i \in 1..p.steps |-> SleepFor(p.length)], Return("finished"), h)
DurableClock(p, h) == Propagating(<<Call("Mark"), SleepFor(p.length)>>, h)

\* The keys a guest has published by SetQueryState: its phase, and the number it counts.
State(phase, n) == [phase |-> phase, n |-> n]

Published(p, h) ==
    CASE p.w = "awaitsignals"  -> State(IF p.names = Names(h) THEN "complete" ELSE "waiting",
                                        Cardinality(Names(h)))
      [] p.w = "signalcounter" -> State(IF "done" \in Names(h) THEN "finished" ELSE "counting",
                                        HeardOf(h, "tick"))
      [] p.w = "promisechain"  -> IF Len(h) < p.count THEN State("none", 0)
                                  ELSE State("awaiting", Len(h) - p.count)
      [] p.w = "selectorrace"  -> State("waiting", 0)
      [] p.w = "querystate"    -> State(IF h = <<>> THEN "started" ELSE "finished", 0)
      [] p.w = "querytarget"   -> State(IF Len(h) < p.steps THEN "running" ELSE "finished", Len(h))
      [] OTHER                 -> State("none", 0)

---------------------------------------------------------------------------
(* One host call or none.                                                  *)

EmptyOrch(p, h)    == Return("empty")
BadResult(p, h)    == IF p.kind = "unknown" THEN OwnWords ELSE Return(p.kind)
PanicWF(p, h)      == IF p.panics THEN OwnWords ELSE Return("returned-normally")
SingleTimer(p, h)  == Script(<<Sleep>>, Return("resumed"), h)
HoldsKey(p, h)     == Script(<<SleepFor(p.length)>>, Return("done"), h)
ComplexArg(p, h)   == Script(<<Sleep>>, Return("echoed"), h)
OwnIdentity(p, h)  == Script(<<Sleep>>, Return("identified"), h)
VersionOne(p, h)   == Script(<<Sleep>>, Return("one"), h)
VersionTwo(p, h)   == Script(<<Sleep>>, Return("two"), h)
MinVersion(p, h)   == Propagating(<<Call("first"), Sleep>>, h)
CronTarget(p, h)   == Script(<<Call("op")>>, Return("ran"), h)
PriorityMark(p, h) == Propagating(<<Call("p")>>, h)
PluginCall(p, h)   == Propagating(<<Call("chat")>>, h)
CronScheduler(p, h)  == Propagating(<<Note("schedule"), Note("list")>>, h)
ScheduledInvoke(p, h) == Propagating(<<ScheduleInvoke("op", p.delay), SleepFor(p.length)>>, h)

IdReuse(p, h) ==
    Script(IF p.sleeps THEN <<Sleep>> ELSE <<>>,
           IF p.fails THEN OwnWords ELSE Return("finished"), h)

ParallelUnit(p, h) ==
    IF Failed(h) THEN Return("failed") ELSE Script(<<Call("unit")>>, Return("succeeded"), h)

\* One request; then each event of the answering stream is recorded by itself.
PluginStream(p, h) ==
    Propagating(<<Call("chat_stream")>> \o [i \in 1..p.events |-> Note("event")], h)

ReplayIdentity(p, h) ==
    Propagating(<<Note("anchor"), Note("cached"), SleepFor(p.length)>>, h)

Determinism(p, h) ==
    Propagating([i \in 1..5 |-> Note(<<"anchor", "r1", "r2", "workflow", "run">>[i])]
                \o <<Sleep>>, h)

ObserveRun(p, h) ==
    IF Failed(h) THEN Return("error") ELSE Script(<<PollChild(p.target)>>, Return("observed"), h)

ChildPriority(p, h) ==
    Propagating(<<Child([w |-> "childleaf"]), Child([w |-> "childleaf"])>>, h)

---------------------------------------------------------------------------
(* The registry.                                                           *)

Waiting(p, h) ==
    CASE p.w = "signalorder"    -> SignalOrder(p, h)
      [] p.w = "signalreceiver" -> SignalReceiver(p, h)
      [] p.w = "signalsender"   -> SignalSender(p, h)
      [] p.w = "signaltimeout"  -> SignalTimeout(p, h)
      [] p.w = "pollsignal"     -> PollSignalTwice(p, h)
      [] p.w = "cansignal"      -> CanSignal(p, h)
      [] p.w = "awaitsignals"   -> AwaitEverySignal(p, h)
      [] p.w = "signalcounter"  -> SignalCounter(p, h)
      [] p.w = "quorum"         -> Quorum(p, h)
      [] p.w = "twoawaits"      -> TwoAwaits(p, h)
      [] p.w = "selectorrace"   -> SelectorRace(p, h)
      [] p.w = "promiseparent"  -> PromiseParent(p, h)
      [] p.w = "promisesettler" -> PromiseSettler(p, h)
      [] p.w = "promisechain"   -> PromiseChain(p, h)
      [] p.w = "lockholder"     -> LockHolder(p, h)
      [] p.w = "locktry"        -> LockTry(p, h)
      [] p.w = "updatable"      -> Updatable(p, h)
      [] p.w = "updates"        -> Updates(p, h)
      [] p.w = "querystate"     -> QueryState(p, h)
      [] p.w = "querytarget"    -> QueryTarget(p, h)
      [] p.w = "durableclock"   -> DurableClock(p, h)
      [] p.w = "emptyorch"      -> EmptyOrch(p, h)
      [] p.w = "badresult"      -> BadResult(p, h)
      [] p.w = "panicwf"        -> PanicWF(p, h)
      [] p.w = "singletimer"    -> SingleTimer(p, h)
      [] p.w = "concurrency"    -> HoldsKey(p, h)
      [] p.w = "complexarg"     -> ComplexArg(p, h)
      [] p.w = "ownidentity"    -> OwnIdentity(p, h)
      [] p.w = "versionone"     -> VersionOne(p, h)
      [] p.w = "versiontwo"     -> VersionTwo(p, h)
      [] p.w = "minversion"     -> MinVersion(p, h)
      [] p.w = "crontarget"     -> CronTarget(p, h)
      [] p.w = "prioritymark"   -> PriorityMark(p, h)
      [] p.w = "plugincall"     -> PluginCall(p, h)
      [] p.w = "cronscheduler"  -> CronScheduler(p, h)
      [] p.w = "scheduleinvoke" -> ScheduledInvoke(p, h)
      [] p.w = "idreuse"        -> IdReuse(p, h)
      [] p.w = "parallelunit"   -> ParallelUnit(p, h)
      [] p.w = "pluginstream"   -> PluginStream(p, h)
      [] p.w = "replay"         -> ReplayIdentity(p, h)
      [] p.w = "determinism"    -> Determinism(p, h)
      [] p.w = "observerun"     -> ObserveRun(p, h)
      [] p.w = "childpriority"  -> ChildPriority(p, h)
      [] OTHER                  -> Body(p, h)

\* A history without its updates.
WithoutUpdates(h) ==
    LET own    == {i \in DOMAIN h : h[i].op # "update"}
        Nth(n) == CHOOSE i \in own : Cardinality({j \in own : j <= i}) = n
    IN [n \in 1..Cardinality(own) |-> h[Nth(n)]]

\* These guests register no defer; an update answered on the way is not the body's to hear.
PortCall(p, h) == Waiting(p, WithoutUpdates(h))
=============================================================================
