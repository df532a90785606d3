------------------------------ MODULE MailRuns ------------------------------
(***************************************************************************)
(* The guests that wait, run durably: what the tests assert of signals,    *)
(* promises, locks, updates, queries and the durable clock, for every      *)
(* order of deliveries, timers, crashes and replays.                       *)
(***************************************************************************)
EXTENDS MailPrograms, Mailboxes

Is(r, w) == runs[r].prog.w = w

Events(r) == runs[r].hist

\* Where in r's history it consumed a signal posted to it, by a wait or by a poll.
Consumed(r) ==
    {i \in DOMAIN Events(r) : /\ Events(r)[i].op \in {"recv", "pollsignal"}
                             /\ Events(r)[i].res = "ok"
                             /\ Events(r)[i].run > 0}

\* What the API accepted for r under a name: positions among the requests posted.
PostedTo(r, kind) ==
    {k \in 1..posted : scenario.posts[k].kind = kind /\ scenario.posts[k].run = r}

---------------------------------------------------------------------------
(* What the tests give the guests they start, and post to them.            *)

IsTime(d) == d \in Nat \ {0}

\* The guests with one timeout, with one budget for several waits, and with a lock's TTL; those
\* with handlers for updates.
TimedGuests     == {"signalorder", "signalreceiver", "signaltimeout", "cansignal", "quorum",
                    "twoawaits", "promiseparent", "updatable"}
BudgetedGuests  == {"awaitsignals", "signalcounter", "promisechain"}
LockGuests      == {"lockholder", "locktry"}
UpdatedGuests   == {"updatable", "updates"}

OtherGuests == {"signalsender", "pollsignal", "selectorrace", "promisesettler", "updates",
                "querystate", "querytarget", "durableclock", "emptyorch", "badresult", "panicwf",
                "singletimer", "concurrency", "complexarg", "ownidentity", "versionone",
                "versiontwo", "minversion", "crontarget", "prioritymark", "plugincall",
                "cronscheduler", "scheduleinvoke", "idreuse", "parallelunit", "pluginstream",
                "replay", "determinism", "observerun", "childpriority", "childleaf"}

IsWaiter(p) ==
    /\ "w" \in DOMAIN p
    /\ p.w \in TimedGuests \cup BudgetedGuests \cup LockGuests \cup OtherGuests
    /\ p.w \in TimedGuests => "timeout" \in DOMAIN p /\ IsTime(p.timeout)
    /\ p.w \in BudgetedGuests => p.budget \in Nat
    /\ p.w = "promisechain" => p.count \in Nat \ {0}
    /\ p.w \in LockGuests => p.key \in LockKeys /\ p.ttl \in Nat
    /\ p.w = "selectorrace" => ToSet(p.timers) # {} /\ \A d \in ToSet(p.timers) : IsTime(d)
    /\ p.w = "cansignal" => "second" \in DOMAIN p /\ p.second \in BOOLEAN
    /\ p.w = "updates" => p.slices \in Nat
    /\ p.w = "querytarget" => p.steps \in Nat
    /\ p.w = "pluginstream" => p.events \in Nat

\* A test has time for its waits, and sends updates to guests that handle them.
ASSUME TestsStartWaiters ==
    \A test \in Scenarios :
        /\ \A i \in DOMAIN test.starts : IsWaiter(test.starts[i])
        /\ test.horizon # 0
        /\ Len(test.posts) \in Nat /\ DOMAIN test.posts = 1..Len(test.posts)
        /\ \A k \in DOMAIN test.posts :
              LET post == test.posts[k]
              IN post.kind = "update" => post.run \in DOMAIN test.starts
                                         /\ test.starts[post.run].w \in UpdatedGuests

---------------------------------------------------------------------------
\* A guest awaits promises it has created (promiseparent, promisechain: by the id it was given).
AwaitsItsOwn ==
    \A r \in RunIds :
        Live(r) /\ Asks(r).op = "awaitpromise" =>
            \E i \in DOMAIN Events(r) : /\ Events(r)[i].op = "create"
                                        /\ Events(r)[i].run = Asks(r).promise

\* A run somebody has sent an update to waits by the call that dispatches it (updatable, updates).
WaitsDispatch ==
    \A r \in RunIds :
        Live(r) /\ Pending(r) # {} /\ Asks(r).op = "recv" => Asks(r).dispatches

\* A run asks for a lock under the TTL it was started with (lockholder, locktry).
LocksByItsTtl ==
    \A r \in RunIds :
        Live(r) /\ Asks(r).op = "lock" =>
            /\ Asks(r).key \in LockKeys
            /\ Asks(r).ttl = runs[r].prog.ttl /\ Asks(r).ttl \in Nat

\* The guests with one budget for several waits.
IsBudgeted(r) == runs[r].prog.w \in BudgetedGuests

BudgetsAreTimes ==
    \A r \in RunIds : IsBudgeted(r) =>
        /\ runs[r].prog.budget \in Nat
        /\ Is(r, "promisechain") => runs[r].prog.count \in Nat \ {0}

\* The signals of a test: signalsender's, and those the test posts.
SignalNames == {"go"} \cup {scenario.posts[k].name : k \in DOMAIN scenario.posts}

\* A suspended wait has an owner: its deadline is after its beginning, and nothing but a wait is
\* suspended this way.  A guest awaits its own promises, leaves no update undispatched when it
\* waits, locks for the time it was started with, and has a budget if it keeps one.
MailTypeOK ==
    /\ TypeOK
    /\ \A r \in RunIds : runs[r].status = "parked" => Waits(Asks(r)) /\ runs[r].until # 0
    /\ \A r \in RunIds : Range(mail[r]) \subseteq [name : SignalNames, n : 0..Len(scenario.posts)]
    /\ missed \subseteq RunIds
    /\ AwaitsItsOwn
    /\ WaitsDispatch
    /\ LocksByItsTtl
    /\ BudgetsAreTimes

\* A signal is consumed by the run it was posted to, once, whatever crashed: not by the iteration
\* that run continues as (test_continue_as_new.py: the second iteration times out), and not again
\* out of the mailbox.  Signals of one name are consumed oldest first (test_signals.py: per-name
\* queues, each FIFO; a resend is a second signal).
SignalsAreConsumedOnceInOrder ==
    \A r \in RunIds :
        LET h == Events(r)
            m == mail[r]
        IN /\ \A i \in Consumed(r) : h[i].run \in PostedTo(r, "signal")
           /\ \A i, j \in Consumed(r) : i < j /\ h[i].tag = h[j].tag => h[i].run < h[j].run
           /\ \A i \in Consumed(r), j \in DOMAIN m :
                 h[i].tag = m[j].name /\ m[j].n > 0 => h[i].run < m[j].n

\* No run stays suspended on a signal that is in its mailbox or on a promise that is settled,
\* also when the delivery found it running (cleat#953: a delivery to a running row wakes
\* nobody; signal_counter_test.go, test_promise_wakes.py, test_cross_worker.py).
ParkedRunsHaveNothingToHear ==
    \A r \in RunIds : runs[r].status = "parked" => ~Answerable(r, Asks(r))

\* The budget of awaitsignals, signalcounter and promisechain is for all their waits together:
\* no wait is begun when it is spent, and no run gives up before it is (awaitsignals: passed
\* per call, an outsider could defer the end for ever).
BudgetIsForAllTheWaits ==
    \A r \in RunIds :
        LET h     == WithoutUpdates(Events(r))
            chain == Is(r, "promisechain")
            first == IF chain THEN runs[r].prog.count + 1 ELSE 1
            start == IF chain THEN h[first - 1].at ELSE h[1].since
        IN IsBudgeted(r) /\ Len(h) >= first =>
              /\ \A i \in first + 1 .. Len(h) : h[i - 1].at - start < runs[r].prog.budget
              /\ TimedOut(h) => Last(h).at >= After(start, runs[r].prog.budget)

\* What a run that ended says it has heard is what was posted to it: a quorum is of voters and a
\* complete set of names, each sent (three deliveries of one name are one vote: cleat#1132,
\* quorum_test.go, await_signals_test.go); a counter that heard `done` has counted every tick
\* posted before it (signal_counter_test.go: the count equals the number of signals sent).
ResultsMatchTheDeliveries ==
    \A r \in RunIds :
        LET sent   == PostedTo(r, "signal")
            voters == {scenario.posts[k].name : k \in sent}
            done   == Min({k \in sent : scenario.posts[k].name = "done"})
        IN /\ runs[r].result = "quorum"   => Cardinality(voters) >= runs[r].prog.need
           /\ runs[r].result = "complete" => runs[r].prog.names \subseteq voters
           /\ runs[r].result = "counted"  => query[r].n = Cardinality({k \in sent : k < done})

\* The deadline of an open wait never moves, however often the run is woken, killed and resumed
\* meanwhile (cleat#814: a wait re-armed on every resume never times out).
DeadlinesDoNotMove ==
    [][\A r \in RunIds :
          /\ runs[r].until # 0 /\ runs'[r].until # 0
          /\ Len(Events(r)) = Len(runs'[r].hist)
          => runs'[r].until = runs[r].until]_allVars

\* The grants of a lock to r, by their places in its history.
Grants(r) == {i \in DOMAIN Events(r) : Events(r)[i].op = "lock" /\ Events(r)[i].res = "ok"}

\* At time t the run r no longer has the lock its i-th event is the grant of.
GaveUp(r, i, t) ==
    \/ Events(r)[i].at + runs[r].prog.ttl <= t
    \/ \E j \in DOMAIN Events(r) : /\ j > i
                                   /\ Events(r)[j].op = "unlock"
                                   /\ Events(r)[j].tag = Events(r)[i].tag
                                   /\ Events(r)[j].at <= t

\* A lock passes from one run to another by release or by the end of its TTL, and not by the
\* suspension or the crash of its holder; and a holder whose TTL ended frees nobody else's
\* lock (lockholder: held by the RUN, across a suspension, test_locks.py).
LocksPassByReleaseOrByTime ==
    \A r \in RunIds : \A i \in Grants(r) :
        LET key == Events(r)[i].tag
            at  == Events(r)[i].at
        IN /\ GaveUp(r, i, now) \/ locks[key].by = r
           /\ \A q \in RunIds : \A j \in Grants(q) :
                 <<q, j>> # <<r, i>> /\ Events(q)[j].tag = key
                 => GaveUp(r, i, Events(q)[j].at) \/ GaveUp(q, j, at)

\* Every update is handled once and in the order of acceptance, and is settled exactly if it
\* was handled (updates_test.go: ordering; the run is unharmed by a refusal).
UpdatesAreHandledOnceInOrder ==
    \A r \in RunIds :
        LET h       == Events(r)
            Handled == {i \in DOMAIN h : h[i].op = "update"}
        IN /\ \A i, j \in Handled : i < j => h[i].run < h[j].run
           /\ \A k \in DOMAIN updates :
                 updates[k].run = r =>
                    (updates[k].state # "pending" <=> \E i \in Handled : h[i].run = k)

\* An update accepted before the run set out for a wait is settled when the wait is over: a guest
\* that waits with AwaitSignals dispatches it, one that waits with the primitive never would
\* (updatable; updates_test.go: an update that is accepted and never settles is the failure
\* mode the whole feature exists to prevent).
WaitsLeaveNoUpdatePending ==
    \A r \in RunIds : \A k \in DOMAIN updates : \A j \in DOMAIN Events(r) :
        /\ updates[k].run = r
        /\ Events(r)[j].op = "recv"
        /\ j > updates[k].from + 1
        => updates[k].state # "pending"

\* What a poll answered is what the guest acted on: the test posts the signal once the fixture
\* has the call that follows the first poll, so that poll answered `empty`, and says so after
\* every crash and resume (cleat#882, test_signals.py).
PollsKeepTheirAnswers ==
    \A r \in RunIds :
        Is(r, "pollsignal") /\ PostedTo(r, "signal") # {} => Events(r)[1].res = "empty"

\* A suspended run can be read: the query state in the database is what the guest had set when
\* it was suspended, not what it had set when it last ended (cleat#844, querytarget).
SuspendedRunsCanBeRead ==
    \A r \in RunIds :
        runs[r].status \in {"sleeping", "parked"} =>
            query[r] = Shown(runs[r].prog, IF runs[r].status = "sleeping"
                                           THEN Front(Events(r)) ELSE Events(r))

\* Two runs under one concurrency key never overlap, also when the first is suspended or has
\* lost its worker (test_concurrency.py: the second start is deferred).
KeyedRunsDoNotOverlap ==
    Cardinality({r \in scenario.keyed :
                    Live(r) /\ (runs[r].status # "ready" \/ Events(r) # <<>>)}) <= 1

\* Every run ends: no wait outlives its deadline, whatever was delivered, and no run waits for a
\* key whose holder is gone.
EveryWaitEnds == <>[](\A r \in RunIds : ~Live(r))
=============================================================================
