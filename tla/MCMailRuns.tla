----------------------------- MODULE MCMailRuns -----------------------------
(* The tests of the waiting guests as scenarios, for the run of MailRuns.  *)
EXTENDS MailRuns

CONSTANTS w1, w2

Test(starts, posts, horizon) ==
    [starts |-> starts, cancellable |-> {}, keyed |-> {}, posts |-> posts, horizon |-> horizon]

\* What the test posts to run 1, once it has seen `once`.
Request(kind, name, n, bad, once) ==
    [kind |-> kind, run |-> 1, name |-> name, n |-> n, bad |-> bad, once |-> once]

Signals(names, once) ==
    [i \in DOMAIN names |-> Request("signal", names[i], 0, FALSE, once)]
Settlements(hows, once) ==
    [i \in DOMAIN hows |-> Request(hows[i], "none", i, FALSE, once)]
Update(name, bad, once) == <<Request("update", name, 0, bad, once)>>

\* test_signals.py, test_continue_as_new.py
SignalTests ==
    {Test(<<[w |-> "signalorder", timeout |-> 1]>>,
          Signals(<<"queued", "topic", "queued">>, "waiting"), 3),
     Test(<<[w |-> "signalreceiver", timeout |-> 2], [w |-> "signalsender", target |-> 1]>>,
          <<>>, 2),
     Test(<<[w |-> "signaltimeout", timeout |-> 1]>>, Signals(<<"other">>, "start"), 2),
     Test(<<[w |-> "pollsignal", length |-> 1]>>, Signals(<<"go">>, "polled"), 2),
     Test(<<[w |-> "cansignal", timeout |-> 1, second |-> FALSE]>>,
          Signals(<<"carried", "go">>, "first"), 2)}

\* samples-go: await_signals, signal_counter, quorum, two awaits, selector
LoopTests ==
    {Test(<<[w |-> "awaitsignals", names |-> {"a", "b"}, budget |-> 2]>>,
          Signals(<<"a", "a", "b">>, "waiting"), 3),
     Test(<<[w |-> "signalcounter", budget |-> 2]>>,
          Signals(<<"tick", "tick", "done">>, "counting"), 3),
     Test(<<[w |-> "quorum", names |-> {"a", "b", "c"}, need |-> 2, timeout |-> 1]>>,
          Signals(<<"a", "a", "b">>, "waiting"), 2),
     Test(<<[w |-> "twoawaits", timeout |-> 1]>>, Signals(<<"a">>, "start"), 2),
     Test(<<[w |-> "selectorrace", names |-> {"go"}, timers |-> <<2, 1>>]>>,
          Signals(<<"go">>, "waiting"), 2),
     Test(<<[w |-> "selectorrace", names |-> {}, timers |-> <<1, 2>>]>>, <<>>, 2)}

\* test_promises.py, test_promise_wakes.py
PromiseTests ==
    {Test(<<[w |-> "promiseparent", mode |-> mode, timeout |-> 1]>>,
          Settlements(<<"resolved">>, "start"), 1) : mode \in {"timeout", "rejected"}}
    \cup {Test(<<[w |-> "promiseparent", mode |-> mode, timeout |-> 1]>>, <<>>, 1) :
              mode \in {"timeout", "resolved"}}
    \cup {Test(<<[w |-> "promisechain", count |-> 2, budget |-> 2]>>,
               Settlements(<<"resolved", "resolved">>, "awaiting"), 3),
          Test(<<[w |-> "promisechain", count |-> 2, budget |-> 1]>>,
               Settlements(<<"resolved", "rejected">>, "start"), 2)}

\* test_locks.py, test_concurrency.py
ExclusionTests ==
    {Test(<<[w |-> "lockholder", key |-> "k", ttl |-> 2, hold |-> 1],
            [w |-> "locktry", key |-> "k", ttl |-> 1]>>, <<>>, 2),
     Test(<<[w |-> "lockholder", key |-> "k", ttl |-> 1, hold |-> 2],
            [w |-> "lockholder", key |-> "k", ttl |-> 3, hold |-> 1]>>, <<>>, 3),
     [Test([r \in 1..2 |-> [w |-> "concurrency", length |-> 1]], <<>>, 2)
         EXCEPT !.keyed = {1, 2}]}

\* test_updates.py, updates_test.go
UpdateTests ==
    {Test(<<[w |-> "updatable", window |-> 1, timeout |-> 1]>>,
          Update("bump", bad, "ready") \o Update("bump", FALSE, "ready")
             \o Signals(<<"stop">>, "ready"), 2) : bad \in BOOLEAN}
    \cup {Test(<<[w |-> "updates", slices |-> 2]>>,
               Update(first, TRUE, "start") \o Update("apply_two", FALSE, "start"), 2) :
             first \in {"apply_one", "guarded", "boom", "no_such_handler"}}

\* query_test.go, durable_clock_test.go, test_query_state.py
ClockTests ==
    {Test(<<prog>>, <<>>, 2) :
        prog \in {[w |-> "querystate", length |-> 1], [w |-> "durableclock", length |-> 1],
                  [w |-> "querytarget", steps |-> 2, length |-> 1]}}

\* The guests of one host call or none, each by itself; and the runs that look at others.
OneCallTests ==
    {Test(<<prog>>, <<>>, 1) :
        prog \in {[w |-> w] : w \in {"emptyorch", "singletimer", "complexarg", "ownidentity",
                                     "versionone", "versiontwo", "minversion", "crontarget",
                                     "prioritymark", "plugincall", "cronscheduler",
                                     "determinism", "childpriority"}}
              \cup {[w |-> "badresult", kind |-> kind] : kind \in {"valid", "bare-string", "unknown"}}
              \cup {[w |-> "panicwf", panics |-> panics] : panics \in BOOLEAN}
              \cup {[w |-> "idreuse", sleeps |-> TRUE, fails |-> fails] : fails \in BOOLEAN}
              \cup {[w |-> "pluginstream", events |-> 2], [w |-> "replay", length |-> 1],
                    [w |-> "scheduleinvoke", delay |-> 1, length |-> 1]}}
    \cup {Test(<<[w |-> "childleaf"], [w |-> "observerun", target |-> 1]>>, <<>>, 1),
          Test(<<[w |-> "parallelunit"], [w |-> "parallelunit"]>>, <<>>, 1)}

WaitingTests == SignalTests \cup LoopTests \cup PromiseTests \cup ExclusionTests
                   \cup UpdateTests \cup ClockTests \cup OneCallTests
=============================================================================
