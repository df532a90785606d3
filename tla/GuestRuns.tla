----------------------------- MODULE GuestRuns -----------------------------
(***************************************************************************)
(* The guests of the ports, run durably: what the tests assert of them,    *)
(* for every interleaving with crashes, cancels and the reaper and not     *)
(* only for the ones a test can time.                                      *)
(*                                                                         *)
(* A scenario is one test: the programs it starts, the runs it may cancel, *)
(* and what its assertions say the fixture should have received: at most   *)
(* `allows[t]`, at least `owes[t]` requests under tag t, the first of each *)
(* in the given order.                                                     *)
(***************************************************************************)
EXTENDS GuestPrograms, DurableRuns

\* A budget of attempts, and how often the fixture is to fail.
IsRetry(p) == p.attempts \in Nat \ {0} /\ p.failTimes \in Nat

\* What a test gives a guest.  A child the input names is one that starts no run but its own
\* next iteration.
IsInput(p) ==
    /\ "w" \in DOMAIN p
    /\ p.w \in {"recovery", "retry", "deadletter", "deadletteropaque", "send", "sendaftersleep",
               "defercleanup", "deferdeadletter", "continueasnew", "saga", "cancellable",
               "bulkcancel", "cancelchild", "childleaf", "failingchild", "childsleeper",
               "recoveryparent", "awaitonechild", "failparent", "casnparent", "casnchild",
               "terminateleaf", "parentfanout", "childparent", "terminateroot",
               "cancelawaitingparent", "abandonvariant", "detached"}
    /\ p.w \in {"cancellable", "bulkcancel", "cancelchild", "cancelawaitingparent",
               "abandonvariant"} => p.slices \in Nat
    /\ p.w = "retry" => IsRetry(p)
    /\ p.w \in {"deadletter", "deadletteropaque", "deferdeadletter"} => p.attempts \in Nat \ {0}
    /\ p.w = "continueasnew" => "remaining" \in DOMAIN p /\ p.remaining \in Nat
    /\ p.w = "casnchild" => "iterations" \in DOMAIN p /\ p.iterations \in Nat
    /\ p.w = "parentfanout" => p.n \in Nat
    /\ p.w = "casnparent" =>
          /\ {"w", "iterations"} \subseteq DOMAIN p.child
          /\ p.child.w = "casnchild" /\ p.child.iterations \in Nat
    /\ p.w \in {"recoveryparent", "cancelchild", "detached"} =>
          /\ "w" \in DOMAIN p.child /\ p.child.w \in {"retry", "childleaf"}
          /\ p.child.w = "retry" => IsRetry(p.child)

ASSUME TestsStartGuests ==
    \A test \in Scenarios : \A i \in DOMAIN test.starts : IsInput(test.starts[i])

---------------------------------------------------------------------------
(* How often the tests expect a request: what a test allows is at least    *)
(* what its guests ask for once.                                           *)

Expected(t, counts) == IF t \in DOMAIN counts THEN counts[t] ELSE 0

\* A saga compensates what came before the step that fails, last step first.
SagaOrder(failAt) ==
    CASE failAt = "Withdraw" -> <<"Withdraw">>
      [] failAt = "Deposit"  -> <<"Withdraw", "Deposit", "WithdrawCompensation">>
      [] failAt = "Notify"   -> <<"Withdraw", "Deposit", "Notify", "DepositCompensation",
                                  "WithdrawCompensation">>
      [] OTHER               -> SagaForward

SagaRequests(failAt) == ToSet(SagaOrder(failAt))

\* The sequence of one guest's requests.
ScriptOrder(p) == IF p.w = "recovery" THEN <<"before", "after">> ELSE SagaOrder(p.failAt)

\* A test that lists a sequence starts one guest, whose sequence it is, and lets it run.
ASSUME TestsListTheirGuests ==
    \A test \in Scenarios : test.order # <<>> =>
        /\ DOMAIN test.starts = {1}
        /\ test.starts[1].w \in {"recovery", "saga"}
        /\ test.order = ScriptOrder(test.starts[1])
        /\ test.cancellable = {}

\* The tags a run given p requests once, `work` apart.
OnceTags(p) ==
    CASE p.w = "recovery"       -> {"before", "after"}
      [] p.w = "send"           -> {"early"}
      [] p.w = "sendaftersleep" -> {"early", "late"}
      [] p.w \in {"defercleanup", "deferdeadletter"} -> {"body", "cleanup"}
      [] p.w = "continueasnew"  -> {"iteration"}
      [] p.w = "casnchild"      -> {"Iteration"}
      [] p.w = "bulkcancel"     -> {"one", "two"}
      [] p.w = "childsleeper"   -> {"started", "finished"}
      [] p.w = "saga"           -> SagaRequests(p.failAt)
      [] OTHER                  -> {}

\* The attempts at `work`: until the fixture stops failing it, and no more than the budget.
Attempts(p) ==
    CASE p.w = "retry" -> IF p.failTimes < p.attempts THEN p.failTimes + 1 ELSE p.attempts
      [] p.w \in {"deadletter", "deadletteropaque", "deferdeadletter"} -> p.attempts
      [] OTHER -> 0

\* The iterations after the first of n.
Later(n) == IF n > 1 THEN n - 1 ELSE 0

\* The requests under t of a run given p: its own, and those of the child it starts or of the
\* iterations it goes on as.
Share(p, t) == IF t = "work" THEN Attempts(p) ELSE IF t \in OnceTags(p) THEN 1 ELSE 0

Legacy(p, t) ==
    CASE p.w \in {"recoveryparent", "cancelchild", "detached"} -> Share(p.child, t)
      [] p.w = "childparent" -> Share([w |-> "childsleeper"], t)
      [] p.w = "casnparent" /\ t = "Iteration" -> 1 + Later(p.child.iterations)
      [] p.w = "casnchild" /\ t = "Iteration" -> Later(p.iterations)
      [] p.w = "continueasnew" /\ t = "iteration" -> Later(p.remaining)
      [] OTHER -> 0

Worth(p, t) == Share(p, t) + Legacy(p, t)

\* The requests of all the runs a test starts, numbered.
Asked(test, t) == UNION {{i} \X (1..Worth(test.starts[i], t)) : i \in DOMAIN test.starts}

\* The tags of any guest's requests.
RequestTags ==
    (UNION {OnceTags([w |-> w]) : w \in {"recovery", "send", "sendaftersleep", "defercleanup",
                                         "continueasnew", "casnchild", "bulkcancel",
                                         "childsleeper"}})
        \cup SagaRequests("Notify") \cup {"work"}

ASSUME TestsAllowTheirGuests ==
    \A test \in Scenarios :
        /\ IsFiniteSet(DOMAIN test.starts)
        /\ \A t \in DOMAIN test.allows : test.allows[t] \in Nat
        /\ \A t \in RequestTags : Cardinality(Asked(test, t)) <= Expected(t, test.allows)

Tags == ToSet(log) \cup DOMAIN scenario.owes

Is(r, w) == runs[r].prog.w = w

\* A receipt whose event was lost, or all the work of an orphaned child, may come again.
\* Nothing else may: a request whose event is durable is answered from history, by this
\* worker and by the one that takes the run over (test_recovery.py: `before` and `after`
\* are 1, the child ran once; `calls in (resumed, restarted)` for a retry).
EffectsHappenOnce ==
    \A t \in Tags : Received(t) <= Expected(t, scenario.allows) * (1 + orphans) + Tagged(lost, t)

\* A test that cancels nothing ends with all its work done: a crash costs no call, and of the
\* sends only those it kept from being dispatched (test_send.py, test_defer.py: the late
\* send, the cleanup and the third iteration arrive).
WorkOwedIsDone ==
    (Quiescent /\ cancels = {}) =>
        \A t \in Tags : Received(t) >= Expected(t, scenario.owes) - Tagged(dropped, t)

\* The fixture's log goes through the sequence the test lists: every request is the first of it,
\* or repeats the one before (a crash kept its event from history), or is the next of the
\* sequence.  A saga compensates in reverse, only what completed, and goes on after a
\* compensation that failed (saga_test.go).
RequestsComeInOrder ==
    scenario.order # <<>> =>
        \A k \in DOMAIN log : \E i \in DOMAIN scenario.order :
            /\ log[k] = scenario.order[i]
            /\ k = 1 => i = 1
            /\ k > 1 => log[k - 1] = log[k] \/ (i > 1 /\ log[k - 1] = scenario.order[i - 1])

\* No cleanup reaches the fixture before the body of its run has returned, however the body
\* ends and however often it is replayed (test_defer.py: a defer that fires when registered
\* is a defer in name only).
CleanupWaitsForTheEnd ==
    Received("cleanup") > 0 =>
        \E r \in RunIds : /\ Is(r, "defercleanup") \/ Is(r, "deferdeadletter")
                          /\ Ended(Body(runs[r].prog, Heard(runs[r].hist)))

\* A cancel stops what it was given and nothing else: of several identical runs the ones that
\* report `cancelled` have not run step two, the others at most once each, and those that report
\* it were aimed at, or asked for it through REQUEST_CANCEL; a child declared ABANDON was not
\* (test_bulk_cancel.py: the omission is the whole assertion; test_cancel_propagation.py).
CancelStopsItsTargetsOnly ==
    /\ Received("two") <=
           Cardinality({r \in RunIds : Is(r, "bulkcancel") /\ runs[r].result # "cancelled"})
               + Tagged(lost, "two")
    /\ \A r \in RunIds :
           runs[r].result = "cancelled" =>
               \/ r \in cancels
               \/ runs[r].parent # 0 /\ Is(runs[r].parent, "cancelawaitingparent")

\* A closed root has left nothing running: the leaf it did not await is terminated with it
\* (terminateroot), and the long child it did not await has been told to stop
\* (cancelawaitingparent).  A child whose spawn a crash kept from history is a child too.
ClosedParentsLeaveNothingRunning ==
    \A p, c \in RunIds :
        runs[c].parent = p /\ runs[p].status \in Terminal =>
            /\ Is(p, "terminateroot") => ~Live(c)
            /\ Is(p, "cancelawaitingparent") => (Live(c) => runs[c].cancel)

\* A parent that awaits a child that continues as new goes on after the last iteration and not
\* after the one it holds the id of (child_continue_as_new_test.go).
ParentSeesTheLastIteration ==
    \A r \in RunIds :
        Is(r, "casnparent") /\ runs[r].status = "done" =>
            Received("Iteration") >= runs[r].prog.child.iterations

\* Every run the test started, and every child of one, reaches a terminal status: a worker
\* lost mid-sleep, mid-call, mid-backoff or between a spawn and its await delays it, and no
\* parent waits for a child that cannot end.
EveryRunEnds == <>[](\A r \in RunIds : ~Live(r))
============================================================================
