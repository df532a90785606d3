---------------------------- MODULE MCGuestRuns ----------------------------
(* The tests of the ports as scenarios, for the run of GuestRuns.          *)
EXTENDS GuestRuns, Bags

CONSTANTS w1, w2

\* `least` and `most` are bags of request tags.
Between(starts, cancellable, least, most, order) ==
    [starts |-> starts, cancellable |-> cancellable, order |-> order,
     owes   |-> least, allows |-> most, keyed |-> {}, horizon |-> 0]

Exactly(prog, effects) == Between(<<prog>>, {}, effects, effects, <<>>)

Nothing == EmptyBag
Once(tags) == SetToBag(tags)

InOrder(prog, order) ==
    Between(<<prog>>, {}, Once(ToSet(order)), Once(ToSet(order)), order)

\* A test whose sleeps take time; in the others they may end at once.
Timed(test) == [test EXCEPT !.horizon = 1]

OneRetry == [w |-> "retry", attempts |-> 1, failTimes |-> 0]

\* test_recovery.py, test_retries.py, test_dead_letters.py
Recoveries ==
    {Timed(InOrder([w |-> "recovery"], <<"before", "after">>)),
     Exactly([w |-> "recoveryparent", child |-> OneRetry], Once({"work"})),
     Exactly([w |-> "retry", attempts |-> 3, failTimes |-> 3], [work |-> 3]),
     Exactly([w |-> "retry", attempts |-> 3, failTimes |-> 1], [work |-> 2]),
     Between(<<[w |-> "deadletter", attempts |-> 2]>>, {}, [work |-> 2], [work |-> 2], <<>>),
     Exactly([w |-> "deadletteropaque", attempts |-> 2], [work |-> 2]),
     Exactly([w |-> "detached", child |-> OneRetry], Once({"work"}))}

\* test_send.py, test_defer.py
Sends ==
    {Exactly([w |-> "send"], Once({"early"})),
     Timed(Exactly([w |-> "sendaftersleep"], Once({"early", "late"}))),
     Exactly([w |-> "defercleanup"], Once({"body", "cleanup"})),
     Exactly([w |-> "deferdeadletter", attempts |-> 2],
             [body |-> 1, cleanup |-> 1, work |-> 2])}

\* test_continue_as_new.py, child_workflow_test.go
Chains ==
    {Exactly([w |-> "continueasnew", remaining |-> 3], [iteration |-> 3]),
     Exactly([w |-> "casnparent", child |-> [w |-> "casnchild", iterations |-> 2]],
             [Iteration |-> 2])}

\* saga_test.go
Transfer(failAt, failCompensationAt) ==
    [w |-> "saga", failAt |-> failAt, failCompensationAt |-> failCompensationAt]

Sagas ==
    {InOrder(Transfer("none", "none"), <<"Withdraw", "Deposit", "Notify">>),
     InOrder(Transfer("Withdraw", "none"), <<"Withdraw">>),
     InOrder(Transfer("Deposit", "none"), <<"Withdraw", "Deposit", "WithdrawCompensation">>),
     InOrder(Transfer("Notify", "none"),
             <<"Withdraw", "Deposit", "Notify", "DepositCompensation", "WithdrawCompensation">>),
     InOrder(Transfer("Notify", "DepositCompensation"),
             <<"Withdraw", "Deposit", "Notify", "DepositCompensation", "WithdrawCompensation">>)}

\* test_cancellation.py, test_bulk_cancel.py, test_cancel_propagation.py, cancellation_test.go
Cancels ==
    {Between(<<prog>>, {1}, Nothing, Nothing, <<>>) :
        prog \in {[w |-> "cancellable", poll |-> TRUE, slices |-> 2],
                  [w |-> "cancellable", poll |-> FALSE, slices |-> 2],
                  [w |-> "cancelchild", slices |-> 2, child |-> [w |-> "childleaf"]],
                  [w |-> "cancelawaitingparent", slices |-> 1],
                  [w |-> "abandonvariant", slices |-> 1]}}
    \cup
    {Between(<<[w |-> "bulkcancel", slices |-> 1], [w |-> "bulkcancel", slices |-> 1]>>, {1},
             [one |-> 2, two |-> 2], [one |-> 2, two |-> 2], <<>>)}

\* test_children.py, child_workflow_test.go, the durabletask-go port
Parents ==
    {Exactly([w |-> "awaitonechild"], Nothing),
     Exactly([w |-> "failparent"], Nothing),
     Exactly([w |-> "terminateroot"], Nothing)}
    \cup {Exactly([w |-> "parentfanout", n |-> 2, any |-> a], Nothing) : a \in BOOLEAN}
    \cup {Between(<<[w |-> "childparent", policy |-> policy, sleeps |-> TRUE]>>, {},
                  IF policy = "ABANDON" THEN Once({"started", "finished"}) ELSE Nothing,
                  Once({"started", "finished"}), <<>>) :
              policy \in {"ABANDON", "TERMINATE", "REQUEST_CANCEL"}}

AllScenarios == Recoveries \cup Sends \cup Chains \cup Sagas \cup Cancels \cup Parents
============================================================================
