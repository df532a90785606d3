--------------------------- MODULE GuestPrograms ---------------------------
(***************************************************************************)
(* The guest workflows of the ports, as functions of what they have heard. *)
(*                                                                         *)
(* A guest is compiled Go that the engine re-executes from its first line  *)
(* on every resume, answering the host calls it already made from history. *)
(* What it asks for next is therefore a function of its input and of the   *)
(* answers recorded so far, and that function is the guest: HostCall(p, h) *)
(* is the next host call of program p after the answers h.  The engine     *)
(* that asks is module DurableRuns.                                        *)
(*                                                                         *)
(* Payloads, wording and durations are left out.  A request is the tag     *)
(* under which the fixture service counts it.                              *)
(***************************************************************************)
EXTENDS Integers, Sequences, FiniteSets, SequencesExt

---------------------------------------------------------------------------
(* Host calls.                                                             *)

\* h.DurableCallWithOptions: the fixture fails the first `fails` requests of the tag.
CallRetrying(tag, tries, fails) ==
    [op |-> "call", tag |-> tag, tries |-> tries, fails |-> fails, permanent |-> FALSE]

\* h.DurableCall.
Call(tag) == CallRetrying(tag, 1, 0)

\* h.DurableCall of a request the fixture answers with a permanent failure if asked to.
CallFailing(tag, permanent) == [Call(tag) EXCEPT !.permanent = permanent]

Send(tag)  == [op |-> "send", tag |-> tag]
Defer(tag) == [op |-> "defer", tag |-> tag]
SleepFor(length) == [op |-> "sleep", length |-> length]
Sleep      == SleepFor(1)
Poll       == [op |-> "poll"]

ChildUnder(prog, policy) == [op |-> "spawn", prog |-> prog, policy |-> policy]
Child(prog)    == ChildUnder(prog, "ABANDON")
Detach(prog)   == [op |-> "detach", prog |-> prog]
AwaitAll(kids) == [op |-> "await", kids |-> kids, any |-> FALSE]
AwaitAny(kids) == [op |-> "await", kids |-> kids, any |-> TRUE]
Await(kid)     == AwaitAll({kid})

Continue(prog)  == [op |-> "continue", prog |-> prog]
Return(outcome) == [op |-> "return", outcome |-> outcome]

\* A returned error that carries the engine's text (%w), or only the guest's own.
Wrapped   == [op |-> "fail", wrapped |-> TRUE]
OwnWords  == [op |-> "fail", wrapped |-> FALSE]

---------------------------------------------------------------------------
(* What a guest can tell from the answers.                                 *)

Failed(h) == \E i \in DOMAIN h : h[i].res \in {"error", "exhausted", "refused"}

\* PollCancellation answered true.
Observed(h) == \E i \in DOMAIN h : h[i].res = "cancelled"

\* The run id the n-th answer carried; 0 before it is known.
Kid(h, n) == IF n \in DOMAIN h THEN h[n].run ELSE 0
Kids(h)   == {h[i].run : i \in DOMAIN h} \ {0}

\* A straight-line body: the calls in order, then its end.
Script(calls, end, h) == IF Len(h) < Len(calls) THEN calls[Len(h) + 1] ELSE end

\* The same, with every error returned to the engine as `fmt.Errorf("...: %w", err)`.
Propagating(calls, h) == IF Failed(h) THEN Wrapped ELSE Script(calls, Return("completed"), h)

\* n slices of a cancellation loop, each a poll and a sleep.
PollLoop(n) == [i \in 1..(2 * n) |-> IF i % 2 = 1 THEN Poll ELSE Sleep]

---------------------------------------------------------------------------
(* Calls, sends, retries and defers.                                       *)

Recovery(p, h) == Propagating(<<Call("before"), Sleep, Call("after")>>, h)

RetryCall(p, h) ==
    IF Failed(h) THEN Return("failed")
                 ELSE Script(<<CallRetrying("work", p.attempts, p.failTimes)>>, Return("succeeded"), h)

DeadLetter(p, h) == Propagating(<<CallRetrying("work", p.attempts, 999)>>, h)

DeadLetterOpaque(p, h) ==
    IF Failed(h) THEN OwnWords
                 ELSE Script(<<CallRetrying("work", p.attempts, 999)>>, Return("completed"), h)

SendOnce(p, h) == Propagating(<<Send("early"), Sleep>>, h)

SendAfterSleepForgetsLate(p, h) == Propagating(<<Send("early"), Sleep>>, h)

SendAfterSleep(p, h) == Propagating(<<Send("early"), Sleep, Send("late")>>, h)

DeferCleanupAtOnce(p, h) == Propagating(<<Send("body"), Send("cleanup"), Sleep>>, h)

DeferCleanup(p, h) == Propagating(<<Send("body"), Defer("cleanup"), Sleep>>, h)

DeferDeadLetter(p, h) ==
    Propagating(<<Send("body"), Defer("cleanup"), CallRetrying("work", p.attempts, 999)>>, h)

ContinueAsNew(p, h) ==
    Propagating(<<Call("iteration")>> \o
                (IF p.remaining > 1 THEN <<Continue([p EXCEPT !.remaining = @ - 1])>> ELSE <<>>), h)

(* The saga of samples-go: three forward steps, the first two compensable. *)
SagaForward == <<"Withdraw", "Deposit", "Notify">>
SagaUndo    == <<"WithdrawCompensation", "DepositCompensation">>

SagaUndoesForward(p, h) ==
    LET Forward(i) == CallFailing(SagaForward[i], SagaForward[i] = p.failAt)
        Undo(i)    == CallFailing(SagaUndo[i], SagaUndo[i] = p.failCompensationAt)
        broken     == SelectInSeq(h, LAMBDA e : e.res # "ok")
    IN IF broken = 0
       THEN Script([i \in 1..3 |-> Forward(i)], Return("transferred"), h)
       ELSE Script([i \in 1..(broken - 1) |-> Undo(i)], Wrapped, SubSeq(h, broken + 1, Len(h)))

Saga(p, h) ==
    LET Forward(i) == CallFailing(SagaForward[i], SagaForward[i] = p.failAt)
        Undo(i)    == CallFailing(SagaUndo[i], SagaUndo[i] = p.failCompensationAt)
        broken     == SelectInSeq(h, LAMBDA e : e.res # "ok")
    IN IF broken = 0
       THEN Script([i \in 1..3 |-> Forward(i)], Return("transferred"), h)
       ELSE Script([i \in 1..(broken - 1) |-> Undo(broken - i)], Wrapped,
                   SubSeq(h, broken + 1, Len(h)))

---------------------------------------------------------------------------
(* Cancellation.                                                           *)

Cancellable(p, h) ==
    IF Observed(h) THEN Return("cancelled")
    ELSE Script(IF p.poll THEN PollLoop(p.slices) ELSE [i \in 1..p.slices |-> Sleep],
                Return("completed"), h)

BulkCancelPollsLast(p, h) ==
    CASE Observed(h) -> Return("cancelled")
      [] Failed(h)   -> Return("step_failed")
      [] OTHER       -> Script(<<Call("one"), Call("two")>> \o PollLoop(p.slices),
                               Return("completed"), h)

BulkCancel(p, h) ==
    CASE Observed(h) -> Return("cancelled")
      [] Failed(h)   -> Return("step_failed")
      [] OTHER       -> Script(<<Call("one")>> \o PollLoop(p.slices) \o <<Call("two")>>,
                               Return("completed"), h)

\* Starts its child after it has observed the cancellation, which is what it is for.
CancelChild(p, h) ==
    LET seen == SelectInSeq(h, LAMBDA e : e.res = "cancelled")
    IN IF seen = 0
       THEN Script(PollLoop(p.slices), Return("never-observed"), h)
       ELSE Script(<<Child(p.child)>>, Return("child-started"), SubSeq(h, seen + 1, Len(h)))

---------------------------------------------------------------------------
(* Children.                                                               *)

ChildLeaf(p, h)    == Script(<<Sleep>>, Return("completed"), h)
FailingChild(p, h) == OwnWords

ChildSleeper(p, h) == Propagating(<<Call("started"), Sleep, Call("finished")>>, h)

RecoveryParentSpawnsAgain(p, h) ==
    Propagating(<<Child(p.child), Sleep, Child(p.child), Await(Kid(h, 1))>>, h)

RecoveryParent(p, h) == Propagating(<<Child(p.child), Sleep, Await(Kid(h, 1))>>, h)

AwaitOneChildAwaitsSecond(p, h) ==
    Propagating(<<Child([w |-> "childleaf"]), Await(Kid(h, 2))>>, h)

AwaitOneChild(p, h) == Propagating(<<Child([w |-> "childleaf"]), Await(Kid(h, 1))>>, h)

FailParent(p, h) == Propagating(<<Child([w |-> "failingchild"]), Await(Kid(h, 1))>>, h)

CasnChild(p, h) ==
    Propagating(<<Call("Iteration")>> \o
                (IF p.iterations > 1 THEN <<Continue([p EXCEPT !.iterations = @ - 1])>>
                                     ELSE <<>>), h)

CasnParent(p, h) == Propagating(<<Child(p.child), Await(Kid(h, 1))>>, h)

ParentFanout(p, h) ==
    Propagating([i \in 1..p.n |-> Child([w |-> "childleaf"])] \o
                <<IF p.any THEN AwaitAny(Kids(h)) ELSE AwaitAll(Kids(h))>>, h)

ChildParent(p, h) ==
    Propagating(<<ChildUnder([w |-> "childsleeper"], p.policy)>> \o
                (IF p.sleeps THEN <<Sleep>> ELSE <<>>), h)

TerminateLeaf(p, h) == Script(<<Sleep>>, Return("completed"), h)

TerminateRootPlainChild(p, h) ==
    Propagating(<<Child([w |-> "terminateleaf"]),
                  ChildUnder([w |-> "terminateleaf"], "TERMINATE"), Await(Kid(h, 2))>>, h)

TerminateRoot(p, h) ==
    Propagating(<<ChildUnder([w |-> "terminateleaf"], "TERMINATE"),
                  ChildUnder([w |-> "terminateleaf"], "TERMINATE"), Await(Kid(h, 2))>>, h)

\* Two children under the policies given; the short one, the second, is awaited.
LongAndShort(p, longPolicy, h) ==
    LET long  == [w |-> "cancellable", poll |-> TRUE, slices |-> p.slices]
        calls == <<ChildUnder(long, longPolicy),
                   ChildUnder([w |-> "childleaf"], "REQUEST_CANCEL"), Await(Kid(h, 2))>>
    IN IF Len(h) = 3 /\ Failed(h) THEN Return("await-error") ELSE Propagating(calls, h)

CancelAwaitingParent(p, h) == LongAndShort(p, "REQUEST_CANCEL", h)

AbandonVariant(p, h) == LongAndShort(p, "ABANDON", h)

Detached(p, h) == Propagating(<<Detach(p.child)>>, h)

---------------------------------------------------------------------------
(* The registry, and the generated entry point around every body.          *)

Body(p, h) ==
    CASE p.w = "recovery"             -> Recovery(p, h)
      [] p.w = "retry"                -> RetryCall(p, h)
      [] p.w = "deadletter"           -> DeadLetter(p, h)
      [] p.w = "deadletteropaque"     -> DeadLetterOpaque(p, h)
      [] p.w = "send"                 -> SendOnce(p, h)
      [] p.w = "sendaftersleep"       -> SendAfterSleep(p, h)
      [] p.w = "defercleanup"         -> DeferCleanup(p, h)
      [] p.w = "deferdeadletter"      -> DeferDeadLetter(p, h)
      [] p.w = "continueasnew"        -> ContinueAsNew(p, h)
      [] p.w = "saga"                 -> Saga(p, h)
      [] p.w = "cancellable"          -> Cancellable(p, h)
      [] p.w = "bulkcancel"           -> BulkCancel(p, h)
      [] p.w = "cancelchild"          -> CancelChild(p, h)
      [] p.w = "childleaf"            -> ChildLeaf(p, h)
      [] p.w = "failingchild"         -> FailingChild(p, h)
      [] p.w = "childsleeper"         -> ChildSleeper(p, h)
      [] p.w = "recoveryparent"       -> RecoveryParent(p, h)
      [] p.w = "awaitonechild"        -> AwaitOneChild(p, h)
      [] p.w = "failparent"           -> FailParent(p, h)
      [] p.w = "casnparent"           -> CasnParent(p, h)
      [] p.w = "casnchild"            -> CasnChild(p, h)
      [] p.w = "terminateleaf"        -> TerminateLeaf(p, h)
      [] p.w = "parentfanout"         -> ParentFanout(p, h)
      [] p.w = "childparent"          -> ChildParent(p, h)
      [] p.w = "terminateroot"        -> TerminateRoot(p, h)
      [] p.w = "cancelawaitingparent" -> CancelAwaitingParent(p, h)
      [] p.w = "abandonvariant"       -> AbandonVariant(p, h)
      [] p.w = "detached"             -> Detached(p, h)

\* The answers the body itself heard: those of the deferred sends come after its end.
Heard(h) ==
    LET drain == SelectInSeq(h, LAMBDA e : e.op = "deferred")
    IN IF drain = 0 THEN h ELSE SubSeq(h, 1, drain - 1)

Ended(call) == call.op \in {"return", "fail"}

\* The defers registered and not drained: those with at least as many after them as are drained.
Undrained(h) ==
    LET table == {i \in DOMAIN h : h[i].op = "defer"}
    IN {i \in table : Cardinality({j \in table : j > i}) >= Len(h) - Len(Heard(h))}

\* The wrapper drains the defer table, last registered first, before it reports the end.
HostCall(p, h) ==
    LET body == Body(p, Heard(h))
    IN IF Ended(body) /\ Undrained(h) # {}
       THEN [op |-> "deferred", tag |-> h[Max(Undrained(h))].tag]
       ELSE body
============================================================================
