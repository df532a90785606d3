------------------------------ MODULE Mailboxes ------------------------------
(***************************************************************************)
(* What other runs and the API leave for a run to find: signals in its     *)
(* mailbox, settled promises, locks, update requests; and the query state  *)
(* it leaves for them.  Extends DurableRuns, whose steps it takes          *)
(* unchanged, with the host calls that wait for somebody, and with the     *)
(* requests a test posts over HTTP while the run executes, is suspended or *)
(* has lost its worker.                                                    *)
(*                                                                         *)
(* The engine is external: this is what the tests and the guests rely on.  *)
(***************************************************************************)
EXTENDS DurableRuns

CONSTANTS
    Handler(_, _),  \* the verdict of a workflow's update handler on a request
    Shown(_, _),    \* the query state a guest has set after given answers
    LockKeys        \* the keys of the locks

VARIABLES
    mail,       \* signals delivered to a run and not consumed, oldest first
    promises,   \* every promise: who created it, and its state
    locks,      \* who was granted a lock, and until when
    updates,    \* the update requests accepted, in the order of their creation
    missed,     \* runs something was delivered to since they were last claimed
    query,      \* the query state in the database
    due,        \* invocations scheduled and not made
    posted      \* requests the test has posted

mailVars == <<mail, promises, locks, updates, missed, query, due, posted>>
allVars  == <<vars, mailVars>>

NoState == [phase |-> "none", n |-> 0]

MailInit ==
    /\ Init
    /\ mail = [r \in RunIds |-> <<>>]
    /\ promises = <<>>
    /\ locks = [k \in LockKeys |-> [by |-> 0, until |-> 0]]
    /\ updates = <<>>
    /\ missed = {}
    /\ query = [r \in RunIds |-> NoState]
    /\ due = {}
    /\ posted = 0

\* missed and query follow from every step: see Derived.
RestUnchanged == UNCHANGED <<scenario, now, outbox, log, cancels, crashes, lost, orphans, dropped>>
MailUnchanged == UNCHANGED <<mail, promises, locks, updates, due, posted>>

---------------------------------------------------------------------------
(* Timed waits.  The wait and its deadline are durable: a run that comes   *)
(* back to an open wait goes on with the deadline it had.                  *)

Waits(c) == c.op \in {"recv", "awaitpromise"}

Waited(r) == IF runs[r].until = 0 THEN now ELSE runs[r].since

\* Records the answer of a wait, which closes it, or of a call that does not wait.
RecordAnswer(r, op, tag, res, n) ==
    /\ runs[r].status = "running"
    /\ runs' = [runs EXCEPT
          ![r].hist  = Append(@, [op |-> op, tag |-> tag, res |-> res, run |-> n, at |-> now,
                                  since |-> Waited(r)]),
          ![r].since = 0,
          ![r].until = 0]
    /\ exec' = [exec EXCEPT ![r].got = "none"]

DeadlineRearmed(r, c) == After(now, c.timeout)

\* The deadline of the wait c: fixed when the wait first suspends.
Deadline(r, c) == IF runs[r].until = 0 THEN After(now, c.timeout) ELSE runs[r].until

TimeIsUp(r) == runs[r].until # 0 /\ now >= runs[r].until

\* Signals are keyed by the run they were sent to: the position in r's mailbox of the oldest signal with one of the names; 0 if there is none.
Match(r, names) == SelectInSeq(mail[r], LAMBDA m : m.name \in names)

Answerable(r, c) ==
    \/ c.op = "recv" /\ Match(r, c.names) # 0
    \/ c.op = "awaitpromise" /\ promises[c.promise].state # "pending"

\* The guest has reached the wait itself.  AwaitSignals dispatches updates before; the primitive
\* dispatches none.
Reached(r, c) ==
    /\ Waits(c)
    /\ exec[r].got = IF c.op = "recv" /\ c.dispatches THEN "drained" ELSE "none"

HearSignalAgain(r, c) ==
    /\ c.op = "recv" /\ Reached(r, c) /\ Answerable(r, c)
    /\ LET i == Match(r, c.names)
       IN RecordAnswer(r, "recv", mail[r][i].name, "ok", mail[r][i].n)
    /\ RestUnchanged /\ MailUnchanged

\* The oldest signal that matches answers the wait and is consumed with it.
HearSignal(r, c) ==
    /\ c.op = "recv" /\ Reached(r, c) /\ Answerable(r, c)
    /\ LET i == Match(r, c.names)
       IN /\ RecordAnswer(r, "recv", mail[r][i].name, "ok", mail[r][i].n)
          /\ mail' = [mail EXCEPT ![r] = RemoveAt(mail[r], i)]
    /\ RestUnchanged /\ UNCHANGED <<promises, locks, updates, due, posted>>

HearPromise(r, c) ==
    /\ c.op = "awaitpromise" /\ Reached(r, c) /\ Answerable(r, c)
    /\ RecordAnswer(r, c.op, "none",
                    IF promises[c.promise].state = "resolved" THEN "ok" ELSE "error", c.promise)
    /\ RestUnchanged /\ MailUnchanged

\* The deadline has passed.  Whether an answer that is there as well is preferred is left open.
HearTimeout(r, c) ==
    /\ Reached(r, c) /\ TimeIsUp(r)
    /\ RecordAnswer(r, c.op, "none", "timedout", 0)
    /\ RestUnchanged /\ MailUnchanged

\* The guest's wait finds nothing; the segment's transaction is still to be written.
FindNothing(r, c) ==
    /\ Reached(r, c) /\ ~Answerable(r, c) /\ ~TimeIsUp(r)
    /\ exec' = [exec EXCEPT ![r].got = "nothing"]
    /\ UNCHANGED runs /\ RestUnchanged /\ MailUnchanged

ParkRegardless(r, c) ==
    /\ Waits(c) /\ exec[r].got = "nothing" /\ runs[r].status = "running"
    /\ runs' = [runs EXCEPT ![r].status = "parked", ![r].since = Waited(r),
                            ![r].until = Deadline(r, c)]
    /\ exec' = [exec EXCEPT ![r] = Idle]
    /\ RestUnchanged /\ MailUnchanged

\* The run is suspended; or, if something was delivered since it was claimed (signal_seq is not
\* signal_seq_at_claim), made ready again at once.
Park(r, c) ==
    /\ Waits(c) /\ exec[r].got = "nothing" /\ runs[r].status = "running"
    /\ runs' = [runs EXCEPT ![r].status = IF r \in missed THEN "ready" ELSE "parked",
                            ![r].since = Waited(r), ![r].until = Deadline(r, c)]
    /\ exec' = [exec EXCEPT ![r] = Idle]
    /\ RestUnchanged /\ MailUnchanged

TimerFires(r) ==
    /\ runs[r].status = "parked" /\ TimeIsUp(r)
    /\ runs' = [runs EXCEPT ![r].status = "ready"]
    /\ UNCHANGED exec /\ RestUnchanged /\ MailUnchanged

\* The rows with those of parked runs for which P holds made ready.
Woken(P(_)) ==
    [r \in RunIds |-> IF runs[r].status = "parked" /\ P(r)
                      THEN [runs[r] EXCEPT !.status = "ready"] ELSE runs[r]]

---------------------------------------------------------------------------
(* Signals.                                                                *)

\* A signal is stored, and wakes a run suspended on its name; one that is executing is not woken.
Deliver(to, signal) ==
    /\ mail' = [mail EXCEPT ![to] = Append(@, signal)]
    /\ runs' = Woken(LAMBDA r : r = to /\ Asks(r).op = "recv" /\ signal.name \in Asks(r).names)

\* h.SignalWorkflow: the delivery comes before the sender's event.
SendSignal(r, c) ==
    /\ c.op = "signal"
    /\ exec[r].got = "none"
    /\ IF Live(c.to) THEN Deliver(c.to, [name |-> c.name, n |-> 0]) ELSE UNCHANGED <<runs, mail>>
    /\ exec' = [exec EXCEPT ![r].got = IF Live(c.to) THEN "ok" ELSE "error"]
    /\ RestUnchanged /\ UNCHANGED <<promises, locks, updates, due, posted>>

RecordSignal(r, c) ==
    /\ c.op = "signal"
    /\ exec[r].got # "none"
    /\ RecordAnswer(r, c.op, c.name, exec[r].got, 0)
    /\ RestUnchanged /\ MailUnchanged

\* h.PollSignal: answers at once, and its answer is an event like any other.
PollForSignal(r, c) ==
    /\ c.op = "pollsignal"
    /\ LET i == Match(r, {c.name})
       IN IF i = 0
          THEN RecordAnswer(r, c.op, c.name, "empty", 0) /\ UNCHANGED mail
          ELSE /\ RecordAnswer(r, c.op, c.name, "ok", mail[r][i].n)
               /\ mail' = [mail EXCEPT ![r] = RemoveAt(mail[r], i)]
    /\ RestUnchanged /\ UNCHANGED <<promises, locks, updates, due, posted>>

---------------------------------------------------------------------------
(* Promises.                                                               *)

MakePromise(r, c) ==
    /\ c.op = "create"
    /\ promises' = Append(promises, [by |-> r, state |-> "pending"])
    /\ RecordAnswer(r, c.op, "none", "ok", Len(promises) + 1)
    /\ RestUnchanged /\ UNCHANGED <<mail, locks, updates, due, posted>>

\* The first settlement of a promise is the only one.
Settled(i, how) == [promises EXCEPT ![i].state = IF @ = "pending" THEN how ELSE @]

\* It wakes the run suspended on the promise.
SettleAndWake(i, how) ==
    /\ promises' = Settled(i, how)
    /\ runs' = Woken(LAMBDA r : Asks(r).op = "awaitpromise" /\ Asks(r).promise = i)

\* h.ResolvePromise, h.RejectPromise: the settlement comes before the settler's event.
SettlePromise(r, c) ==
    /\ c.op = "settle"
    /\ exec[r].got = "none"
    /\ SettleAndWake(c.promise, c.how)
    /\ exec' = [exec EXCEPT ![r].got = "ok"]
    /\ RestUnchanged /\ UNCHANGED <<mail, locks, updates, due, posted>>

RecordSettlement(r, c) ==
    /\ c.op = "settle"
    /\ exec[r].got # "none"
    /\ RecordAnswer(r, c.op, "none", "ok", 0)
    /\ RestUnchanged /\ MailUnchanged

---------------------------------------------------------------------------
(* Locks, held by a run and not by the worker executing it.                *)

Held(k) == locks[k].by # 0 /\ now < locks[k].until

HeldWhileExecuted(k) == Held(k) /\ runs[locks[k].by].status # "sleeping"

Taken(k) == Held(k)

TakeLock(r, c) ==
    /\ c.op = "lock"
    /\ RecordAnswer(r, c.op, c.key, IF Taken(c.key) THEN "taken" ELSE "ok", 0)
    /\ locks' = IF Taken(c.key) THEN locks
                ELSE [locks EXCEPT ![c.key] = [by |-> r, until |-> now + c.ttl]]
    /\ RestUnchanged /\ UNCHANGED <<mail, promises, updates, due, posted>>

FreeLock(r, c) ==
    /\ c.op = "unlock"
    /\ RecordAnswer(r, c.op, c.key, "ok", 0)
    /\ locks' = IF locks[c.key].by = r THEN [locks EXCEPT ![c.key].by = 0] ELSE locks
    /\ RestUnchanged /\ UNCHANGED <<mail, promises, updates, due, posted>>

---------------------------------------------------------------------------
(* Updates.                                                                *)

Pending(r) == {i \in DOMAIN updates : updates[i].run = r /\ updates[i].state = "pending"}

LatestRequest(r) == Max(Pending(r))

\* Requests are handled in the order of their creation.
NextRequest(r) == Min(Pending(r))

\* DispatchUpdates runs the handler of a pending request; its verdict is an event, and settles
\* the caller's promise.
HandleUpdate(r, c) ==
    /\ c.op = "recv" /\ c.dispatches
    /\ exec[r].got = "none"
    /\ Pending(r) # {}
    /\ LET i       == NextRequest(r)
           verdict == Handler(runs[r].prog.w, updates[i])
       IN /\ Record(r, Answer("update", updates[i].name, verdict, i))
          /\ updates' = [updates EXCEPT ![i].state = IF verdict = "done" THEN "resolved"
                                                                      ELSE "rejected"]
    /\ UNCHANGED exec /\ RestUnchanged /\ UNCHANGED <<mail, promises, locks, due, posted>>

\* It found no more; the await follows.
UpdatesDrained(r, c) ==
    /\ c.op = "recv" /\ c.dispatches
    /\ exec[r].got = "none"
    /\ Pending(r) = {}
    /\ exec' = [exec EXCEPT ![r].got = "drained"]
    /\ UNCHANGED runs /\ RestUnchanged /\ MailUnchanged

---------------------------------------------------------------------------
(* Calls that wait for nobody.                                             *)

\* A side effect, a stream's event, a cron schedule, the status of another run: recorded.
TakeNote(r, c) ==
    /\ \/ c.op = "note" /\ RecordAnswer(r, c.op, c.tag, "ok", 0)
       \/ c.op = "peek" /\ RecordAnswer(r, c.op, runs[c.run].status, "ok", c.run)
    /\ RestUnchanged /\ MailUnchanged

\* h.ScheduleInvoke: the invocation is stored with the event, and made when its time comes.
Schedule(r, c) ==
    /\ c.op = "invoke"
    /\ RecordAnswer(r, c.op, c.tag, "ok", 0)
    /\ due' = due \cup {[run |-> r, tag |-> c.tag, at |-> After(now, c.delay)]}
    /\ RestUnchanged /\ UNCHANGED <<mail, promises, locks, updates, posted>>

Invoke(call) ==
    /\ call \in due
    /\ now >= call.at
    /\ due' = due \ {call}
    /\ log' = Append(log, call.tag)
    /\ UNCHANGED <<scenario, now, runs, exec, outbox, cancels, crashes, lost, orphans, dropped>>
    /\ UNCHANGED <<mail, promises, locks, updates, posted>>

---------------------------------------------------------------------------
(* The test: it posts its requests in order, each once it has seen what it *)
(* waits for, an announcement at the fixture or a phase in the query state.*)

Seen(p) == p.once = "start" \/ Received(p.once) > 0 \/ query[p.run].phase = p.once

PostSignal(p) ==
    /\ p.kind = "signal"
    /\ IF Live(p.run) THEN Deliver(p.run, [name |-> p.name, n |-> posted + 1])
                      ELSE UNCHANGED <<runs, mail>>
    /\ UNCHANGED <<promises, updates>>

\* The test has read the promise's id from the run's query state.
PostSettlement(p) ==
    /\ p.kind \in {"resolved", "rejected"}
    /\ p.n \in DOMAIN promises
    /\ SettleAndWake(p.n, p.kind)
    /\ UNCHANGED <<mail, updates>>

\* The name of an update is used up by its first use: (workflow_id, update_name) is the key.
NameIsFresh(p) == \A i \in DOMAIN updates : updates[i].run = p.run => updates[i].name # p.name

PostUpdate(p) ==
    /\ p.kind = "update"
    /\ updates' = IF Live(p.run) /\ NameIsFresh(p)
                  THEN Append(updates, [run |-> p.run, name |-> p.name, bad |-> p.bad,
                                        state |-> "pending", from |-> Len(runs[p.run].hist)])
                  ELSE updates
    /\ runs' = Woken(LAMBDA r : r = p.run)
    /\ UNCHANGED <<mail, promises>>

Post ==
    /\ posted < Len(scenario.posts)
    /\ LET p == scenario.posts[posted + 1]
       IN Seen(p) /\ (PostSignal(p) \/ PostSettlement(p) \/ PostUpdate(p))
    /\ posted' = posted + 1
    /\ UNCHANGED exec /\ RestUnchanged /\ UNCHANGED <<locks, due>>

---------------------------------------------------------------------------
(* The composition.                                                        *)

MailStep(r, c) ==
    \/ HearSignal(r, c) \/ HearPromise(r, c) \/ HearTimeout(r, c)
    \/ FindNothing(r, c) \/ Park(r, c)
    \/ SendSignal(r, c) \/ RecordSignal(r, c) \/ PollForSignal(r, c)
    \/ MakePromise(r, c) \/ SettlePromise(r, c) \/ RecordSettlement(r, c)
    \/ TakeLock(r, c) \/ FreeLock(r, c)
    \/ HandleUpdate(r, c) \/ UpdatesDrained(r, c)
    \/ TakeNote(r, c) \/ Schedule(r, c)

MailProgress ==
    \/ \E r \in RunIds :
          \/ Executing(r) /\ \E c \in {Asks(r)} : MailStep(r, c)
          \/ TimerFires(r)
    \/ \E call \in due : Invoke(call)

\* A delivery to a running run bumps its signal_seq; a claim takes it as seen.
DeliveredTo(r) ==
    /\ runs[r].status = "running"
    /\ \/ Len(mail'[r]) > Len(mail[r])
       \/ \E i \in DOMAIN promises : promises[i].by = r /\ promises'[i] # promises[i]

ClaimedNow(r) == ~Executing(r) /\ exec'[r].on # Nobody

NoteDeliveries ==
    missed' = {r \in RunIds : (r \in missed /\ ~ClaimedNow(r)) \/ DeliveredTo(r)}

StoredAtTheEnd(r) == Executing(r) /\ runs[r].status = "running" /\ runs'[r].status \in Terminal

\* The query state reaches the database when the run is suspended and when it ends.
Stored(r) == Executing(r) /\ runs[r].status = "running" /\ runs'[r].status # "running"

StoreQuery ==
    query' = [r \in RunIds |-> IF Stored(r) THEN Shown(runs[r].prog, runs[r].hist) ELSE query[r]]

Derived == NoteDeliveries /\ StoreQuery

EngineStep ==
    \/ (\E r \in RunIds : Progress(r)) /\ MailUnchanged
    \/ (\E s \in outbox : Dispatch(s)) /\ MailUnchanged
    \/ MailProgress

MailNext ==
    \/ Next /\ MailUnchanged /\ Derived
    \/ MailProgress /\ Derived
    \/ Post /\ Derived

MailSpec == MailInit /\ [][MailNext]_allVars

\* As in DurableRuns the engine keeps going and time passes; the test need post nothing.
MailFairness ==
    /\ WF_allVars(EngineStep /\ Derived)
    /\ WF_allVars(Tick /\ MailUnchanged /\ Derived)

MailFairSpec == MailSpec /\ MailFairness
=============================================================================
