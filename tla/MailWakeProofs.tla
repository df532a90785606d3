--------------------------- MODULE MailWakeProofs ---------------------------
(***************************************************************************)
(* What a wait leaves behind, for every guest that keeps to the discipline *)
(* of MailTypeOK (AwaitsItsOwn, WaitsDispatch); how locks pass from run to *)
(* run; what a budget for several waits bounds; and that the guests of the *)
(* ports keep to that discipline, so that all of it holds of them.         *)
(*                                                                         *)
(* No wake-up is lost: a run is not left suspended on a signal that is in  *)
(* its mailbox or a promise that is settled.  Queries read, and updates    *)
(* find settled, what they should: further down.                           *)
(*                                                                         *)
(* A wait looks (FindNothing) in one step and suspends (Park) in a later   *)
(* one.  The argument is that what it did not find is still not there when *)
(* it suspends, unless the run was marked as missed.                       *)
(***************************************************************************)
EXTENDS MailRunsProofs

\* The wait of r has found nothing; the segment is about to end.
Nothing(r) == Executing(r) /\ exec[r].got = "nothing"

\* It has dispatched the updates it found, or found nothing to hear.
Mid(r) == Executing(r) /\ exec[r].got \in {"drained", "nothing"}

Segments ==
    /\ exec = [r \in RunIds |-> exec[r]]
    /\ \A r \in RunIds :
          /\ {"on", "spent", "got", "child"} \subseteq DOMAIN exec[r]
          /\ Executing(r) => runs[r].status # "absent"
          /\ Mid(r) => Waits(Asks(r))

\* A run that is suspended, or will be whatever else happens.
Deaf(r) ==
    \/ runs[r].status = "parked"
    \/ Nothing(r) /\ runs[r].status = "running" /\ r \notin missed

NobodyWaitsInVain == \A r \in RunIds : Deaf(r) => ~Answerable(r, Asks(r))

Promises ==
    /\ IsSeq(promises)
    /\ \A i \in DOMAIN promises : {"by", "state"} \subseteq DOMAIN promises[i]

\* A promise in a run's history exists and is the run's.
Creations ==
    \A r \in RunIds : \A i \in DOMAIN runs[r].hist :
        LET e == runs[r].hist[i]
        IN e.op = "create" => e.run \in DOMAIN promises /\ promises[e.run].by = r

OwnPromises ==
    \A r \in RunIds :
        Live(r) /\ Asks(r).op = "awaitpromise" =>
            Asks(r).promise \in DOMAIN promises /\ promises[Asks(r).promise].by = r

WInv == Table /\ Boxes /\ Promises /\ Creations /\ Segments /\ NobodyWaitsInVain
-----------------------------------------------------------------------------
Same(q) == runs'[q].prog = runs[q].prog /\ runs'[q].hist = runs[q].hist

\* A step leaves q as deaf as it was.
Still(q) ==
    /\ {"on", "spent", "got", "child"} \subseteq DOMAIN exec'[q]
    /\ runs'[q].status = "parked" => runs[q].status = "parked" /\ Same(q)
    /\ Mid(q)' => Mid(q) /\ exec'[q].got = exec[q].got /\ Same(q)
    /\ Nothing(q)' /\ runs'[q].status = "running" => runs[q].status = "running"
    /\ Executing(q)' => Executing(q) \/ runs[q].status # "absent"

Stay == exec' = [q \in RunIds |-> exec'[q]] /\ \A q \in RunIds : Still(q)

LEMMA PerformStays ==
    ASSUME Table, Segments, NEW r \in RunIds, NEW c, c = Asks(r), Executing(r), Perform(r, c)
    PROVE  Stay
<1> USE DEF Table, Segments, IsRow, Fields, Stay, Still, Same, Nothing, Mid, Executing
<1>1. CASE MakeCall(r, c)
  BY <1>1 DEF MakeCall, Reply, Waits
<1>2. CASE RefuseCall(r, c)
  BY <1>2 DEF RefuseCall, Waits
<1>3. CASE RecordCall(r, c)
  BY <1>3 DEF RecordCall, Record, Idle
<1>4. CASE RecordSend(r, c)
  BY <1>4 DEF RecordSend, Record, Waits
<1>5. CASE RecordLocal(r, c)
  BY <1>5 DEF RecordLocal, Record, Waits
<1>6. CASE SleepBegins(r, c)
  BY <1>6 DEF SleepBegins, Idle
<1>7. CASE InsertChild(r, c)
  <2>1. NewId \in RunIds /\ runs[NewId].status = "absent"
    BY <1>7, NewIdIsAbsent DEF InsertChild
  <2> QED
    BY <1>7, <2>1 DEF InsertChild, Fresh, Absent, Waits
<1>8. CASE RecordChild(r, c)
  BY <1>8 DEF RecordChild, Record, Waits
<1>9. CASE AwaitAnswered(r, c)
  BY <1>9 DEF AwaitAnswered, Record, Waits
<1>10. CASE AwaitSuspends(r, c)
  BY <1>10 DEF AwaitSuspends, Idle
<1>11. CASE ContinueRun(r, c)
  <2>1. PICK n \in RunIds : n = NewId
    BY <1>11, NewIdIsAbsent DEF ContinueRun
  <2>2. runs[n].status = "absent" /\ r # n
    BY <1>11, <2>1, NewIdIsAbsent DEF ContinueRun
  <2>3. PICK p, parent, policy, from :
          runs' = [runs EXCEPT ![r].status = "done", ![r].result = "continued",
                               ![r].holds = FALSE,
                               ![n] = Fresh(p, parent, policy, from)]
    BY <1>11, <2>1 DEF ContinueRun
  <2>4. /\ runs'[n].status = "ready" /\ runs'[r].status = "done"
        /\ \A q \in RunIds \ {r, n} : runs'[q] = runs[q]
    BY <2>2, <2>3 DEF Fresh, Absent
  <2>5. exec' = [exec EXCEPT ![r] = Idle]
    BY <1>11 DEF ContinueRun
  <2> QED
    BY <2>2, <2>4, <2>5 DEF Idle
<1>12. CASE Finish(r, c)
  <2>1. exec' = [exec EXCEPT ![r] = Idle]
    BY <1>12 DEF Finish
  <2>2. ASSUME NEW q \in RunIds, q # r
        PROVE  /\ runs'[q].status = "terminated" \/ runs'[q].status = runs[q].status
               /\ Same(q)
    BY <1>12, <2>2 DEF Finish
  <2>3. runs'[r].status \in Terminal
    BY <1>12 DEF Finish, FinalStatus, Terminal
  <2>4. Still(r)
    BY <2>1, <2>3 DEF Idle, Terminal
  <2>5. ASSUME NEW q \in RunIds, q # r PROVE Still(q)
    BY <2>1, <2>2, <2>5
  <2> QED
    BY <2>1, <2>4, <2>5
<1> QED
  BY <1>1, <1>2, <1>3, <1>4, <1>5, <1>6, <1>7, <1>8, <1>9, <1>10, <1>11, <1>12 DEF Perform

LEMMA EngineStays == ASSUME Table, Segments, Next PROVE Stay
<1> USE DEF Table, Segments, IsRow, Fields, Stay, Still, Same, Nothing, Mid, Executing
<1>1. ASSUME NEW r \in RunIds, NEW w \in Workers, Claim(r, w) PROVE Stay
  BY <1>1 DEF Claim, Idle
<1>2. ASSUME NEW r \in RunIds, SleepEnds(r) \/ ChildWakes(r) \/ Reap(r) PROVE Stay
  BY <1>2 DEF SleepEnds, ChildWakes, Reap
<1>3. ASSUME NEW r \in RunIds, FenceLost(r) PROVE Stay
  BY <1>3 DEF FenceLost, Idle
<1>4. ASSUME NEW r \in RunIds, RequestCancel(r) \/ CancelPropagates(r) PROVE Stay
  BY <1>4 DEF RequestCancel, CancelPropagates
<1>5. ASSUME NEW s \in outbox, Dispatch(s) PROVE Stay
  BY <1>5 DEF Dispatch
<1>6. ASSUME NEW w \in Workers, Crash(w) PROVE Stay
  BY <1>6 DEF Crash, Killed, Idle
<1>7. CASE Tick
  BY <1>7 DEF Tick
<1>8. ASSUME NEW r \in RunIds, NEW c, c = Asks(r), Executing(r), Perform(r, c) PROVE Stay
  BY <1>8, PerformStays
<1> QED
  BY <1>1, <1>2, <1>3, <1>4, <1>5, <1>6, <1>7, <1>8 DEF Next, Progress
-----------------------------------------------------------------------------
(* What makes a deaf run answerable.                                       *)

LEMMA FindIsSound ==
    ASSUME NEW s, IsSeq(s), NEW names
    PROVE  LET S == {i \in 1..Len(s) : s[i].name \in names}
           IN (IF S = {} THEN 0 ELSE Min(S)) # 0 <=> \E i \in 1..Len(s) : s[i].name \in names
<1> DEFINE S == {i \in 1..Len(s) : s[i].name \in names}
<1>1. Len(s) \in Nat
  BY LenProperties DEF IsSeq
<1>2. S # {} => Min(S) \in S
  <2>1. S \in SUBSET Nat
    BY <1>1
  <2> QED
    BY <2>1, LeastExists
<1>3. S # {} <=> \E i \in 1..Len(s) : s[i].name \in names
  OBVIOUS
<1> QED
  BY <1>1, <1>2, <1>3

LEMMA MatchFinds ==
    ASSUME NEW q \in RunIds, NEW names, IsSeq(mail[q])
    PROVE  Match(q, names) # 0 <=> \E i \in 1..Len(mail[q]) : mail[q][i].name \in names
BY FindIsSound DEF Match, SelectInSeq

LEMMA MatchFindsNext ==
    ASSUME NEW q \in RunIds, NEW names, IsSeq(mail'[q])
    PROVE  Match(q, names)' # 0 <=> \E i \in 1..Len(mail'[q]) : mail'[q][i].name \in names
BY FindIsSound DEF Match, SelectInSeq
-----------------------------------------------------------------------------
\* A step leaves what q could hear as it was ...
Calm(q) ==
    /\ mail'[q] = mail[q]
    /\ Asks(q).op = "awaitpromise" => promises'[Asks(q).promise] = promises[Asks(q).promise]

\* ... or tells q: it wakes it, or marks it as missed.
Told(q) == runs'[q].status # "parked" /\ (runs[q].status = "running" => DeliveredTo(q))

LEMMA CalmStaysDeaf ==
    ASSUME Boxes, NEW q \in RunIds, Calm(q), Same(q), ~Answerable(q, Asks(q)), IsSeq(mail'[q])
    PROVE  ~Answerable(q, Asks(q))'
<1>1. Asks(q)' = Asks(q)
  BY DEF Asks, Same
<1> PICK c : c = Asks(q)
  OBVIOUS
<1>2. ASSUME c.op = "recv" PROVE Match(q, c.names)' = 0
  <2>1. Match(q, c.names) = 0
    BY <1>2 DEF Answerable
  <2> QED
    BY <2>1, MatchFinds, MatchFindsNext DEF Boxes, Calm
<1> QED
  BY <1>1, <1>2 DEF Answerable, Calm

\* A run that is deaf after a step was deaf before it, and was not told anything.
LEMMA DeafWas ==
    ASSUME NoteDeliveries, NEW q \in RunIds, Still(q), Deaf(q)'
    PROVE  Deaf(q) /\ Same(q) /\ ~Told(q) /\ Live(q)
<1>1. CASE runs'[q].status = "parked"
  BY <1>1 DEF Still, Deaf, Told, Live, Terminal
<1>2. CASE Nothing(q)' /\ runs'[q].status = "running" /\ q \notin missed'
  <2>1. Nothing(q) /\ Same(q) /\ runs[q].status = "running"
    BY <1>2 DEF Still, Nothing, Mid
  <2>2. q \notin missed /\ ~DeliveredTo(q)
    BY <1>2, <2>1 DEF NoteDeliveries, ClaimedNow, Nothing
  <2> QED
    BY <2>1, <2>2 DEF Deaf, Told, Live, Terminal
<1> QED
  BY <1>1, <1>2 DEF Deaf

\* Hence a step need only leave every run's part calm, or tell it.
LEMMA HeardOrTold ==
    ASSUME Boxes, Boxes', NoteDeliveries, Stay, NobodyWaitsInVain,
           \A q \in RunIds : Deaf(q) /\ Same(q) /\ Live(q) /\ Deaf(q)' =>
              Calm(q) \/ Told(q) \/ ~Answerable(q, Asks(q))'
    PROVE  NobodyWaitsInVain'
<1> SUFFICES ASSUME NEW q \in RunIds, Deaf(q)' PROVE ~Answerable(q, Asks(q))'
  BY DEF NobodyWaitsInVain
<1>1. Deaf(q) /\ Same(q) /\ ~Told(q) /\ Live(q)
  BY DeafWas DEF Stay
<1>2. ~Answerable(q, Asks(q))
  BY <1>1 DEF NobodyWaitsInVain
<1>3. IsSeq(mail'[q])
  BY DEF Boxes
<1> QED
  BY <1>1, <1>2, <1>3, CalmStaysDeaf

\* A delivery to a mailbox.
LEMMA DeliverTells ==
    ASSUME Boxes, Boxes', NEW to, NEW signal, Deliver(to, signal), UNCHANGED promises,
           NEW q \in RunIds, Deaf(q), Same(q), ~Answerable(q, Asks(q)), runs = [r \in RunIds |-> runs[r]]
    PROVE  Calm(q) \/ Told(q) \/ ~Answerable(q, Asks(q))'
<1>1. CASE q # to
  BY <1>1 DEF Deliver, Calm, Boxes
<1>2. CASE q = to
  <2> PICK c : c = Asks(q)
    OBVIOUS
  <2>1. Asks(q)' = c
    BY DEF Asks, Same
  <2>2. mail'[q] = Append(mail[q], signal) /\ IsSeq(mail[q])
    BY <1>2 DEF Deliver, Boxes
  <2>3. Len(mail[q]) \in Nat /\ Len(mail'[q]) = Len(mail[q]) + 1
    BY <2>2, Grows
  <2>4. CASE runs[q].status = "running"
    <3>1. runs'[q].status = "running"
      BY <2>4 DEF Deliver, Woken
    <3> QED
      BY <2>3, <2>4, <3>1 DEF Told, DeliveredTo
  <2>5. CASE runs[q].status = "parked" /\ c.op = "recv" /\ signal.name \in c.names
    <3>1. runs'[q].status = "ready"
      BY <1>2, <2>5 DEF Deliver, Woken
    <3> QED
      BY <2>5, <3>1 DEF Told
  <2>6. CASE c.op = "recv" /\ signal.name \notin c.names
    <3>1. Match(q, c.names) = 0
      BY <2>6 DEF Answerable
    <3>2. Match(q, c.names)' = 0
      BY <2>2, <2>3, <2>6, <3>1, MatchFinds, MatchFindsNext, Grows DEF Boxes
    <3> QED
      BY <2>1, <2>6, <3>2 DEF Answerable
  <2>7. CASE c.op # "recv"
    BY <2>1, <2>7 DEF Answerable
  <2> QED
    BY <2>4, <2>5, <2>6, <2>7 DEF Deaf
<1> QED
  BY <1>1, <1>2

LEMMA SettlementTells ==
    ASSUME Boxes, NEW i, NEW how, SettleAndWake(i, how), UNCHANGED mail, OwnPromises,
           NEW q \in RunIds, Deaf(q), Live(q), Same(q),
           runs = [r \in RunIds |-> runs[r]]
    PROVE  Calm(q) \/ Told(q)
<1> DEFINE p == Asks(q).promise
<1> SUFFICES ASSUME Asks(q).op = "awaitpromise", promises'[p] # promises[p] PROVE Told(q)
  BY DEF Calm
<1>1. p \in DOMAIN promises /\ promises[p].by = q
  BY DEF OwnPromises
<1>2. i = p
  <2>1. ASSUME i # p PROVE promises'[p] = promises[p]
    BY <1>1, <2>1 DEF SettleAndWake, Settled
  <2> QED
    BY <2>1
<1>3. CASE runs[q].status = "parked"
  BY <1>2, <1>3 DEF SettleAndWake, Woken, Told
<1>4. CASE runs[q].status = "running"
  BY <1>1, <1>4 DEF SettleAndWake, Woken, Told, DeliveredTo
<1> QED
  BY <1>3, <1>4 DEF Deaf
-----------------------------------------------------------------------------
(* The steps of the composition.                                           *)

Harmless ==
    /\ Stay
    /\ \A q \in RunIds : Deaf(q) /\ Same(q) /\ Live(q) /\ Deaf(q)' =>
          Calm(q) \/ Told(q) \/ ~Answerable(q, Asks(q))'

\* The row q is as it was, but for having been woken.
Woke(q) ==
    /\ Same(q)
    /\ runs'[q].status = runs[q].status \/ (runs[q].status = "parked" /\ runs'[q].status = "ready")

LEMMA AnswerStays ==
    ASSUME Table, Segments, NEW r \in RunIds, NEW op, NEW tag, NEW res, NEW n,
           RecordAnswer(r, op, tag, res, n)
    PROVE  Stay /\ ~Deaf(r)'
<1>1. /\ \A q \in RunIds \ {r} : runs'[q] = runs[q] /\ exec'[q] = exec[q]
      /\ runs'[r].status = "running" /\ exec'[r].got = "none" /\ exec'[r].on = exec[r].on
      /\ {"on", "spent", "got", "child"} \subseteq DOMAIN exec'[r]
      /\ exec' = [q \in RunIds |-> exec'[q]]
  BY DEF RecordAnswer, Table, IsRow, Fields, Segments
<1>2. runs[r].status = "running"
  BY DEF RecordAnswer
<1>3. ASSUME NEW q \in RunIds, q # r PROVE Still(q)
  BY <1>1, <1>3 DEF Still, Same, Nothing, Mid, Executing, Segments
<1>4. Still(r) /\ ~Deaf(r)'
  BY <1>1, <1>2 DEF Still, Nothing, Mid, Executing, Deaf
<1> QED
  BY <1>1, <1>3, <1>4 DEF Stay

\* An answer, and what others hear is as it was.
LEMMA AnswerIsHarmless ==
    ASSUME Table, Segments, Boxes, NEW r \in RunIds, NEW op, NEW tag, NEW res, NEW n,
           RecordAnswer(r, op, tag, res, n),
           \A q \in RunIds \ {r} : mail'[q] = mail[q],
           UNCHANGED promises
    PROVE  Harmless
BY AnswerStays DEF Harmless, Calm

\* A step of a segment that answers nothing yet, and wakes at most others.
LEMMA SegmentStays ==
    ASSUME Table, Segments, NEW r \in RunIds, NEW got, got \notin {"drained", "nothing"},
           Executing(r), exec' = [exec EXCEPT ![r].got = got],
           \A q \in RunIds : Woke(q)
    PROVE  Stay
<1>1. /\ \A q \in RunIds \ {r} : exec'[q] = exec[q]
      /\ exec'[r].got = got /\ exec'[r].on = exec[r].on
      /\ {"on", "spent", "got", "child"} \subseteq DOMAIN exec'[r]
      /\ exec' = [q \in RunIds |-> exec'[q]]
  BY DEF Segments
<1> QED
  BY <1>1 DEF Stay, Still, Woke, Nothing, Mid, Executing, Segments

\* A step outside the segments, that wakes runs.
LEMMA WakingStays ==
    ASSUME Table, Segments, UNCHANGED exec,
           \A q \in RunIds : Woke(q)
    PROVE  Stay
BY DEF Stay, Still, Woke, Nothing, Mid, Executing, Segments

LEMMA WokenRows ==
    ASSUME Table, NEW to, NEW signal, NEW i, NEW how, NEW q \in RunIds,
           UNCHANGED runs \/ Deliver(to, signal) \/ SettleAndWake(i, how)
    PROVE  Woke(q)
BY DEF Woke, Same, Deliver, SettleAndWake, Woken, Table, IsRow, Fields

LEMMA MailStepIsHarmless ==
    ASSUME Table, Boxes, Boxes', Segments, Promises, OwnPromises, NobodyWaitsInVain,
           NEW r \in RunIds, NEW c, Executing(r), MailStep(r, c),
           ~FindNothing(r, c), ~Park(r, c), ~UpdatesDrained(r, c)
    PROVE  Harmless
<1> USE DEF RestUnchanged, MailUnchanged
<1>1. ASSUME HearSignal(r, c) \/ PollForSignal(r, c) PROVE Harmless
  <2>1. /\ UNCHANGED promises
        /\ \A q \in RunIds \ {r} : mail'[q] = mail[q]
    BY <1>1 DEF HearSignal, PollForSignal, Boxes
  <2>2. \E op, tag, res, n : RecordAnswer(r, op, tag, res, n)
    BY <1>1 DEF HearSignal, PollForSignal
  <2> QED
    BY <2>1, <2>2, AnswerIsHarmless
<1>2. ASSUME \/ HearPromise(r, c) \/ HearTimeout(r, c) \/ RecordSignal(r, c)
             \/ RecordSettlement(r, c) \/ TakeLock(r, c) \/ FreeLock(r, c)
             \/ TakeNote(r, c) \/ Schedule(r, c)
      PROVE  Harmless
  <2>1. UNCHANGED <<mail, promises>>
    BY <1>2 DEF HearPromise, HearTimeout, RecordSignal, RecordSettlement, TakeLock, FreeLock,
                TakeNote, Schedule
  <2>2. \E op, tag, res, n : RecordAnswer(r, op, tag, res, n)
    BY <1>2 DEF HearPromise, HearTimeout, RecordSignal, RecordSettlement, TakeLock, FreeLock,
                TakeNote, Schedule
  <2> QED
    BY <2>1, <2>2, AnswerIsHarmless
<1>3. ASSUME MakePromise(r, c) PROVE Harmless
  <2> PICK p : promises' = Append(promises, p)
    BY <1>3 DEF MakePromise
  <2>1. \A i \in DOMAIN promises : promises'[i] = promises[i]
    BY Grows DEF Promises
  <2>2. Stay
    BY <1>3, AnswerStays DEF MakePromise
  <2>3. ASSUME NEW q \in RunIds, Live(q) PROVE Calm(q)
    BY <1>3, <2>1, <2>3 DEF MakePromise, OwnPromises, Calm
  <2> QED
    BY <2>1, <2>2, <2>3 DEF Harmless
<1>4. ASSUME SendSignal(r, c) PROVE Harmless
  <2> DEFINE signal == [name |-> c.name, n |-> 0]
  <2>1. UNCHANGED promises
    BY <1>4 DEF SendSignal
  <2>2. UNCHANGED <<runs, mail>> \/ Deliver(c.to, signal)
    BY <1>4 DEF SendSignal
  <2>3. Stay
    <3>1. \A q \in RunIds : Woke(q)
      BY <2>2, WokenRows
    <3>2. PICK got \in {"ok", "error"} : exec' = [exec EXCEPT ![r].got = got]
      BY <1>4 DEF SendSignal
    <3> QED
      BY <3>1, <3>2, SegmentStays
  <2>4. ASSUME UNCHANGED mail PROVE Harmless
    BY <2>1, <2>3, <2>4 DEF Harmless, Calm
  <2>5. ASSUME Deliver(c.to, signal) PROVE Harmless
    BY <2>1, <2>3, <2>5, DeliverTells DEF Harmless, NobodyWaitsInVain, Table
  <2> QED
    BY <2>2, <2>4, <2>5
<1>5. ASSUME SettlePromise(r, c) PROVE Harmless
  <2>1. UNCHANGED mail /\ SettleAndWake(c.promise, c.how)
    BY <1>5 DEF SettlePromise
  <2>2. Stay
    <3>1. \A q \in RunIds : Woke(q)
      BY <2>1, WokenRows
    <3>2. PICK got \in {"ok"} : exec' = [exec EXCEPT ![r].got = got]
      BY <1>5 DEF SettlePromise
    <3> QED
      BY <3>1, <3>2, SegmentStays
  <2> QED
    BY <2>1, <2>2, SettlementTells DEF Harmless, Table
<1>6. ASSUME HandleUpdate(r, c) PROVE Harmless
  <2>1. /\ UNCHANGED <<exec, mail, promises>> /\ exec[r].got = "none"
        /\ \E e : Record(r, e)
    BY <1>6 DEF HandleUpdate
  <2>2. ASSUME NEW q \in RunIds, q # r PROVE runs'[q] = runs[q]
    BY <2>1, <2>2 DEF Record, Table
  <2>3. runs[r].status = "running" /\ runs'[r].status = "running"
    BY <2>1 DEF Record, Table, IsRow, Fields
  <2>4. Stay
    BY <2>1, <2>2, <2>3 DEF Stay, Still, Same, Nothing, Mid, Executing, Segments
  <2> QED
    BY <2>1, <2>4 DEF Harmless, Calm
<1> QED
  BY <1>1, <1>2, <1>3, <1>4, <1>5, <1>6 DEF MailStep

LEMMA PostIsHarmless ==
    ASSUME Table, Boxes, Boxes', Segments, Promises, OwnPromises, NobodyWaitsInVain, Post
    PROVE  Harmless
<1> DEFINE p == scenario.posts[posted + 1]
           signal == [name |-> p.name, n |-> posted + 1]
<1>1. /\ PostSignal(p) \/ PostSettlement(p) \/ PostUpdate(p)
      /\ UNCHANGED exec
  BY DEF Post
<1>2. CASE PostSignal(p)
  <2>1. UNCHANGED promises /\ (UNCHANGED <<runs, mail>> \/ Deliver(p.run, signal))
    BY <1>2 DEF PostSignal
  <2>2. Stay
    BY <1>1, <2>1, WokenRows, WakingStays
  <2>3. ASSUME UNCHANGED mail PROVE Harmless
    BY <2>1, <2>2, <2>3 DEF Harmless, Calm
  <2>4. ASSUME Deliver(p.run, signal) PROVE Harmless
    BY <2>1, <2>2, <2>4, DeliverTells DEF Harmless, NobodyWaitsInVain, Table
  <2> QED
    BY <2>1, <2>3, <2>4
<1>3. CASE PostSettlement(p)
  <2>1. UNCHANGED mail /\ SettleAndWake(p.n, p.kind)
    BY <1>3 DEF PostSettlement
  <2>2. Stay
    BY <1>1, <2>1, WokenRows, WakingStays
  <2> QED
    BY <2>1, <2>2, SettlementTells DEF Harmless, Table
<1>4. CASE PostUpdate(p)
  <2>1. UNCHANGED <<mail, promises>>
    BY <1>4 DEF PostUpdate
  <2>2. \A q \in RunIds : Woke(q)
    BY <1>4 DEF PostUpdate, Woken, Woke, Same, Table, IsRow, Fields
  <2>3. Stay
    BY <1>1, <2>2, WakingStays
  <2> QED
    BY <2>1, <2>3 DEF Harmless, Calm
<1> QED
  BY <1>1, <1>2, <1>3, <1>4

-----------------------------------------------------------------------------
(* Promises are the runs' that created them.                               *)

\* q's history is as it was, or has one more event, not the creation of a promise.
Kept(q) ==
    \/ runs'[q].hist = runs[q].hist
    \/ \E e : e.op # "create" /\ runs'[q].hist = Append(runs[q].hist, e)

LEMMA RecordKeeps ==
    ASSUME Table, NEW r \in RunIds, NEW e, Record(r, e), e.op # "create", NEW q \in RunIds
    PROVE  Kept(q)
BY DEF Record, Table, IsRow, Fields, Kept

LEMMA AnswerKeeps ==
    ASSUME Table, NEW r \in RunIds, NEW op, NEW tag, NEW res, NEW n,
           RecordAnswer(r, op, tag, res, n), UNCHANGED scenario, op # "create", NEW q \in RunIds
    PROVE  Kept(q)
BY AnswerIsQuiet DEF Answered, Kept

LEMMA EngineKeeps == ASSUME Table, Next, NEW q \in RunIds PROVE Kept(q)
BY EngineRecords DEF Records, EngineOps, Kept

\* Promises are added at the end, and keep their creator.
Extended ==
    \A i \in DOMAIN promises : i \in DOMAIN promises' /\ promises'[i].by = promises[i].by

LEMMA SettledIsSeq ==
    ASSUME Promises, NEW i, NEW how, promises' = Settled(i, how) PROVE Promises' /\ Extended
<1> DEFINE s == Settled(i, how)
<1>1. s = [j \in DOMAIN promises |-> s[j]]
  BY DEF Settled
<1>2. Len(promises) \in Nat /\ DOMAIN promises = 1..Len(promises)
  BY LenProperties DEF Promises, IsSeq
<1>3. ASSUME NEW j \in DOMAIN promises
      PROVE  s[j].by = promises[j].by /\ {"by", "state"} \subseteq DOMAIN s[j]
  BY <1>3 DEF Promises, Settled
<1> HIDE DEF s
<1>4. s \in [1..Len(promises) -> Range(s)]
  BY <1>1, <1>2 DEF Range
<1>5. IsSeq(s)
  BY <1>2, <1>4, SeqDef DEF IsSeq
<1> QED
  BY <1>1, <1>3, <1>5 DEF Promises, Extended, s

LEMMA KeptStep ==
    ASSUME Table, Creations, Extended, \A q \in RunIds : Kept(q) PROVE Creations'
<1> SUFFICES ASSUME NEW r \in RunIds, NEW i \in DOMAIN runs'[r].hist,
                    runs'[r].hist[i].op = "create"
             PROVE  /\ runs'[r].hist[i].run \in DOMAIN promises'
                    /\ promises'[runs'[r].hist[i].run].by = r
  BY DEF Creations
<1>1. i \in DOMAIN runs[r].hist /\ runs'[r].hist[i] = runs[r].hist[i]
  <2>1. CASE runs'[r].hist = runs[r].hist
    BY <2>1
  <2>2. ASSUME NEW e, e.op # "create", runs'[r].hist = Append(runs[r].hist, e)
        PROVE  i \in DOMAIN runs[r].hist /\ runs'[r].hist[i] = runs[r].hist[i]
    BY <2>2, Grows DEF Table, IsRow
  <2> QED
    BY <2>1, <2>2 DEF Kept
<1> QED
  BY <1>1 DEF Creations, Extended

LEMMA SettlementKeeps ==
    ASSUME Table, Promises, Creations, NEW i, NEW how, SettleAndWake(i, how)
    PROVE  Promises' /\ Creations'
<1>1. ASSUME NEW q \in RunIds PROVE Kept(q)
  BY DEF SettleAndWake, Woken, Kept, Table, IsRow, Fields
<1>2. Promises' /\ Extended
  BY SettledIsSeq DEF SettleAndWake
<1> QED
  BY <1>1, <1>2, KeptStep

LEMMA MailPromises ==
    ASSUME Table, Promises, Creations, NEW r \in RunIds, NEW c, MailStep(r, c)
    PROVE  Promises' /\ Creations'
<1> USE DEF RestUnchanged, MailUnchanged
<1>1. ASSUME Extended, Promises', \A q \in RunIds : Kept(q) PROVE Promises' /\ Creations'
  BY <1>1, KeptStep
<1>2. UNCHANGED promises => Extended /\ Promises'
  BY DEF Extended, Promises
<1>3. ASSUME NEW op, NEW tag, NEW res, NEW n, RecordAnswer(r, op, tag, res, n), op # "create",
             UNCHANGED <<scenario, promises>>
      PROVE  Promises' /\ Creations'
  BY <1>1, <1>2, <1>3, AnswerKeeps
<1>4. CASE HearSignal(r, c)
  BY <1>3, <1>4 DEF HearSignal
<1>5. CASE HearPromise(r, c) \/ HearTimeout(r, c)
  BY <1>3, <1>5 DEF HearPromise, HearTimeout, Reached, Waits
<1>6. CASE RecordSignal(r, c) \/ RecordSettlement(r, c)
  BY <1>3, <1>6 DEF RecordSignal, RecordSettlement
<1>7. CASE PollForSignal(r, c)
  BY <1>3, <1>7 DEF PollForSignal
<1>8. CASE TakeLock(r, c) \/ FreeLock(r, c)
  BY <1>3, <1>8 DEF TakeLock, FreeLock
<1>9. CASE TakeNote(r, c) \/ Schedule(r, c)
  BY <1>3, <1>9 DEF TakeNote, Schedule
<1>10. CASE FindNothing(r, c) \/ UpdatesDrained(r, c)
  BY <1>1, <1>2, <1>10 DEF FindNothing, UpdatesDrained, Kept
<1>11. CASE Park(r, c)
  BY <1>1, <1>2, <1>11 DEF Park, Kept, Table, IsRow, Fields
<1>12. CASE SendSignal(r, c)
  <2>1. UNCHANGED promises
        /\ (UNCHANGED runs \/ Deliver(c.to, [name |-> c.name, n |-> 0]))
    BY <1>12 DEF SendSignal
  <2> QED
    BY <1>1, <1>2, <2>1, WokenRows DEF Woke, Same, Kept
<1>13. CASE SettlePromise(r, c)
  BY <1>13, SettlementKeeps DEF SettlePromise
<1>14. CASE HandleUpdate(r, c)
  <2>1. PICK i, verdict : Record(r, Answer("update", updates[i].name, verdict, i))
    BY <1>14 DEF HandleUpdate
  <2>2. \A q \in RunIds : Kept(q)
    BY <2>1, RecordKeeps DEF Answer
  <2> QED
    BY <1>1, <1>2, <1>14, <2>2 DEF HandleUpdate
<1>15. CASE MakePromise(r, c)
  <2> DEFINE n == Len(promises) + 1
             p == [by |-> r, state |-> "pending"]
  <2>1. promises' = Append(promises, p) /\ RecordAnswer(r, "create", "none", "ok", n)
        /\ UNCHANGED scenario
    BY <1>15 DEF MakePromise
  <2>2. /\ Extended /\ Promises'
        /\ n \in DOMAIN promises' /\ promises'[n].by = r
    BY <2>1, Grows DEF Promises, Extended
  <2> HIDE DEF n, p
  <2>3. PICK e : Answered(r, e) /\ e.op = "create" /\ e.run = n
    BY <2>1, AnswerIsQuiet
  <2>4. \A q \in RunIds \ {r} : runs'[q] = runs[q]
    BY <2>1, AnswerIsQuiet
  <2>5. Creations'
    <3> SUFFICES ASSUME NEW q \in RunIds, NEW i \in DOMAIN runs'[q].hist,
                        runs'[q].hist[i].op = "create"
                 PROVE  /\ runs'[q].hist[i].run \in DOMAIN promises'
                        /\ promises'[runs'[q].hist[i].run].by = q
      BY DEF Creations
    <3>1. CASE i \in DOMAIN runs[q].hist /\ runs'[q].hist[i] = runs[q].hist[i]
      BY <2>2, <3>1 DEF Creations, Extended
    <3>2. CASE q = r /\ runs'[q].hist[i] = e
      BY <2>2, <2>3, <3>2
    <3>3. CASE q # r
      BY <2>4, <3>1, <3>3
    <3>4. CASE q = r
      BY <2>3, <3>1, <3>2, <3>4, Grows DEF Answered, Table, IsRow
    <3> QED
      BY <3>3, <3>4
  <2> QED
    BY <2>2, <2>5
<1> QED
  BY <1>4, <1>5, <1>6, <1>7, <1>8, <1>9, <1>10, <1>11, <1>12, <1>13, <1>14, <1>15 DEF MailStep

LEMMA PromisesStep ==
    ASSUME Table, Promises, Creations, [MailNext]_allVars PROVE Promises' /\ Creations'
<1>1. ASSUME Extended, Promises', \A q \in RunIds : Kept(q) PROVE Promises' /\ Creations'
  BY <1>1, KeptStep
<1>2. UNCHANGED promises => Extended /\ Promises'
  BY DEF Extended, Promises
<1>3. CASE Next /\ MailUnchanged
  BY <1>1, <1>2, <1>3, EngineKeeps DEF MailUnchanged
<1>4. ASSUME NEW r \in RunIds, TimerFires(r) PROVE Promises' /\ Creations'
  BY <1>1, <1>2, <1>4 DEF TimerFires, MailUnchanged, Kept, Table, IsRow, Fields
<1>5. ASSUME NEW call \in due, Invoke(call) PROVE Promises' /\ Creations'
  BY <1>1, <1>2, <1>5 DEF Invoke, Kept
<1>6. CASE Post
  <2> DEFINE p == scenario.posts[posted + 1]
  <2>1. PostSignal(p) \/ PostSettlement(p) \/ PostUpdate(p)
    BY <1>6 DEF Post
  <2>2. CASE PostSignal(p)
    <3>1. UNCHANGED promises
          /\ (UNCHANGED runs \/ Deliver(p.run, [name |-> p.name, n |-> posted + 1]))
      BY <2>2 DEF PostSignal
    <3> QED
      BY <1>1, <1>2, <3>1, WokenRows DEF Woke, Same, Kept
  <2>3. CASE PostSettlement(p)
    BY <2>3, SettlementKeeps DEF PostSettlement
  <2>4. CASE PostUpdate(p)
    BY <1>1, <1>2, <2>4 DEF PostUpdate, Woken, Kept, Table, IsRow, Fields
  <2> QED
    BY <2>1, <2>2, <2>3, <2>4
<1>7. CASE UNCHANGED allVars
  BY <1>1, <1>2, <1>7 DEF allVars, vars, mailVars, Kept
<1> QED
  BY <1>3, <1>4, <1>5, <1>6, <1>7, MailPromises DEF MailNext, MailProgress
-----------------------------------------------------------------------------
\* A wait that finds nothing has nothing to hear.
LEMMA FindNothingStep ==
    ASSUME Table, Boxes, Segments, NobodyWaitsInVain, Derived,
           NEW r \in RunIds, NEW c, c = Asks(r), Executing(r), FindNothing(r, c)
    PROVE  /\ exec' = [q \in RunIds |-> exec'[q]]
           /\ \A q \in RunIds : {"on", "spent", "got", "child"} \subseteq DOMAIN exec'[q]
           /\ \A q \in RunIds : q # r => Still(q)
           /\ Waits(Asks(r)) /\ UNCHANGED <<runs, mail, promises>>
           /\ NobodyWaitsInVain'
<1>1. /\ Waits(c) /\ ~Answerable(r, c) /\ UNCHANGED <<runs, mail, promises>>
      /\ exec' = [exec EXCEPT ![r].got = "nothing"]
  BY DEF FindNothing, Reached, MailUnchanged
<1>2. /\ \A q \in RunIds \ {r} : exec'[q] = exec[q]
      /\ exec' = [q \in RunIds |-> exec'[q]]
      /\ \A q \in RunIds : {"on", "spent", "got", "child"} \subseteq DOMAIN exec'[q]
  BY <1>1 DEF Segments
<1>3. ASSUME NEW q \in RunIds, q # r PROVE Still(q)
  BY <1>1, <1>2, <1>3 DEF Still, Same, Nothing, Mid, Executing, Segments
<1>4. ASSUME NEW q \in RunIds PROVE Calm(q) /\ Same(q) /\ IsSeq(mail'[q])
  BY <1>1 DEF Calm, Same, Boxes
<1>5. ASSUME NEW q \in RunIds, Deaf(q)' PROVE ~Answerable(q, Asks(q))'
  <2>1. CASE q = r
    BY <1>1, <1>4, <2>1, CalmStaysDeaf
  <2>2. CASE q # r
    BY <1>3, <1>4, <1>5, <2>2, DeafWas, CalmStaysDeaf DEF Derived, NobodyWaitsInVain
  <2> QED
    BY <2>1, <2>2
<1> QED
  BY <1>1, <1>2, <1>3, <1>5 DEF NobodyWaitsInVain

\* A wait that has dispatched all updates has not looked yet.
LEMMA DrainedStep ==
    ASSUME Table, Boxes, Segments, NobodyWaitsInVain, Derived,
           NEW r \in RunIds, NEW c, c = Asks(r), Executing(r), UpdatesDrained(r, c)
    PROVE  /\ exec' = [q \in RunIds |-> exec'[q]]
           /\ \A q \in RunIds : {"on", "spent", "got", "child"} \subseteq DOMAIN exec'[q]
           /\ \A q \in RunIds : q # r => Still(q)
           /\ Waits(Asks(r)) /\ UNCHANGED <<runs, mail, promises>>
           /\ NobodyWaitsInVain'
<1>1. /\ Waits(c) /\ UNCHANGED <<runs, mail, promises>>
      /\ exec' = [exec EXCEPT ![r].got = "drained"]
  BY DEF UpdatesDrained, Waits, MailUnchanged
<1>2. /\ \A q \in RunIds \ {r} : exec'[q] = exec[q]
      /\ exec' = [q \in RunIds |-> exec'[q]]
      /\ exec'[r].got = "drained"
      /\ \A q \in RunIds : {"on", "spent", "got", "child"} \subseteq DOMAIN exec'[q]
  BY <1>1 DEF Segments
<1>3. ASSUME NEW q \in RunIds, q # r PROVE Still(q)
  BY <1>1, <1>2, <1>3 DEF Still, Same, Nothing, Mid, Executing, Segments
<1>4. ASSUME NEW q \in RunIds PROVE Calm(q) /\ Same(q) /\ IsSeq(mail'[q])
  BY <1>1 DEF Calm, Same, Boxes
<1>5. ASSUME NEW q \in RunIds, Deaf(q)' PROVE ~Answerable(q, Asks(q))'
  <2>1. CASE q = r
    <3>1. Deaf(r)
      BY <1>1, <1>2, <1>5, <2>1 DEF Deaf, Nothing
    <3> QED
      BY <1>4, <2>1, <3>1, CalmStaysDeaf DEF NobodyWaitsInVain
  <2>2. CASE q # r
    BY <1>3, <1>4, <1>5, <2>2, DeafWas, CalmStaysDeaf DEF Derived, NobodyWaitsInVain
  <2> QED
    BY <2>1, <2>2
<1> QED
  BY <1>1, <1>2, <1>3, <1>5 DEF NobodyWaitsInVain

\* It suspends only if it was told of nothing since.
LEMMA ParkStep ==
    ASSUME Table, Boxes, Segments, NobodyWaitsInVain, Derived,
           NEW r \in RunIds, NEW c, c = Asks(r), Executing(r), Park(r, c)
    PROVE  /\ exec' = [q \in RunIds |-> exec'[q]]
           /\ \A q \in RunIds : {"on", "spent", "got", "child"} \subseteq DOMAIN exec'[q]
           /\ \A q \in RunIds : q # r => Still(q)
           /\ ~Executing(r)' /\ UNCHANGED promises
           /\ NobodyWaitsInVain'
<1>1. /\ UNCHANGED <<mail, promises>>
      /\ Nothing(r) /\ runs[r].status = "running"
      /\ exec' = [exec EXCEPT ![r] = Idle]
      /\ \A q \in RunIds \ {r} : runs'[q] = runs[q]
      /\ runs'[r].status = IF r \in missed THEN "ready" ELSE "parked"
      /\ Same(r)
  BY DEF Park, MailUnchanged, Nothing, Same, Table, IsRow, Fields
<1>2. /\ \A q \in RunIds \ {r} : exec'[q] = exec[q]
      /\ exec' = [q \in RunIds |-> exec'[q]]
      /\ \A q \in RunIds : {"on", "spent", "got", "child"} \subseteq DOMAIN exec'[q]
      /\ ~Executing(r)'
  BY <1>1 DEF Segments, Idle, Executing
<1>3. ASSUME NEW q \in RunIds, q # r PROVE Still(q) /\ Same(q)
  BY <1>1, <1>2, <1>3 DEF Still, Same, Nothing, Mid, Executing, Segments
<1>4. ASSUME NEW q \in RunIds PROVE Calm(q) /\ Same(q) /\ IsSeq(mail'[q])
  BY <1>1, <1>3 DEF Calm, Boxes
<1>5. ASSUME NEW q \in RunIds, Deaf(q)' PROVE ~Answerable(q, Asks(q))'
  <2>1. CASE q = r
    <3>1. Deaf(r)
      BY <1>1, <1>2, <1>5, <2>1 DEF Deaf, Nothing
    <3> QED
      BY <1>4, <2>1, <3>1, CalmStaysDeaf DEF NobodyWaitsInVain
  <2>2. CASE q # r
    BY <1>3, <1>4, <1>5, <2>2, DeafWas, CalmStaysDeaf DEF Derived, NobodyWaitsInVain
  <2> QED
    BY <2>1, <2>2
<1> QED
  BY <1>1, <1>2, <1>3, <1>5 DEF NobodyWaitsInVain

LEMMA SegmentsStep ==
    ASSUME Table, Segments, Result,
           exec' = [q \in RunIds |-> exec'[q]],
           \A q \in RunIds : {"on", "spent", "got", "child"} \subseteq DOMAIN exec'[q],
           \A q \in RunIds :
              Still(q) \/ ~Executing(q)' \/ (Executing(q) /\ Same(q) /\ Waits(Asks(q)))
    PROVE  Segments'
<1>1. ASSUME NEW q \in RunIds, runs'[q].status = "absent" PROVE runs[q].status = "absent"
  BY <1>1, RowStep DEF Silent, Answered
<1>2. ASSUME NEW q \in RunIds, Same(q) PROVE Asks(q)' = Asks(q)
  BY <1>2 DEF Same, Asks
<1>3. ASSUME NEW q \in RunIds PROVE Executing(q)' => runs'[q].status # "absent"
  BY <1>1, <1>3 DEF Segments, Still
<1>4. ASSUME NEW q \in RunIds, Mid(q)' PROVE Waits(Asks(q))'
  <2>1. Executing(q)'
    BY <1>4 DEF Mid
  <2>2. Same(q) /\ Waits(Asks(q))
    BY <1>4, <2>1 DEF Segments, Still
  <2> QED
    BY <1>2, <2>2 DEF Waits
<1> QED
  BY <1>3, <1>4 DEF Segments

LEMMA InitWInv == MailInit => WInv
<1> SUFFICES ASSUME MailInit PROVE WInv
  OBVIOUS
<1>1. Table /\ Boxes
  BY InitMInv DEF MInv
<1>2. Promises /\ Creations
  <2>1. << >> \in Seq(Range(<< >>)) /\ Len(<< >>) = 0
    BY EmptySeq
  <2>2. IsSeq(<< >>) /\ DOMAIN << >> = {}
    BY <2>1, LenProperties DEF IsSeq
  <2>3. \A r \in RunIds : runs[r].hist = << >>
    BY DEF MailInit, Init, Fresh, Absent
  <2> QED
    BY <2>2, <2>3 DEF MailInit, Promises, Creations
<1>3. \A r \in RunIds : ~Executing(r) /\ runs[r].status # "parked"
  BY DEF MailInit, Init, Idle, Executing, Fresh, Absent
<1>4. exec = [r \in RunIds |-> exec[r]]
      /\ \A r \in RunIds : {"on", "spent", "got", "child"} \subseteq DOMAIN exec[r]
  BY DEF MailInit, Init, Idle
<1> QED
  BY <1>1, <1>2, <1>3, <1>4 DEF WInv, Segments, Nothing, Mid, NobodyWaitsInVain, Deaf

LEMMA WInvStep == WInv /\ AwaitsItsOwn /\ [MailNext]_allVars => WInv'
<1> SUFFICES ASSUME WInv, AwaitsItsOwn, [MailNext]_allVars PROVE WInv'
  OBVIOUS
<1>1. Table /\ Boxes /\ Promises /\ Creations /\ Segments /\ NobodyWaitsInVain
  BY DEF WInv
<1>2. Result
  BY <1>1, StepKind
<1>3. Table' /\ Boxes'
  BY <1>1, <1>2, BoxesStep DEF Result
<1>12. Promises' /\ Creations'
  BY <1>1, PromisesStep
<1>13. OwnPromises
  BY <1>1 DEF AwaitsItsOwn, Events, Creations, OwnPromises
<1>4. ASSUME Harmless, Derived PROVE WInv'
  <2>1. NobodyWaitsInVain'
    BY <1>1, <1>3, <1>4, HeardOrTold DEF Harmless, Derived
  <2> QED
    BY <1>1, <1>2, <1>3, <1>4, <1>12, <2>1, SegmentsStep
       DEF Harmless, Stay, Still, WInv
<1>5. ASSUME Stay, UNCHANGED <<mail, promises>> PROVE Harmless
  BY <1>1, <1>5 DEF Harmless, Calm
<1>6. CASE Next /\ MailUnchanged /\ Derived
  BY <1>1, <1>4, <1>5, <1>6, EngineStays DEF MailUnchanged
<1>7. CASE Post /\ Derived
  BY <1>1, <1>3, <1>4, <1>7, <1>13, PostIsHarmless
<1>8. ASSUME NEW r \in RunIds, NEW c, c = Asks(r), Executing(r), MailStep(r, c), Derived
      PROVE  WInv'
  <2>1. CASE FindNothing(r, c)
    <3>1. Segments'
      BY <1>1, <1>2, <1>8, <2>1, FindNothingStep, SegmentsStep DEF Same
    <3> QED
      BY <1>1, <1>3, <1>8, <1>12, <2>1, <3>1, FindNothingStep DEF WInv
  <2>2. CASE Park(r, c)
    <3>1. Segments'
      BY <1>1, <1>2, <1>8, <2>2, ParkStep, SegmentsStep
    <3> QED
      BY <1>1, <1>3, <1>8, <1>12, <2>2, <3>1, ParkStep DEF WInv
  <2>3. CASE UpdatesDrained(r, c)
    <3>1. Segments'
      BY <1>1, <1>2, <1>8, <2>3, DrainedStep, SegmentsStep DEF Same
    <3> QED
      BY <1>1, <1>3, <1>8, <1>12, <2>3, <3>1, DrainedStep DEF WInv
  <2>4. CASE ~FindNothing(r, c) /\ ~Park(r, c) /\ ~UpdatesDrained(r, c)
    BY <1>1, <1>3, <1>4, <1>8, <1>13, <2>4, MailStepIsHarmless
  <2> QED
    BY <2>1, <2>2, <2>3, <2>4
<1>9. ASSUME NEW r \in RunIds, TimerFires(r), Derived PROVE WInv'
  <2>1. UNCHANGED <<exec, mail, promises>> /\ \A q \in RunIds : Woke(q)
    BY <1>1, <1>9 DEF TimerFires, MailUnchanged, Woke, Same, Table, IsRow, Fields
  <2> QED
    BY <1>1, <1>4, <1>5, <1>9, <2>1, WakingStays
<1>10. ASSUME NEW call \in due, Invoke(call), Derived PROVE WInv'
  <2>1. UNCHANGED <<exec, mail, promises>> /\ \A q \in RunIds : Woke(q)
    BY <1>10 DEF Invoke, Woke, Same
  <2> QED
    BY <1>1, <1>4, <1>5, <1>10, <2>1, WakingStays
<1>11. CASE UNCHANGED allVars
  <2>1. UNCHANGED <<runs, exec, mail, promises, missed, scenario>>
    BY <1>11 DEF allVars, vars, mailVars
  <2>2. \A q \in RunIds : Same(q) /\ Calm(q) /\ IsSeq(mail'[q]) /\ (Deaf(q)' => Deaf(q))
    BY <1>1, <2>1 DEF Same, Calm, Boxes, Deaf, Nothing, Executing
  <2>3. NobodyWaitsInVain'
    BY <1>1, <2>2, CalmStaysDeaf DEF NobodyWaitsInVain
  <2>4. Stay
    BY <1>1, <2>1 DEF Stay, Still, Same, Nothing, Mid, Executing, Segments
  <2> QED
    BY <1>1, <1>2, <1>3, <1>12, <2>1, <2>3, <2>4, SegmentsStep DEF Stay, Still, WInv
<1> QED
  BY <1>6, <1>7, <1>8, <1>9, <1>10, <1>11 DEF MailNext, MailProgress
-----------------------------------------------------------------------------
LEMMA WaitersHear == MailSpec /\ []AwaitsItsOwn => []ParkedRunsHaveNothingToHear
<1>1. WInv => ParkedRunsHaveNothingToHear
  BY DEF WInv, NobodyWaitsInVain, Deaf, ParkedRunsHaveNothingToHear
<1> QED
  BY <1>1, InitWInv, WInvStep, PTL DEF MailSpec
-----------------------------------------------------------------------------
(***************************************************************************)
(* Queries.                                                                *)
(*                                                                         *)
(* A run that is suspended has been executed, and has heard since only of  *)
(* its own sleep: so the state its last segment left behind is the one a   *)
(* query reads.                                                            *)
(***************************************************************************)
\* What the guest of q had heard when it was last suspended.
HeardBefore(q) == IF runs[q].status = "sleeping" THEN Front(runs[q].hist) ELSE runs[q].hist

Suspended(q) == runs[q].status \in {"sleeping", "parked"}

\* A step that leaves q suspended left it so, or has suspended the segment that executed it.
Suspends(q) ==
    Suspended(q)' =>
        \/ runs'[q].status = runs[q].status /\ Same(q)
        \/ /\ Executing(q)
           /\ runs[q].status = "running"
           /\ runs'[q].prog = runs[q].prog
           /\ HeardBefore(q)' = runs[q].hist

LEMMA FrontOfAppend ==
    ASSUME NEW s, NEW e, IsSeq(s) PROVE Front(Append(s, e)) = s
<1> DEFINE t == Append(s, e)
           u == SubSeq(t, 1, Len(s))
<1>1. /\ IsSeq(t) /\ Len(s) \in Nat /\ Len(t) = Len(s) + 1
      /\ \A i \in 1..Len(s) : t[i] = s[i]
  BY Grows
<1> HIDE DEF t
<1>2. Front(t) = u
  BY <1>1 DEF Front
<1>3. \A i \in 1..Len(s) : t[i] \in Range(t)
  BY <1>1, LenProperties, ElementOfSeq DEF IsSeq
<1>4. u \in Seq(Range(t)) /\ Len(u) = Len(s) /\ \A i \in 1..Len(s) : u[i] = t[i]
  BY <1>1, <1>3, SubSeqProperties
<1>5. s \in Seq(Range(s))
  BY DEF IsSeq
<1>6. u = s
  <2> DEFINE R == Range(s) \cup Range(t)
  <2>1. Range(s) \subseteq R /\ Range(t) \subseteq R
    OBVIOUS
  <2> HIDE DEF u, R
  <2>2. u \in Seq(R) /\ s \in Seq(R)
    BY <1>4, <1>5, <2>1, SeqMonotonic
  <2> QED
    BY <1>1, <1>4, <2>2, SeqEqual
<1> QED
  BY <1>2, <1>6 DEF t

LEMMA RecordSuspendsNobody ==
    ASSUME Table, NEW r \in RunIds, NEW e, Record(r, e), NEW q \in RunIds
    PROVE  Suspends(q)
BY DEF Record, Table, IsRow, Fields, Suspends, Suspended, Same

LEMMA PerformSuspends ==
    ASSUME Table, NEW r \in RunIds, NEW c, Executing(r), Perform(r, c), NEW q \in RunIds
    PROVE  Suspends(q)
<1> USE DEF Table, IsRow, Fields, Same
<1>1. CASE MakeCall(r, c) \/ RefuseCall(r, c)
  BY <1>1 DEF MakeCall, RefuseCall, Suspends, Suspended
<1>2. ASSUME \/ RecordCall(r, c) \/ RecordSend(r, c) \/ RecordLocal(r, c)
             \/ RecordChild(r, c) \/ AwaitAnswered(r, c)
      PROVE  Suspends(q)
  BY <1>2, RecordSuspendsNobody
     DEF RecordCall, RecordSend, RecordLocal, RecordChild, AwaitAnswered
<1>3. CASE SleepBegins(r, c)
  <2> DEFINE e == [Answer("sleep", "none", "ok", 0) EXCEPT
                      !.at = After(DurableNow(runs[r].hist), c.length)]
  <2>1. /\ runs[r].status = "running"
        /\ runs' = [runs EXCEPT ![r].hist = Append(@, e), ![r].status = "sleeping",
                                ![r].until = After(now, c.length)]
    BY <1>3 DEF SleepBegins
  <2> HIDE DEF e
  <2>2. CASE q # r
    BY <2>1, <2>2 DEF Suspends, Suspended
  <2>3. CASE q = r
    <3>1. /\ runs'[r].hist = Append(runs[r].hist, e) /\ runs'[r].status = "sleeping"
          /\ runs'[r].prog = runs[r].prog
      BY <2>1
    <3>2. Front(runs'[r].hist) = runs[r].hist
      BY <3>1, FrontOfAppend
    <3> QED
      BY <2>1, <2>3, <3>1, <3>2 DEF Suspends, HeardBefore
  <2> QED
    BY <2>2, <2>3
<1>4. CASE InsertChild(r, c)
  <2>1. NewId \in RunIds /\ runs[NewId].status = "absent"
    BY <1>4, NewIdIsAbsent DEF InsertChild
  <2> QED
    BY <1>4, <2>1 DEF InsertChild, Fresh, Absent, Suspends, Suspended
<1>5. CASE AwaitSuspends(r, c)
  BY <1>5 DEF AwaitSuspends, Suspends, Suspended
<1>6. CASE ContinueRun(r, c)
  <2>1. PICK n \in RunIds : n = NewId
    BY <1>6, NewIdIsAbsent DEF ContinueRun
  <2>2. PICK p, parent, policy, from :
          runs' = [runs EXCEPT ![r].status = "done", ![r].result = "continued",
                               ![r].holds = FALSE,
                               ![n] = Fresh(p, parent, policy, from)]
    BY <1>6, <2>1 DEF ContinueRun
  <2>3. runs[n].status = "absent" /\ runs[r].status = "running"
    BY <1>6, <2>1, NewIdIsAbsent DEF ContinueRun
  <2>4. runs'[n].status = "ready" /\ runs'[r].status = "done"
        /\ \A p1 \in RunIds \ {r, n} : runs'[p1] = runs[p1]
    BY <2>2, <2>3 DEF Fresh, Absent
  <2> QED
    BY <2>4 DEF Suspends, Suspended
<1>7. CASE Finish(r, c)
  <2>1. CASE q = r
    BY <1>7, <2>1 DEF Finish, FinalStatus, Suspends, Suspended
  <2>2. CASE q # r
    <3>1. /\ runs'[q].status = "terminated" \/ runs'[q].status = runs[q].status
          /\ Same(q)
      BY <1>7, <2>2 DEF Finish
    <3> QED
      BY <3>1 DEF Suspends, Suspended
  <2> QED
    BY <2>1, <2>2
<1> QED
  BY <1>1, <1>2, <1>3, <1>4, <1>5, <1>6, <1>7 DEF Perform

LEMMA EngineSuspends == ASSUME Table, Next, NEW q \in RunIds PROVE Suspends(q)
<1> USE DEF Table, IsRow, Fields, Same
<1>1. ASSUME NEW r \in RunIds, NEW w \in Workers, Claim(r, w) PROVE Suspends(q)
  BY <1>1 DEF Claim, Suspends, Suspended
<1>2. ASSUME NEW r \in RunIds, SleepEnds(r) \/ ChildWakes(r) \/ Reap(r) PROVE Suspends(q)
  BY <1>2 DEF SleepEnds, ChildWakes, Reap, Suspends, Suspended
<1>3. ASSUME NEW r \in RunIds, RequestCancel(r) \/ CancelPropagates(r) PROVE Suspends(q)
  BY <1>3 DEF RequestCancel, CancelPropagates, Suspends, Suspended
<1>4. ASSUME UNCHANGED runs PROVE Suspends(q)
  BY <1>4 DEF Suspends, Suspended
<1>5. ASSUME NEW r \in RunIds, NEW c, Executing(r), Perform(r, c) PROVE Suspends(q)
  BY <1>5, PerformSuspends
<1> QED
  BY <1>1, <1>2, <1>3, <1>4, <1>5 DEF Next, Progress, FenceLost, Dispatch, Crash, Tick

LEMMA MailSuspends ==
    ASSUME Table, NEW r \in RunIds, NEW c, Executing(r), MailStep(r, c), NEW q \in RunIds
    PROVE  Suspends(q)
<1> USE DEF Table, IsRow, Fields
<1>1. ASSUME NEW op, NEW tag, NEW res, NEW n, RecordAnswer(r, op, tag, res, n) PROVE Suspends(q)
  BY <1>1 DEF RecordAnswer, Suspends, Suspended, Same
<1>2. ASSUME \/ HearSignal(r, c) \/ PollForSignal(r, c) \/ HearPromise(r, c) \/ HearTimeout(r, c)
             \/ RecordSignal(r, c) \/ RecordSettlement(r, c) \/ TakeLock(r, c) \/ FreeLock(r, c)
             \/ TakeNote(r, c) \/ Schedule(r, c) \/ MakePromise(r, c)
      PROVE  Suspends(q)
  <2>1. \E op, tag, res, n : RecordAnswer(r, op, tag, res, n)
    BY <1>2 DEF HearSignal, PollForSignal, HearPromise, HearTimeout, RecordSignal,
                RecordSettlement, TakeLock, FreeLock, TakeNote, Schedule, MakePromise
  <2> QED
    BY <1>1, <2>1
<1>3. ASSUME Woke(q) PROVE Suspends(q)
  BY <1>3 DEF Woke, Suspends, Suspended
<1>4. CASE SendSignal(r, c) \/ SettlePromise(r, c)
  BY <1>3, <1>4, WokenRows DEF SendSignal, SettlePromise
<1>5. CASE FindNothing(r, c) \/ UpdatesDrained(r, c)
  BY <1>5 DEF FindNothing, UpdatesDrained, Suspends, Suspended, Same
<1>6. CASE Park(r, c)
  BY <1>6 DEF Park, Suspends, Suspended, Same, HeardBefore
<1>7. CASE HandleUpdate(r, c)
  BY <1>7, RecordSuspendsNobody DEF HandleUpdate
<1> QED
  BY <1>2, <1>4, <1>5, <1>6, <1>7 DEF MailStep

LEMMA StepSuspends == ASSUME Table, [MailNext]_allVars, NEW q \in RunIds PROVE Suspends(q)
<1>1. ASSUME Woke(q) PROVE Suspends(q)
  BY <1>1 DEF Woke, Suspends, Suspended
<1>2. ASSUME NEW r \in RunIds, TimerFires(r) PROVE Suspends(q)
  BY <1>1, <1>2 DEF TimerFires, Woke, Same, Table, IsRow, Fields
<1>3. ASSUME NEW p, PostSignal(p) \/ PostSettlement(p) PROVE Suspends(q)
  BY <1>1, <1>3, WokenRows DEF PostSignal, PostSettlement
<1>4. ASSUME NEW p, PostUpdate(p) PROVE Suspends(q)
  BY <1>1, <1>4 DEF PostUpdate, Woken, Woke, Same, Table, IsRow, Fields
<1>5. ASSUME UNCHANGED runs PROVE Suspends(q)
  BY <1>5 DEF Suspends, Suspended, Same
<1> QED
  BY <1>2, <1>3, <1>4, <1>5, EngineSuspends, MailSuspends
     DEF MailNext, MailProgress, Post, Invoke, allVars, vars

RInv == Table /\ Boxes /\ query = [r \in RunIds |-> query[r]] /\ SuspendedRunsCanBeRead

(* The query state of a suspended run is what the guest had set when it    *)
(* was suspended, whoever executed it and whatever happened since.         *)
THEOREM QueriesAnswer == MailSpec => []SuspendedRunsCanBeRead
<1>1. MailInit => RInv
  <2>1. ASSUME MailInit PROVE SuspendedRunsCanBeRead
    BY <2>1 DEF MailInit, Init, Fresh, Absent, SuspendedRunsCanBeRead
  <2> QED
    BY <2>1, InitMInv DEF MInv, RInv, MailInit
<1>2. RInv /\ [MailNext]_allVars => RInv'
  <2> SUFFICES ASSUME RInv, [MailNext]_allVars PROVE RInv'
    OBVIOUS
  <2>1. Result
    BY StepKind DEF RInv
  <2>2. Table' /\ Boxes'
    BY <2>1, BoxesStep DEF RInv, Result
  <2>3. StoreQuery \/ UNCHANGED <<runs, query>>
    BY DEF MailNext, Derived, allVars, vars, mailVars
  <2>4. query' = [r \in RunIds |-> query'[r]]
    BY <2>3 DEF StoreQuery, RInv
  <2>5. ASSUME NEW q \in RunIds, Suspended(q)'
        PROVE  query'[q] = Shown(runs'[q].prog, HeardBefore(q)')
    <3>1. Suspends(q)
      BY StepSuspends DEF RInv
    <3>2. CASE runs'[q].status = runs[q].status /\ Same(q)
      <4>1. query[q] = Shown(runs[q].prog, HeardBefore(q))
        BY <2>5, <3>2 DEF RInv, SuspendedRunsCanBeRead, Suspended, HeardBefore, Events
      <4>2. HeardBefore(q)' = HeardBefore(q) /\ runs'[q].prog = runs[q].prog
        BY <3>2 DEF HeardBefore, Same
      <4>3. query'[q] = query[q]
        BY <2>3, <2>5, <3>2 DEF StoreQuery, Stored, Suspended
      <4> QED
        BY <4>1, <4>2, <4>3
    <3>3. CASE /\ Executing(q) /\ runs[q].status = "running"
               /\ runs'[q].prog = runs[q].prog /\ HeardBefore(q)' = runs[q].hist
      <4>1. Stored(q)
        BY <2>5, <3>3 DEF Stored, Suspended
      <4>2. query'[q] = Shown(runs[q].prog, runs[q].hist)
        BY <2>3, <2>5, <3>3, <4>1 DEF StoreQuery, Suspended
      <4> QED
        BY <3>3, <4>2
    <3> QED
      BY <2>5, <3>1, <3>2, <3>3 DEF Suspends
  <2>6. SuspendedRunsCanBeRead'
    BY <2>5 DEF SuspendedRunsCanBeRead, Suspended, HeardBefore, Events
  <2> QED
    BY <2>2, <2>4, <2>6 DEF RInv
<1>3. RInv => SuspendedRunsCanBeRead
  BY DEF RInv
<1> QED
  BY <1>1, <1>2, <1>3, PTL DEF MailSpec
-----------------------------------------------------------------------------
(***************************************************************************)
(* Updates.                                                                *)
(*                                                                         *)
(* A wait dispatches the updates it finds before it suspends, and one that *)
(* comes later wakes the run: so no run is parked on a pending update.     *)
(***************************************************************************)
LEMMA MailStepStays ==
    ASSUME Table, Segments, NEW r \in RunIds, NEW c, Executing(r), MailStep(r, c),
           ~FindNothing(r, c), ~Park(r, c), ~UpdatesDrained(r, c)
    PROVE  Stay
<1>1. ASSUME \/ HearSignal(r, c) \/ PollForSignal(r, c) \/ HearPromise(r, c) \/ HearTimeout(r, c)
             \/ RecordSignal(r, c) \/ RecordSettlement(r, c) \/ TakeLock(r, c) \/ FreeLock(r, c)
             \/ TakeNote(r, c) \/ Schedule(r, c) \/ MakePromise(r, c)
      PROVE  Stay
  <2>1. \E op, tag, res, n : RecordAnswer(r, op, tag, res, n)
    BY <1>1 DEF HearSignal, PollForSignal, HearPromise, HearTimeout, RecordSignal,
                RecordSettlement, TakeLock, FreeLock, TakeNote, Schedule, MakePromise
  <2> QED
    BY <2>1, AnswerStays
<1>2. ASSUME SendSignal(r, c) \/ SettlePromise(r, c) PROVE Stay
  <2>1. ASSUME NEW q \in RunIds PROVE Woke(q)
    BY <1>2, WokenRows DEF SendSignal, SettlePromise
  <2>2. PICK got \in {"ok", "error"} : exec' = [exec EXCEPT ![r].got = got]
    BY <1>2 DEF SendSignal, SettlePromise
  <2> QED
    BY <2>1, <2>2, SegmentStays
<1>3. ASSUME HandleUpdate(r, c) PROVE Stay
  <2>1. /\ UNCHANGED exec /\ exec[r].got = "none"
        /\ \E e : Record(r, e)
    BY <1>3 DEF HandleUpdate
  <2>2. ASSUME NEW q \in RunIds, q # r PROVE runs'[q] = runs[q]
    BY <2>1, <2>2 DEF Record, Table
  <2>3. runs[r].status = "running" /\ runs'[r].status = "running"
    BY <2>1 DEF Record, Table, IsRow, Fields
  <2> QED
    BY <2>1, <2>2, <2>3 DEF Stay, Still, Same, Nothing, Mid, Executing, Segments
<1> QED
  BY <1>1, <1>2, <1>3 DEF MailStep

\* A look at the mailbox that ends in the memory of the worker.
LEMMA LookStays ==
    ASSUME Table, Segments, NEW r \in RunIds, NEW c, c = Asks(r), Executing(r),
           FindNothing(r, c) \/ UpdatesDrained(r, c)
    PROVE  /\ exec' = [q \in RunIds |-> exec'[q]]
           /\ \A q \in RunIds : {"on", "spent", "got", "child"} \subseteq DOMAIN exec'[q]
           /\ \A q \in RunIds : q # r => Still(q)
           /\ exec'[r].got = "drained" => UpdatesDrained(r, c)
           /\ Waits(Asks(r)) /\ UNCHANGED <<runs, updates>>
<1>1. /\ Waits(c) /\ UNCHANGED <<runs, updates>>
      /\ \/ exec' = [exec EXCEPT ![r].got = "nothing"]
         \/ exec' = [exec EXCEPT ![r].got = "drained"] /\ UpdatesDrained(r, c)
  BY DEF FindNothing, UpdatesDrained, Reached, Waits, MailUnchanged
<1>2. /\ \A q \in RunIds \ {r} : exec'[q] = exec[q]
      /\ exec' = [q \in RunIds |-> exec'[q]]
      /\ \A q \in RunIds : {"on", "spent", "got", "child"} \subseteq DOMAIN exec'[q]
      /\ exec'[r].got = "drained" => UpdatesDrained(r, c)
  BY <1>1 DEF Segments
<1>3. ASSUME NEW q \in RunIds, q # r PROVE Still(q)
  BY <1>1, <1>2, <1>3 DEF Still, Same, Nothing, Mid, Executing, Segments
<1> QED
  BY <1>1, <1>2, <1>3

LEMMA ParkStays ==
    ASSUME Table, Segments, NEW r \in RunIds, NEW c, Executing(r), Park(r, c)
    PROVE  /\ exec' = [q \in RunIds |-> exec'[q]]
           /\ \A q \in RunIds : {"on", "spent", "got", "child"} \subseteq DOMAIN exec'[q]
           /\ \A q \in RunIds : q # r => Still(q)
           /\ ~Executing(r)'
<1>1. /\ exec' = [exec EXCEPT ![r] = Idle]
      /\ \A q \in RunIds \ {r} : runs'[q] = runs[q]
  BY DEF Park, Table
<1>2. /\ \A q \in RunIds \ {r} : exec'[q] = exec[q]
      /\ exec' = [q \in RunIds |-> exec'[q]]
      /\ \A q \in RunIds : {"on", "spent", "got", "child"} \subseteq DOMAIN exec'[q]
      /\ ~Executing(r)'
  BY <1>1 DEF Segments, Idle, Executing
<1>3. ASSUME NEW q \in RunIds, q # r PROVE Still(q)
  BY <1>1, <1>2, <1>3 DEF Still, Same, Nothing, Mid, Executing, Segments
<1> QED
  BY <1>2, <1>3

\* The segment of q has looked at what waits for it, and remembers the answer.
Looks(q) ==
    /\ Executing(q) /\ Same(q) /\ Waits(Asks(q))
    /\ exec'[q].got = "drained" => Pending(q) = {} /\ UNCHANGED updates

LEMMA SegmentsKept ==
    ASSUME Table, Boxes, Segments, [MailNext]_allVars
    PROVE  Segments' /\ \A q \in RunIds : Still(q) \/ ~Executing(q)' \/ Looks(q)
<1> DEFINE Shape == /\ exec' = [q \in RunIds |-> exec'[q]]
                    /\ \A q \in RunIds : {"on", "spent", "got", "child"} \subseteq DOMAIN exec'[q]
                    /\ \A q \in RunIds : Still(q) \/ ~Executing(q)' \/ Looks(q)
<1>1. Stay => Shape
  BY DEF Stay, Still
<1>2. Result
  BY StepKind
<1>3. ASSUME Shape PROVE Segments'
  BY <1>2, <1>3, SegmentsStep DEF Looks
<1> HIDE DEF Shape
<1>4. ASSUME Next PROVE Shape
  BY <1>1, <1>4, EngineStays
<1>5. ASSUME UNCHANGED exec, \A q \in RunIds : Woke(q) PROVE Shape
  BY <1>1, <1>5, WakingStays
<1>6. ASSUME NEW r \in RunIds, NEW c, c = Asks(r), Executing(r), MailStep(r, c) PROVE Shape
  <2>1. CASE FindNothing(r, c) \/ UpdatesDrained(r, c)
    <3>1. /\ exec' = [q \in RunIds |-> exec'[q]]
          /\ \A q \in RunIds : {"on", "spent", "got", "child"} \subseteq DOMAIN exec'[q]
          /\ \A q \in RunIds : q # r => Still(q)
          /\ exec'[r].got = "drained" => UpdatesDrained(r, c)
          /\ Waits(Asks(r)) /\ UNCHANGED <<runs, updates>>
      BY <1>6, <2>1, LookStays
    <3>2. Looks(r)
      BY <1>6, <3>1 DEF Looks, Same, UpdatesDrained
    <3> QED
      BY <3>1, <3>2 DEF Shape
  <2>2. CASE Park(r, c)
    BY <1>6, <2>2, ParkStays DEF Shape
  <2>3. CASE ~FindNothing(r, c) /\ ~Park(r, c) /\ ~UpdatesDrained(r, c)
    BY <1>1, <1>6, <2>3, MailStepStays
  <2> QED
    BY <2>1, <2>2, <2>3
<1>7. ASSUME NEW r \in RunIds, TimerFires(r) PROVE Shape
  BY <1>5, <1>7 DEF TimerFires, Woke, Same, Table, IsRow, Fields
<1>8. ASSUME NEW call \in due, Invoke(call) PROVE Shape
  BY <1>5, <1>8 DEF Invoke, Woke, Same
<1>9. ASSUME Post PROVE Shape
  <2> DEFINE p == scenario.posts[posted + 1]
  <2>1. UNCHANGED exec /\ (PostSignal(p) \/ PostSettlement(p) \/ PostUpdate(p))
    BY <1>9 DEF Post
  <2>2. ASSUME NEW q \in RunIds PROVE Woke(q)
    <3>1. ASSUME PostSignal(p) \/ PostSettlement(p) PROVE Woke(q)
      BY <3>1, WokenRows DEF PostSignal, PostSettlement
    <3>2. CASE PostUpdate(p)
      BY <3>2 DEF PostUpdate, Woken, Woke, Same, Table, IsRow, Fields
    <3> QED
      BY <2>1, <3>1, <3>2
  <2> QED
    BY <1>5, <2>1, <2>2
<1>10. ASSUME UNCHANGED allVars PROVE Shape
  BY <1>5, <1>10 DEF allVars, vars, mailVars, Woke, Same
<1>11. Shape
  BY <1>1, <1>4, <1>6, <1>7, <1>8, <1>9, <1>10 DEF MailNext, MailProgress
<1> QED
  BY <1>3, <1>11 DEF Shape
-----------------------------------------------------------------------------
\* What happens to the updates: one is settled, or one is accepted.
Settles(k) == \E state : state # "pending" /\ updates' = [updates EXCEPT ![k].state = state]

Accepts(u) ==
    /\ updates' = Append(updates, u)
    /\ {"run", "state", "from"} \subseteq DOMAIN u
    /\ u.from = Len(runs[u.run].hist)
    /\ posted < Len(scenario.posts)
    /\ scenario.posts[posted + 1].kind = "update" /\ scenario.posts[posted + 1].run = u.run
    /\ \A q \in RunIds : runs'[q].hist = runs[q].hist

LEMMA UpdatesChange ==
    ASSUME Table, Boxes, [MailNext]_allVars
    PROVE  UNCHANGED updates \/ (\E k \in DOMAIN updates : Settles(k)) \/ (\E u : Accepts(u))
<1> DEFINE Goal == \/ UNCHANGED updates
                   \/ \E k \in DOMAIN updates : Settles(k)
                   \/ \E u : Accepts(u)
<1>1. ASSUME NEW r \in RunIds, NEW c, MailStep(r, c) PROVE Goal
  <2>1. CASE HandleUpdate(r, c)
    <3> DEFINE k == NextRequest(r)
    <3>1. PICK state \in {"resolved", "rejected"} : updates' = [updates EXCEPT ![k].state = state]
      BY <2>1 DEF HandleUpdate
    <3>2. Pending(r) \in SUBSET Nat /\ Pending(r) # {}
      BY <2>1, LenProperties DEF HandleUpdate, Pending, Boxes, IsSeq
    <3>3. k \in DOMAIN updates
      BY <3>2, LeastExists DEF NextRequest, Pending
    <3> HIDE DEF k
    <3>4. state # "pending"
      OBVIOUS
    <3> QED
      BY <3>1, <3>3, <3>4 DEF Settles
  <2>2. CASE ~HandleUpdate(r, c)
    BY <1>1, <2>2
       DEF MailStep, HearSignal, PollForSignal, HearPromise, HearTimeout, RecordSignal,
           RecordSettlement, TakeLock, FreeLock, TakeNote, Schedule, MakePromise, SendSignal,
           SettlePromise, FindNothing, UpdatesDrained, Park, MailUnchanged
  <2> QED
    BY <2>1, <2>2
<1>2. ASSUME Post PROVE Goal
  <2> DEFINE p == scenario.posts[posted + 1]
             u == [run |-> p.run, name |-> p.name, bad |-> p.bad, state |-> "pending",
                   from |-> Len(runs[p.run].hist)]
  <2>1. PostSignal(p) \/ PostSettlement(p) \/ PostUpdate(p)
    BY <1>2 DEF Post
  <2>2. ASSUME PostUpdate(p), updates' # updates PROVE Accepts(u)
    BY <1>2, <2>2 DEF Post, PostUpdate, Woken, Accepts, Table, IsRow, Fields
  <2> QED
    BY <2>1, <2>2 DEF PostSignal, PostSettlement
<1> QED
  BY <1>1, <1>2 DEF MailNext, MailProgress, MailUnchanged, TimerFires, Invoke, allVars, mailVars

\* A recv is recorded when the guest has reached its wait.
Receives(q) ==
    \/ runs'[q].hist = runs[q].hist
    \/ \E e : /\ runs'[q].hist = Append(runs[q].hist, e)
              /\ e.op = "recv" => /\ Reached(q, Asks(q)) /\ Asks(q).op = "recv"
                                  /\ Executing(q) /\ Live(q) /\ UNCHANGED updates

LEMMA AnswerReceives ==
    ASSUME Table, NEW r \in RunIds, NEW op, NEW tag, NEW res, NEW n,
           RecordAnswer(r, op, tag, res, n), UNCHANGED scenario, Executing(r),
           op = "recv" => Reached(r, Asks(r)) /\ Asks(r).op = "recv" /\ UNCHANGED updates,
           NEW q \in RunIds
    PROVE  Receives(q)
<1>1. CASE q # r
  BY <1>1, AnswerIsQuiet DEF Receives
<1>2. CASE q = r
  <2>1. PICK e : Answered(r, e) /\ e.op = op
    BY AnswerIsQuiet
  <2>2. Live(r)
    BY <2>1 DEF Answered, Live, Terminal
  <2> QED
    BY <1>2, <2>1, <2>2 DEF Receives, Answered
<1> QED
  BY <1>1, <1>2

LEMMA StepReceives ==
    ASSUME Table, [MailNext]_allVars, NEW q \in RunIds PROVE Receives(q)
<1> USE DEF RestUnchanged, MailUnchanged
<1>1. CASE Next
  BY <1>1, EngineRecords DEF Records, EngineOps, Receives
<1>2. ASSUME Woke(q) PROVE Receives(q)
  BY <1>2 DEF Woke, Same, Receives
<1>3. ASSUME NEW r \in RunIds, NEW c, c = Asks(r), Executing(r), MailStep(r, c) PROVE Receives(q)
  <2>1. ASSUME NEW op, NEW tag, NEW res, NEW n, RecordAnswer(r, op, tag, res, n),
               UNCHANGED scenario, op # "recv"
        PROVE  Receives(q)
    BY <1>3, <2>1, AnswerReceives
  <2>2. CASE HearSignal(r, c)
    BY <1>3, <2>2, AnswerReceives DEF HearSignal
  <2>3. CASE HearTimeout(r, c)
    BY <1>3, <2>3, AnswerReceives DEF HearTimeout
  <2>4. CASE PollForSignal(r, c)
    BY <2>1, <2>4 DEF PollForSignal
  <2>5. CASE HearPromise(r, c) \/ RecordSignal(r, c) \/ RecordSettlement(r, c) \/ MakePromise(r, c)
    BY <2>1, <2>5 DEF HearPromise, RecordSignal, RecordSettlement, MakePromise
  <2>6. CASE TakeLock(r, c) \/ FreeLock(r, c) \/ TakeNote(r, c) \/ Schedule(r, c)
    BY <2>1, <2>6 DEF TakeLock, FreeLock, TakeNote, Schedule
  <2>7. CASE SendSignal(r, c) \/ SettlePromise(r, c)
    BY <1>2, <2>7, WokenRows DEF SendSignal, SettlePromise
  <2>8. CASE FindNothing(r, c) \/ UpdatesDrained(r, c)
    BY <2>8 DEF FindNothing, UpdatesDrained, Receives
  <2>9. CASE Park(r, c)
    BY <2>9 DEF Park, Receives, Table, IsRow, Fields
  <2>10. CASE HandleUpdate(r, c)
    <3>1. PICK i, verdict : Record(r, Answer("update", updates[i].name, verdict, i))
      BY <2>10 DEF HandleUpdate
    <3>2. PICK e : Record(r, e) /\ e.op # "recv"
      BY <3>1 DEF Answer
    <3>3. runs'[r].hist = Append(runs[r].hist, e)
          /\ \A p \in RunIds \ {r} : runs'[p].hist = runs[p].hist
      BY <3>2 DEF Record, Table, IsRow, Fields
    <3> QED
      BY <3>2, <3>3 DEF Receives
  <2> QED
    BY <1>3, <2>2, <2>3, <2>4, <2>5, <2>6, <2>7, <2>8, <2>9, <2>10 DEF MailStep
<1>4. ASSUME NEW r \in RunIds, TimerFires(r) PROVE Receives(q)
  BY <1>2, <1>4 DEF TimerFires, Woke, Same, Table, IsRow, Fields
<1>5. ASSUME NEW p, PostSignal(p) \/ PostSettlement(p) PROVE Receives(q)
  BY <1>2, <1>5, WokenRows DEF PostSignal, PostSettlement
<1>6. ASSUME NEW p, PostUpdate(p) PROVE Receives(q)
  BY <1>2, <1>6 DEF PostUpdate, Woken, Woke, Same, Table, IsRow, Fields
<1>7. ASSUME UNCHANGED runs PROVE Receives(q)
  BY <1>7 DEF Receives
<1> QED
  BY <1>1, <1>3, <1>4, <1>5, <1>6, <1>7 DEF MailNext, MailProgress, Post, Invoke, allVars, vars
-----------------------------------------------------------------------------
Dated ==
    \A k \in DOMAIN updates :
        /\ {"run", "state", "from"} \subseteq DOMAIN updates[k]
        /\ updates[k].run \in RunIds => updates[k].from \in Nat

\* Once a wait has dispatched what there was, what is pending came later.
DispatchedAll ==
    \A r \in RunIds : Executing(r) /\ exec[r].got = "drained" =>
        \A k \in Pending(r) : updates[k].from >= Len(runs[r].hist)

UInv == Table /\ Boxes /\ Segments /\ Dated /\ DispatchedAll /\ WaitsLeaveNoUpdatePending

\* A pending update is an old one, or has just been accepted.
LEMMA PendingWas ==
    ASSUME Table, Boxes, Dated, [MailNext]_allVars,
           NEW r \in RunIds, NEW k, k \in Pending(r)'
    PROVE  \/ k \in Pending(r) /\ updates'[k].from = updates[k].from
           \/ /\ updates'[k].from = Len(runs[r].hist)
              /\ runs'[r].hist = runs[r].hist
<1>1. CASE UNCHANGED updates
  BY <1>1 DEF Pending
<1>2. ASSUME NEW j \in DOMAIN updates, Settles(j) PROVE k \in Pending(r) /\ updates'[k].from = updates[k].from
  BY <1>2 DEF Settles, Pending, Dated
<1>3. ASSUME NEW u, Accepts(u)
      PROVE  \/ k \in Pending(r) /\ updates'[k].from = updates[k].from
             \/ updates'[k].from = Len(runs[r].hist) /\ runs'[r].hist = runs[r].hist
  <2>1. /\ DOMAIN updates = 1..Len(updates) /\ Len(updates) \in Nat
        /\ DOMAIN updates' = 1..Len(updates) + 1
        /\ \A i \in 1..Len(updates) : updates'[i] = updates[i]
        /\ updates'[Len(updates) + 1] = u
    BY <1>3, Grows DEF Accepts, Boxes
  <2>2. CASE k \in DOMAIN updates
    BY <2>1, <2>2 DEF Pending
  <2>3. CASE k \notin DOMAIN updates
    <3>1. updates'[k] = u
      BY <2>1, <2>3 DEF Pending
    <3> QED
      BY <1>3, <3>1 DEF Pending, Accepts
  <2> QED
    BY <2>2, <2>3
<1> QED
  BY <1>1, <1>2, <1>3, UpdatesChange

LEMMA DatedStep == ASSUME Table, Boxes, Dated, [MailNext]_allVars PROVE Dated'
<1>1. CASE UNCHANGED updates
  BY <1>1 DEF Dated
<1>2. ASSUME NEW j \in DOMAIN updates, Settles(j) PROVE Dated'
  BY <1>2 DEF Settles, Dated
<1>3. ASSUME NEW u, Accepts(u) PROVE Dated'
  <2>1. /\ DOMAIN updates = 1..Len(updates) /\ Len(updates) \in Nat
        /\ DOMAIN updates' = 1..Len(updates) + 1
        /\ \A i \in 1..Len(updates) : updates'[i] = updates[i]
        /\ updates'[Len(updates) + 1] = u
    BY <1>3, Grows DEF Accepts, Boxes
  <2>2. u.run \in RunIds => u.from \in Nat
    BY <1>3, LenProperties DEF Accepts, Table, IsRow, IsSeq
  <2> QED
    BY <1>3, <2>1, <2>2 DEF Dated, Accepts
<1> QED
  BY <1>1, <1>2, <1>3, UpdatesChange

LEMMA DispatchedStep ==
    ASSUME Table, Boxes, Segments, Dated, DispatchedAll, [MailNext]_allVars PROVE DispatchedAll'
<1> SUFFICES ASSUME NEW r \in RunIds, Executing(r)', exec'[r].got = "drained",
                    NEW k, k \in Pending(r)'
             PROVE  updates'[k].from >= Len(runs'[r].hist)
  BY DEF DispatchedAll, Pending
<1>1. Len(runs[r].hist) \in Nat
  BY LenProperties DEF Table, IsRow, IsSeq
<1>2. Still(r) \/ Looks(r)
  BY SegmentsKept
<1>3. Same(r)
  BY <1>2 DEF Still, Mid, Looks
<1>4. CASE updates'[k].from = Len(runs[r].hist)
  BY <1>1, <1>3, <1>4 DEF Same
<1>5. CASE k \in Pending(r) /\ updates'[k].from = updates[k].from
  <2>1. Executing(r) /\ exec[r].got = "drained"
    BY <1>2, <1>5 DEF Still, Mid, Looks
  <2> QED
    BY <1>3, <1>5, <2>1 DEF DispatchedAll, Same
<1> QED
  BY <1>4, <1>5, PendingWas

LEMMA WaitsStep ==
    ASSUME UInv, WaitsDispatch, [MailNext]_allVars PROVE WaitsLeaveNoUpdatePending'
<1> USE DEF UInv
<1> SUFFICES ASSUME NEW r \in RunIds, NEW k, k \in Pending(r)', NEW j \in DOMAIN runs'[r].hist,
                    runs'[r].hist[j].op = "recv", j > updates'[k].from + 1
             PROVE  FALSE
  BY DEF WaitsLeaveNoUpdatePending, Events, Pending
<1>1. Len(runs[r].hist) \in Nat /\ DOMAIN runs[r].hist = 1..Len(runs[r].hist)
  BY LenProperties DEF Table, IsRow, IsSeq
<1>2. updates'[k].from \in Nat
  BY DatedStep DEF Dated, Pending
<1>3. CASE j \in DOMAIN runs[r].hist /\ runs'[r].hist[j] = runs[r].hist[j]
  <2>1. k \in Pending(r) /\ updates'[k].from = updates[k].from
    BY <1>1, <1>3, PendingWas
  <2> QED
    BY <1>3, <2>1 DEF WaitsLeaveNoUpdatePending, Events, Pending
<1>4. ASSUME NEW e, runs'[r].hist = Append(runs[r].hist, e), j = Len(runs[r].hist) + 1,
             e.op = "recv" => /\ Reached(r, Asks(r)) /\ Asks(r).op = "recv"
                              /\ Executing(r) /\ Live(r) /\ UNCHANGED updates
      PROVE  FALSE
  <2>1. e.op = "recv"
    BY <1>4, Grows DEF Table, IsRow
  <2>2. k \in Pending(r) /\ updates'[k].from = updates[k].from
    BY <1>4, <2>1 DEF Pending
  <2>3. exec[r].got = "drained"
    BY <1>4, <2>1, <2>2 DEF WaitsDispatch, Reached
  <2>4. updates[k].from >= Len(runs[r].hist)
    BY <1>4, <2>1, <2>2, <2>3 DEF DispatchedAll
  <2> QED
    BY <1>1, <1>2, <1>4, <2>2, <2>4
<1>5. Receives(r)
  BY StepReceives
<1>6. CASE runs'[r].hist = runs[r].hist
  BY <1>3, <1>6
<1>7. ASSUME NEW e, runs'[r].hist = Append(runs[r].hist, e)
      PROVE  \/ j \in DOMAIN runs[r].hist /\ runs'[r].hist[j] = runs[r].hist[j]
             \/ j = Len(runs[r].hist) + 1
  BY <1>1, <1>7, Grows DEF Table, IsRow
<1> QED
  BY <1>3, <1>4, <1>5, <1>6, <1>7 DEF Receives

LEMMA DispatchersSettle ==
    MailSpec /\ []WaitsDispatch => []WaitsLeaveNoUpdatePending
<1>1. MailInit => UInv
  <2> SUFFICES ASSUME MailInit PROVE UInv
    OBVIOUS
  <2>1. Table /\ Boxes /\ Segments
    BY InitWInv DEF WInv
  <2>2. DOMAIN << >> = {}
    <3>1. << >> \in Seq(Range(<< >>)) /\ Len(<< >>) = 0
      BY EmptySeq
    <3> QED
      BY <3>1, LenProperties
  <2>3. updates = << >> /\ \A r \in RunIds : ~Executing(r)
    BY DEF MailInit, Init, Idle, Executing
  <2> QED
    BY <2>1, <2>2, <2>3 DEF UInv, Dated, DispatchedAll, WaitsLeaveNoUpdatePending, Events
<1>2. UInv /\ WaitsDispatch /\ [MailNext]_allVars => UInv'
  <2> SUFFICES ASSUME UInv, WaitsDispatch, [MailNext]_allVars PROVE UInv'
    OBVIOUS
  <2>1. Table' /\ Boxes'
    BY StepKind, BoxesStep DEF UInv, Result
  <2>2. Segments'
    BY SegmentsKept DEF UInv
  <2> QED
    BY <2>1, <2>2, DatedStep, DispatchedStep, WaitsStep DEF UInv
<1>3. UInv => WaitsLeaveNoUpdatePending
  BY DEF UInv
<1> QED
  BY <1>1, <1>2, <1>3, PTL DEF MailSpec
-----------------------------------------------------------------------------
(* Locks, for every guest that asks for them under the TTL it was started  *)
(* with (LocksByItsTtl).  The lock table says who holds what and until     *)
(* when; the argument is that the histories agree with it: a grant neither *)
(* released nor run out is the table's entry, so no two runs have one.     *)

\* A step that neither takes nor frees a lock: what it does to the row q.
LockFree(q) ==
    /\ runs[q].hist # <<>> => runs'[q].prog = runs[q].prog
    /\ \/ runs'[q].hist = runs[q].hist
       \/ \E e : e.op \notin {"lock", "unlock"} /\ runs'[q].hist = Append(runs[q].hist, e)

Idles == UNCHANGED locks /\ now' \in {now, now + 1} /\ \A q \in RunIds : LockFree(q)

\* A step that answers a call for a lock or of its release.
Answers(r, op, key, res) ==
    /\ runs[r].status = "running"
    /\ \A q \in RunIds : runs'[q].prog = runs[q].prog
    /\ \A q \in RunIds \ {r} : runs'[q].hist = runs[q].hist
    /\ \E e : /\ runs'[r].hist = Append(runs[r].hist, e)
              /\ e.op = op /\ e.tag = key /\ e.res = res /\ e.at = now
    /\ now' = now

Takes(r) ==
    LET c == Asks(r) IN
    /\ c.op = "lock"
    /\ Answers(r, "lock", c.key, IF Taken(c.key) THEN "taken" ELSE "ok")
    /\ locks' = IF Taken(c.key) THEN locks
                ELSE [locks EXCEPT ![c.key] = [by |-> r, until |-> now + c.ttl]]

Frees(r) ==
    LET c == Asks(r) IN
    /\ Answers(r, "unlock", c.key, "ok")
    /\ locks' = IF locks[c.key].by = r THEN [locks EXCEPT ![c.key].by = 0] ELSE locks

LEMMA RecordIsLockFree ==
    ASSUME Table, NEW r \in RunIds, NEW e, Record(r, e), e.op \notin {"lock", "unlock"},
           NEW q \in RunIds
    PROVE  LockFree(q)
BY DEF Record, Table, IsRow, Fields, LockFree

LEMMA AnswerIsLockFree ==
    ASSUME Table, NEW r \in RunIds, NEW op, NEW tag, NEW res, NEW n,
           RecordAnswer(r, op, tag, res, n), op \notin {"lock", "unlock"}, NEW q \in RunIds
    PROVE  LockFree(q)
BY DEF RecordAnswer, Table, IsRow, Fields, LockFree

LEMMA EngineIsLockFree == ASSUME Table, Next, NEW q \in RunIds PROVE LockFree(q)
<1>1. Records(q) /\ Evolves(q)
  BY EngineRecords, EngineRows
<1>2. runs[q].hist # <<>> => runs'[q].prog = runs[q].prog
  <2>1. CASE Born(q)
    <3>1. runs[q].status = "absent"
      BY <2>1, NewIdIsAbsent DEF Born
    <3> QED
      BY <3>1 DEF Table, IsRow
  <2>2. CASE Went(q)
    BY <2>2 DEF Went, Keeps
  <2> QED
    BY <1>1, <2>1, <2>2 DEF Evolves
<1> QED
  BY <1>1, <1>2 DEF Records, EngineOps, LockFree

LEMMA LockAnswers ==
    ASSUME Table, NEW r \in RunIds, NEW op, NEW key, NEW res, NEW n,
           RecordAnswer(r, op, key, res, n), UNCHANGED now
    PROVE  Answers(r, op, key, res)
<1> DEFINE e == [op |-> op, tag |-> key, res |-> res, run |-> n, at |-> now,
                 since |-> Waited(r)]
<1>1. e.op = op /\ e.tag = key /\ e.res = res /\ e.at = now
  OBVIOUS
<1> HIDE DEF e
<1>2. /\ runs[r].status = "running"
      /\ runs' = [runs EXCEPT ![r].hist = Append(@, e), ![r].since = 0, ![r].until = 0]
  BY DEF RecordAnswer, e
<1>3. /\ runs'[r].hist = Append(runs[r].hist, e)
      /\ \A q \in RunIds : runs'[q].prog = runs[q].prog
      /\ \A q \in RunIds \ {r} : runs'[q].hist = runs[q].hist
  BY <1>2 DEF Table, IsRow, Fields
<1> QED
  BY <1>1, <1>2, <1>3 DEF Answers

LEMMA MailStepLocks ==
    ASSUME Table, NEW r \in RunIds, NEW c, c = Asks(r), MailStep(r, c)
    PROVE  Idles \/ Takes(r) \/ Frees(r)
<1> USE DEF RestUnchanged, MailUnchanged
<1>1. ASSUME UNCHANGED <<locks, now>>, \A q \in RunIds : LockFree(q) PROVE Idles
  BY <1>1 DEF Idles
<1>2. ASSUME NEW op, NEW tag, NEW res, NEW n, RecordAnswer(r, op, tag, res, n),
             op \notin {"lock", "unlock"}, UNCHANGED <<locks, now>>
      PROVE  Idles
  BY <1>1, <1>2, AnswerIsLockFree
<1>3. CASE HearSignal(r, c)
  BY <1>2, <1>3 DEF HearSignal
<1>4. CASE HearPromise(r, c) \/ HearTimeout(r, c)
  BY <1>2, <1>4 DEF HearPromise, HearTimeout, Reached, Waits
<1>5. CASE RecordSignal(r, c) \/ RecordSettlement(r, c)
  BY <1>2, <1>5 DEF RecordSignal, RecordSettlement
<1>6. CASE PollForSignal(r, c)
  BY <1>2, <1>6 DEF PollForSignal
<1>7. CASE TakeLock(r, c)
  BY <1>7, LockAnswers DEF TakeLock, Takes
<1>8. CASE FreeLock(r, c)
  BY <1>8, LockAnswers DEF FreeLock, Frees
<1>9. CASE TakeNote(r, c) \/ Schedule(r, c) \/ MakePromise(r, c)
  BY <1>2, <1>9 DEF TakeNote, Schedule, MakePromise
<1>10. CASE FindNothing(r, c) \/ UpdatesDrained(r, c)
  BY <1>1, <1>10 DEF FindNothing, UpdatesDrained, LockFree
<1>11. CASE Park(r, c)
  BY <1>1, <1>11 DEF Park, LockFree, Table, IsRow, Fields
<1>12. CASE SendSignal(r, c)
  <2>1. UNCHANGED <<locks, now>>
        /\ (UNCHANGED runs \/ Deliver(c.to, [name |-> c.name, n |-> 0]))
    BY <1>12 DEF SendSignal
  <2> QED
    BY <1>1, <2>1, WokenRows DEF Woke, Same, LockFree
<1>13. CASE SettlePromise(r, c)
  <2>1. UNCHANGED <<locks, now>> /\ SettleAndWake(c.promise, c.how)
    BY <1>13 DEF SettlePromise
  <2> QED
    BY <1>1, <2>1, WokenRows DEF Woke, Same, LockFree
<1>14. CASE HandleUpdate(r, c)
  <2>1. PICK i, verdict : Record(r, Answer("update", updates[i].name, verdict, i))
    BY <1>14 DEF HandleUpdate
  <2>2. \A q \in RunIds : LockFree(q)
    BY <2>1, RecordIsLockFree DEF Answer
  <2> QED
    BY <1>1, <1>14, <2>2 DEF HandleUpdate
<1> QED
  BY <1>3, <1>4, <1>5, <1>6, <1>7, <1>8, <1>9, <1>10, <1>11, <1>12, <1>13, <1>14 DEF MailStep

LEMMA StepLocks ==
    ASSUME Table, [MailNext]_allVars
    PROVE  Idles \/ \E r \in RunIds : Takes(r) \/ Frees(r)
<1> USE DEF RestUnchanged, MailUnchanged
<1>1. ASSUME UNCHANGED <<locks, now>>, \A q \in RunIds : Woke(q) PROVE Idles
  BY <1>1 DEF Woke, Same, LockFree, Idles
<1>2. CASE Next /\ MailUnchanged
  <2>1. now' \in {now, now + 1}
    <3>1. ASSUME NEW r \in RunIds, NEW c, Perform(r, c) PROVE now' = now
      BY <3>1 DEF Perform, MakeCall, RefuseCall, RecordCall, RecordSend, RecordLocal, SleepBegins,
                  InsertChild, RecordChild, AwaitAnswered, AwaitSuspends, ContinueRun, Finish
    <3>2. ASSUME NEW r \in RunIds, Progress(r) \/ RequestCancel(r) \/ CancelPropagates(r)
          PROVE  now' = now
      BY <3>1, <3>2 DEF Progress, Claim, SleepEnds, ChildWakes, FenceLost, Reap, RequestCancel,
                        CancelPropagates
    <3>3. ASSUME NEW s, Dispatch(s) PROVE now' = now
      BY <3>3 DEF Dispatch
    <3>4. ASSUME NEW w, Crash(w) PROVE now' = now
      BY <3>4 DEF Crash
    <3> QED
      BY <1>2, <3>2, <3>3, <3>4 DEF Next, Tick
  <2> QED
    BY <1>2, <2>1, EngineIsLockFree DEF Idles
<1>3. ASSUME NEW r \in RunIds, TimerFires(r) PROVE Idles
  BY <1>1, <1>3 DEF TimerFires, Woke, Same, Table, IsRow, Fields
<1>4. ASSUME NEW call, Invoke(call) PROVE Idles
  BY <1>1, <1>4 DEF Invoke, Woke, Same
<1>5. ASSUME Post PROVE Idles
  <2> DEFINE p == scenario.posts[posted + 1]
  <2>1. UNCHANGED <<locks, now>> /\ (PostSignal(p) \/ PostSettlement(p) \/ PostUpdate(p))
    BY <1>5 DEF Post
  <2>2. ASSUME NEW q \in RunIds PROVE Woke(q)
    <3>1. ASSUME PostSignal(p) \/ PostSettlement(p) PROVE Woke(q)
      BY <3>1, WokenRows DEF PostSignal, PostSettlement
    <3>2. CASE PostUpdate(p)
      BY <3>2 DEF PostUpdate, Woken, Woke, Same, Table, IsRow, Fields
    <3> QED
      BY <2>1, <3>1, <3>2
  <2> QED
    BY <1>1, <2>1, <2>2
<1>6. CASE UNCHANGED allVars
  BY <1>1, <1>6 DEF allVars, vars, mailVars, Woke, Same
<1> QED
  BY <1>2, <1>3, <1>4, <1>5, <1>6, MailStepLocks DEF MailNext, MailProgress
-----------------------------------------------------------------------------
\* GaveUp, of a history and a TTL.
GivenUp(h, ttl, i, t) ==
    \/ h[i].at + ttl <= t
    \/ \E j \in DOMAIN h : j > i /\ h[j].op = "unlock" /\ h[j].tag = h[i].tag /\ h[j].at <= t

IsGrant(e) == e.op = "lock" /\ e.res = "ok"

\* The events of a lock are dated, and it is one of the locks.
IsDated(e, t) ==
    /\ e.op \in {"lock", "unlock"} => e.at \in Nat /\ e.at <= t
    /\ IsGrant(e) => e.tag \in LockKeys

Calendar ==
    /\ now \in Nat
    /\ locks = [k \in LockKeys |-> locks[k]]
    /\ \A k \in LockKeys : {"by", "until"} \subseteq DOMAIN locks[k]
    /\ \A r \in RunIds : \A i \in DOMAIN runs[r].hist :
          /\ IsDated(runs[r].hist[i], now)
          /\ IsGrant(runs[r].hist[i]) => runs[r].prog.ttl \in Nat

\* Until it is given up the lock is its holder's, to the end of the TTL.
HasIt(r, e) ==
    /\ locks[e.tag].by = r
    /\ locks[e.tag].until = e.at + runs[r].prog.ttl

HoldersHold ==
    \A r \in RunIds : \A i \in DOMAIN runs[r].hist :
        IsGrant(runs[r].hist[i]) =>
            GivenUp(runs[r].hist, runs[r].prog.ttl, i, now) \/ HasIt(r, runs[r].hist[i])

Apart(r, i, q, j) ==
    LET e == runs[r].hist[i]
        f == runs[q].hist[j]
    IN IsGrant(e) /\ IsGrant(f) /\ <<q, j>> # <<r, i>> /\ f.tag = e.tag =>
          \/ GivenUp(runs[r].hist, runs[r].prog.ttl, i, f.at)
          \/ GivenUp(runs[q].hist, runs[q].prog.ttl, j, e.at)

NobodySharesALock ==
    \A r, q \in RunIds : \A i \in DOMAIN runs[r].hist, j \in DOMAIN runs[q].hist :
        Apart(r, i, q, j)

LInv == Table /\ Boxes /\ Calendar /\ HoldersHold /\ NobodySharesALock

\* h became g.
Grew(h, g) == g = h \/ \E e : g = Append(h, e)

\* What was given up stays given up.
LEMMA GivenUpStays ==
    ASSUME NEW h, NEW g, IsSeq(h), Grew(h, g), NEW ttl \in Nat, NEW i \in DOMAIN h,
           h[i].at \in Nat, NEW t \in Nat, NEW u \in Nat, t <= u,
           \A j \in DOMAIN h : h[j].op = "unlock" => h[j].at \in Nat,
           GivenUp(h, ttl, i, t)
    PROVE  i \in DOMAIN g /\ g[i] = h[i] /\ GivenUp(g, ttl, i, u)
<1>1. \A j \in DOMAIN h : j \in DOMAIN g /\ g[j] = h[j]
  BY Grows DEF Grew
<1>2. CASE h[i].at + ttl <= t
  BY <1>1, <1>2 DEF GivenUp
<1>3. ASSUME NEW j \in DOMAIN h, j > i, h[j].op = "unlock", h[j].tag = h[i].tag, h[j].at <= t
      PROVE  GivenUp(g, ttl, i, u)
  <2>1. h[j].at <= u
    BY <1>3
  <2> QED
    BY <1>1, <1>3, <2>1 DEF GivenUp
<1> QED
  BY <1>1, <1>2, <1>3 DEF GivenUp

\* A row that grows keeps its program and what it had given up.
Follows(q) ==
    /\ runs[q].hist # <<>> => runs'[q].prog = runs[q].prog
    /\ Grew(runs[q].hist, runs'[q].hist)

LEMMA OldEvents ==
    ASSUME Table, NEW q \in RunIds, Follows(q)
    PROVE  /\ \A i \in DOMAIN runs[q].hist :
                i \in DOMAIN runs'[q].hist /\ runs'[q].hist[i] = runs[q].hist[i]
           /\ \A i \in DOMAIN runs[q].hist : runs'[q].prog = runs[q].prog
<1>1. runs[q].hist = <<>> => DOMAIN runs[q].hist = {}
  BY EmptySeq, LenProperties
<1> QED
  BY <1>1, Grows DEF Follows, Grew, Table, IsRow

LEMMA GaveUpStays ==
    ASSUME Table, Calendar, NEW q \in RunIds, Follows(q),
           NEW i \in DOMAIN runs[q].hist, IsGrant(runs[q].hist[i]),
           NEW t \in Nat, NEW u \in Nat, t <= u,
           GivenUp(runs[q].hist, runs[q].prog.ttl, i, t)
    PROVE  GivenUp(runs'[q].hist, runs'[q].prog.ttl, i, u)
<1>1. PICK h, g, ttl : h = runs[q].hist /\ g = runs'[q].hist /\ ttl = runs[q].prog.ttl
  OBVIOUS
<1>2. IsSeq(h) /\ Grew(h, g) /\ ttl \in Nat /\ h[i].at \in Nat
      /\ \A j \in DOMAIN h : h[j].op = "unlock" => h[j].at \in Nat
  BY <1>1 DEF Table, IsRow, Follows, Calendar, IsDated, IsGrant
<1>3. GivenUp(g, ttl, i, u)
  BY <1>1, <1>2, GivenUpStays
<1> QED
  BY <1>1, <1>3, OldEvents

\* The event i of the row q was there before.
WasThere(q, i) == i \in DOMAIN runs[q].hist /\ runs'[q].hist[i] = runs[q].hist[i]

LEMMA LockEventsWere ==
    ASSUME Table, NEW q \in RunIds, LockFree(q), NEW i \in DOMAIN runs'[q].hist,
           runs'[q].hist[i].op \in {"lock", "unlock"}
    PROVE  WasThere(q, i)
BY Grows DEF LockFree, WasThere, Table, IsRow

LEMMA EventsAreOldOrLast ==
    ASSUME Table, NEW q \in RunIds, NEW e, runs'[q].hist = Append(runs[q].hist, e),
           NEW i \in DOMAIN runs'[q].hist
    PROVE  WasThere(q, i) \/ (i = Len(runs[q].hist) + 1 /\ runs'[q].hist[i] = e)
BY Grows DEF WasThere, Table, IsRow

\* Two grants that were there stay apart.
LEMMA ApartStays ==
    ASSUME Table, Calendar, NobodySharesALock, \A p \in RunIds : Follows(p),
           NEW r \in RunIds, NEW q \in RunIds, NEW i, NEW j, WasThere(r, i), WasThere(q, j)
    PROVE  Apart(r, i, q, j)'
<1> SUFFICES ASSUME IsGrant(runs[r].hist[i]), IsGrant(runs[q].hist[j]), <<q, j>> # <<r, i>>,
                    runs[q].hist[j].tag = runs[r].hist[i].tag
             PROVE  \/ GivenUp(runs'[r].hist, runs'[r].prog.ttl, i, runs[q].hist[j].at)
                    \/ GivenUp(runs'[q].hist, runs'[q].prog.ttl, j, runs[r].hist[i].at)
  BY DEF Apart, WasThere, GivenUp, IsGrant
<1>1. runs[q].hist[j].at \in Nat /\ runs[r].hist[i].at \in Nat
  BY DEF Calendar, IsDated, IsGrant, WasThere
<1>2. \/ GivenUp(runs[r].hist, runs[r].prog.ttl, i, runs[q].hist[j].at)
      \/ GivenUp(runs[q].hist, runs[q].prog.ttl, j, runs[r].hist[i].at)
  BY DEF NobodySharesALock, Apart, WasThere
<1> QED
  BY <1>1, <1>2, GaveUpStays DEF WasThere

LEMMA IdleLocks == ASSUME LInv, Idles PROVE Calendar' /\ HoldersHold' /\ NobodySharesALock'
<1> USE DEF LInv
<1>1. ASSUME NEW q \in RunIds PROVE Follows(q)
  BY DEF Idles, LockFree, Follows, Grew
<1>2. now \in Nat /\ now' \in Nat /\ now <= now'
  BY DEF Calendar, Idles
<1>3. ASSUME NEW q \in RunIds, NEW i \in DOMAIN runs'[q].hist,
             runs'[q].hist[i].op \in {"lock", "unlock"}
      PROVE  WasThere(q, i) /\ runs'[q].prog = runs[q].prog
  <2>1. WasThere(q, i)
    BY <1>3, LockEventsWere DEF Idles
  <2> QED
    BY <1>1, <2>1, OldEvents DEF WasThere
<1>4. Calendar'
  <2>1. ASSUME NEW q \in RunIds, NEW i \in DOMAIN runs'[q].hist
        PROVE  /\ IsDated(runs'[q].hist[i], now')
               /\ IsGrant(runs'[q].hist[i]) => runs'[q].prog.ttl \in Nat
    <3>1. CASE runs'[q].hist[i].op \notin {"lock", "unlock"}
      BY <3>1 DEF IsDated, IsGrant
    <3>2. CASE runs'[q].hist[i].op \in {"lock", "unlock"}
      <4>1. IsDated(runs[q].hist[i], now) /\ (IsGrant(runs[q].hist[i]) => runs[q].prog.ttl \in Nat)
        BY <1>3, <3>2 DEF WasThere, Calendar
      <4> QED
        BY <1>2, <1>3, <3>2, <4>1 DEF WasThere, IsDated, IsGrant
    <3> QED
      BY <3>1, <3>2
  <2> QED
    BY <1>2, <2>1 DEF Calendar, Idles
<1>5. HoldersHold'
  <2> SUFFICES ASSUME NEW q \in RunIds, NEW i \in DOMAIN runs'[q].hist, IsGrant(runs'[q].hist[i])
               PROVE  GivenUp(runs'[q].hist, runs'[q].prog.ttl, i, now') \/ HasIt(q, runs[q].hist[i])'
    BY DEF HoldersHold, IsGrant, GivenUp, HasIt
  <2>1. WasThere(q, i) /\ runs'[q].prog = runs[q].prog /\ IsGrant(runs[q].hist[i])
    BY <1>3 DEF IsGrant, WasThere
  <2>2. CASE GivenUp(runs[q].hist, runs[q].prog.ttl, i, now)
    BY <1>1, <1>2, <2>1, <2>2, GaveUpStays DEF WasThere
  <2>3. CASE HasIt(q, runs[q].hist[i])
    BY <2>1, <2>3 DEF HasIt, Idles, WasThere
  <2> QED
    BY <2>1, <2>2, <2>3 DEF HoldersHold, WasThere
<1>6. NobodySharesALock'
  <2> SUFFICES ASSUME NEW r \in RunIds, NEW q \in RunIds, NEW i \in DOMAIN runs'[r].hist,
                      NEW j \in DOMAIN runs'[q].hist,
                      IsGrant(runs'[r].hist[i]), IsGrant(runs'[q].hist[j])
               PROVE  Apart(r, i, q, j)'
    BY DEF NobodySharesALock, Apart, IsGrant
  <2> QED
    BY <1>1, <1>3, ApartStays DEF IsGrant
<1> QED
  BY <1>4, <1>5, <1>6

LEMMA AnswersFollow ==
    ASSUME NEW r \in RunIds, NEW op, NEW key, NEW res, Answers(r, op, key, res), NEW q \in RunIds
    PROVE  Follows(q) /\ runs'[q].prog = runs[q].prog
BY DEF Answers, Follows, Grew

\* The dates after an answer.
LEMMA CalendarStep ==
    ASSUME Table, Calendar, NEW r \in RunIds, NEW op, NEW key, NEW res,
           Answers(r, op, key, res),
           op = "lock" => key \in LockKeys /\ runs[r].prog.ttl \in Nat,
           locks' = [k \in LockKeys |-> locks'[k]],
           \A k \in LockKeys : {"by", "until"} \subseteq DOMAIN locks'[k]
    PROVE  Calendar'
<1>1. PICK e : /\ runs'[r].hist = Append(runs[r].hist, e)
               /\ e.op = op /\ e.tag = key /\ e.res = res /\ e.at = now
  BY DEF Answers
<1>2. now' = now /\ now \in Nat
  BY DEF Answers, Calendar
<1>3. ASSUME NEW q \in RunIds, NEW i \in DOMAIN runs'[q].hist
      PROVE  /\ IsDated(runs'[q].hist[i], now')
             /\ IsGrant(runs'[q].hist[i]) => runs'[q].prog.ttl \in Nat
  <2>1. CASE WasThere(q, i)
    BY <1>2, <2>1, AnswersFollow DEF WasThere, Calendar
  <2>2. CASE q = r /\ runs'[q].hist[i] = e
    BY <1>1, <1>2, <2>2, AnswersFollow DEF IsDated, IsGrant
  <2>3. WasThere(q, i) \/ (q = r /\ runs'[q].hist[i] = e)
    <3>1. CASE q = r
      BY <1>1, <3>1, EventsAreOldOrLast
    <3>2. CASE q # r
      BY <3>2 DEF Answers, WasThere
    <3> QED
      BY <3>1, <3>2
  <2> QED
    BY <2>1, <2>2, <2>3
<1> QED
  BY <1>2, <1>3 DEF Calendar

LEMMA FreeLocks ==
    ASSUME LInv, NEW r \in RunIds, Frees(r)
    PROVE  Calendar' /\ HoldersHold' /\ NobodySharesALock'
<1> USE DEF LInv
<1> DEFINE key == Asks(r).key
<1>1. /\ Answers(r, "unlock", key, "ok")
      /\ locks' = IF locks[key].by = r THEN [locks EXCEPT ![key].by = 0] ELSE locks
  BY DEF Frees
<1> HIDE DEF key
<1>2. PICK e : /\ runs'[r].hist = Append(runs[r].hist, e)
               /\ e.op = "unlock" /\ e.tag = key /\ e.at = now
  BY <1>1 DEF Answers
<1>3. now' = now /\ now \in Nat
  BY <1>1 DEF Answers, Calendar
<1>4. \A q \in RunIds : Follows(q) /\ runs'[q].prog = runs[q].prog
  BY <1>1, AnswersFollow
<1>5. Calendar'
  <2>1. /\ locks' = [k \in LockKeys |-> locks'[k]]
        /\ \A k \in LockKeys : {"by", "until"} \subseteq DOMAIN locks'[k]
    BY <1>1 DEF Calendar
  <2> QED
    BY <1>1, <2>1, CalendarStep
<1>6. ASSUME NEW q \in RunIds, NEW i \in DOMAIN runs'[q].hist, IsGrant(runs'[q].hist[i])
      PROVE  WasThere(q, i) /\ IsGrant(runs[q].hist[i])
  <2>1. CASE q = r
    BY <1>2, <1>6, <2>1, EventsAreOldOrLast DEF IsGrant, WasThere
  <2>2. CASE q # r
    BY <1>1, <1>6, <2>2 DEF Answers, WasThere
  <2> QED
    BY <2>1, <2>2
<1>7. HoldersHold'
  <2> SUFFICES ASSUME NEW q \in RunIds, NEW i \in DOMAIN runs'[q].hist, IsGrant(runs'[q].hist[i])
               PROVE  GivenUp(runs'[q].hist, runs'[q].prog.ttl, i, now') \/ HasIt(q, runs[q].hist[i])'
    BY <1>6 DEF HoldersHold, IsGrant, GivenUp, HasIt, WasThere
  <2>1. WasThere(q, i) /\ IsGrant(runs[q].hist[i])
    BY <1>6
  <2>2. CASE GivenUp(runs[q].hist, runs[q].prog.ttl, i, now)
    BY <1>3, <1>4, <2>1, <2>2, GaveUpStays DEF WasThere
  <2>3. CASE HasIt(q, runs[q].hist[i]) /\ ~(q = r /\ runs[q].hist[i].tag = key)
    <3>1. runs[q].hist[i].tag \in LockKeys
      BY <2>1 DEF WasThere, Calendar, IsDated
    <3>2. locks'[runs[q].hist[i].tag] = locks[runs[q].hist[i].tag]
      BY <1>1, <2>3, <3>1 DEF HasIt, Calendar
    <3> QED
      BY <1>4, <2>1, <2>3, <3>2 DEF HasIt, WasThere
  <2>4. CASE q = r /\ runs[q].hist[i].tag = key
    <3>1. /\ Len(runs[r].hist) \in Nat /\ DOMAIN runs[r].hist = 1..Len(runs[r].hist)
          /\ DOMAIN runs'[r].hist = 1..Len(runs[r].hist) + 1
          /\ runs'[r].hist[Len(runs[r].hist) + 1] = e
      BY <1>2, Grows DEF Table, IsRow
    <3>2. PICK j : j = Len(runs[r].hist) + 1
      OBVIOUS
    <3>3. j \in DOMAIN runs'[r].hist /\ j > i /\ runs'[r].hist[j] = e
      BY <2>1, <2>4, <3>1, <3>2 DEF WasThere
    <3>4. e.at <= now'
      BY <1>2, <1>3
    <3> QED
      BY <1>2, <2>1, <2>4, <3>3, <3>4 DEF GivenUp, WasThere
  <2> QED
    BY <2>1, <2>2, <2>3, <2>4 DEF HoldersHold, WasThere
<1>8. NobodySharesALock'
  <2> SUFFICES ASSUME NEW p \in RunIds, NEW q \in RunIds, NEW i \in DOMAIN runs'[p].hist,
                      NEW j \in DOMAIN runs'[q].hist,
                      IsGrant(runs'[p].hist[i]), IsGrant(runs'[q].hist[j])
               PROVE  Apart(p, i, q, j)'
    BY DEF NobodySharesALock, Apart, IsGrant
  <2> QED
    BY <1>4, <1>6, ApartStays
<1> QED
  BY <1>5, <1>7, <1>8

LEMMA TakeLocks ==
    ASSUME LInv, LocksByItsTtl, NEW r \in RunIds, Takes(r)
    PROVE  Calendar' /\ HoldersHold' /\ NobodySharesALock'
<1> USE DEF LInv
<1> DEFINE key == Asks(r).key
           ttl == runs[r].prog.ttl
           res == IF Taken(key) THEN "taken" ELSE "ok"
<1>1. Answers(r, "lock", key, res)
  BY DEF Takes
<1>2. key \in LockKeys /\ Asks(r).ttl = ttl /\ ttl \in Nat
  <2>1. Live(r)
    BY <1>1 DEF Answers, Live, Terminal
  <2> QED
    BY <2>1 DEF LocksByItsTtl, Takes
<1>3. locks' = IF Taken(key) THEN locks
               ELSE [locks EXCEPT ![key] = [by |-> r, until |-> now + ttl]]
  BY <1>2 DEF Takes
<1>4. now' = now /\ now \in Nat
  BY <1>1 DEF Answers, Calendar
<1>5. \A q \in RunIds : Follows(q) /\ runs'[q].prog = runs[q].prog
  BY <1>1, AnswersFollow
<1> HIDE DEF key, res
<1>6. Calendar'
  <2>1. /\ locks' = [k \in LockKeys |-> locks'[k]]
        /\ \A k \in LockKeys : {"by", "until"} \subseteq DOMAIN locks'[k]
    BY <1>3 DEF Calendar
  <2> QED
    BY <1>1, <1>2, <2>1, CalendarStep
<1>7. PICK e : /\ runs'[r].hist = Append(runs[r].hist, e)
               /\ e.op = "lock" /\ e.tag = key /\ e.res = res /\ e.at = now
  BY <1>1 DEF Answers
<1>8. ASSUME NEW q \in RunIds, NEW i \in DOMAIN runs'[q].hist
      PROVE  \/ WasThere(q, i)
             \/ q = r /\ i = Len(runs[r].hist) + 1 /\ runs'[q].hist[i] = e
  <2>1. CASE q = r
    BY <1>7, <2>1, EventsAreOldOrLast
  <2>2. CASE q # r
    BY <1>1, <2>2 DEF Answers, WasThere
  <2> QED
    BY <2>1, <2>2
\* What is given up under the new lock: every grant of it, if it was not taken.
<1>9. ASSUME ~Taken(key), NEW q \in RunIds, NEW i, WasThere(q, i), IsGrant(runs[q].hist[i]),
             runs[q].hist[i].tag = key
      PROVE  GivenUp(runs'[q].hist, runs'[q].prog.ttl, i, now')
  <2>1. GivenUp(runs[q].hist, runs[q].prog.ttl, i, now)
    <3>1. CASE HasIt(q, runs[q].hist[i])
      <4>1. runs[q].hist[i].at \in Nat /\ runs[q].prog.ttl \in Nat
        BY <1>9 DEF Calendar, IsDated, IsGrant, WasThere
      <4>2. locks[key].by = q /\ locks[key].until = runs[q].hist[i].at + runs[q].prog.ttl
        BY <1>9, <3>1 DEF HasIt
      <4>3. ~(now < runs[q].hist[i].at + runs[q].prog.ttl)
        BY <1>9, <4>2, RunIdsAreNumbers DEF Taken, Held
      <4> QED
        BY <1>4, <4>1, <4>3 DEF GivenUp
    <3> QED
      BY <1>9, <3>1 DEF HoldersHold, WasThere
  <2> QED
    BY <1>4, <1>5, <1>9, <2>1, GaveUpStays DEF WasThere
<1>10. HoldersHold'
  <2> SUFFICES ASSUME NEW q \in RunIds, NEW i \in DOMAIN runs'[q].hist, IsGrant(runs'[q].hist[i])
               PROVE  \/ GivenUp(runs'[q].hist, runs'[q].prog.ttl, i, now')
                      \/ /\ locks'[runs'[q].hist[i].tag].by = q
                         /\ locks'[runs'[q].hist[i].tag].until
                                = runs'[q].hist[i].at + runs'[q].prog.ttl
    BY DEF HoldersHold, IsGrant, GivenUp, HasIt
  <2>1. CASE WasThere(q, i)
    <3>1. IsGrant(runs[q].hist[i]) /\ runs[q].hist[i].tag \in LockKeys
      BY <2>1 DEF WasThere, Calendar, IsDated, IsGrant
    <3>2. CASE GivenUp(runs[q].hist, runs[q].prog.ttl, i, now)
      BY <1>4, <1>5, <2>1, <3>1, <3>2, GaveUpStays DEF WasThere
    <3>3. CASE ~Taken(key) /\ runs[q].hist[i].tag = key
      BY <1>9, <2>1, <3>1, <3>3
    <3>4. CASE HasIt(q, runs[q].hist[i]) /\ (Taken(key) \/ runs[q].hist[i].tag # key)
      <4>1. locks'[runs[q].hist[i].tag] = locks[runs[q].hist[i].tag]
        BY <1>3, <3>1, <3>4 DEF Calendar
      <4> QED
        BY <1>5, <2>1, <3>4, <4>1 DEF HasIt, WasThere
    <3> QED
      BY <2>1, <3>1, <3>2, <3>3, <3>4 DEF HoldersHold, WasThere
  <2>2. CASE q = r /\ runs'[q].hist[i] = e
    <3>1. ~Taken(key)
      BY <1>7, <2>2 DEF IsGrant, res
    <3>2. locks'[key].by = r /\ locks'[key].until = now + ttl
      BY <1>2, <1>3, <3>1 DEF Calendar
    <3> QED
      BY <1>5, <1>7, <2>2, <3>2
  <2> QED
    BY <1>8, <2>1, <2>2
<1>11. NobodySharesALock'
  <2> SUFFICES ASSUME NEW p \in RunIds, NEW q \in RunIds, NEW i \in DOMAIN runs'[p].hist,
                      NEW j \in DOMAIN runs'[q].hist,
                      IsGrant(runs'[p].hist[i]), IsGrant(runs'[q].hist[j]),
                      <<q, j>> # <<p, i>>, runs'[q].hist[j].tag = runs'[p].hist[i].tag
               PROVE  \/ GivenUp(runs'[p].hist, runs'[p].prog.ttl, i, runs'[q].hist[j].at)
                      \/ GivenUp(runs'[q].hist, runs'[q].prog.ttl, j, runs'[p].hist[i].at)
    BY DEF NobodySharesALock, Apart, IsGrant, GivenUp
  <2>1. CASE WasThere(p, i) /\ WasThere(q, j)
    <3>1. Apart(p, i, q, j)'
      BY <1>5, <2>1, ApartStays
    <3> QED
      BY <3>1 DEF Apart, IsGrant, GivenUp
  <2>2. ASSUME runs'[q].hist[j] = e, q = r, WasThere(p, i)
        PROVE  GivenUp(runs'[p].hist, runs'[p].prog.ttl, i, runs'[q].hist[j].at)
    BY <1>4, <1>7, <1>9, <2>2 DEF IsGrant, WasThere, res
  <2>3. ASSUME runs'[p].hist[i] = e, p = r, WasThere(q, j)
        PROVE  GivenUp(runs'[q].hist, runs'[q].prog.ttl, j, runs'[p].hist[i].at)
    BY <1>4, <1>7, <1>9, <2>3 DEF IsGrant, WasThere, res
  <2> QED
    BY <1>8, <2>1, <2>2, <2>3
<1> QED
  BY <1>6, <1>10, <1>11

LEMMA InitLInv == MailInit => LInv
<1> SUFFICES ASSUME MailInit PROVE LInv
  OBVIOUS
<1>1. Table /\ Boxes
  BY InitMInv DEF MInv
<1>2. \A r \in RunIds : runs[r].hist = << >>
  BY DEF MailInit, Init, Fresh, Absent
<1>3. DOMAIN << >> = {}
  <2>1. << >> \in Seq(Range(<< >>)) /\ Len(<< >>) = 0
    BY EmptySeq
  <2> QED
    BY <2>1, LenProperties
<1>4. Calendar
  <2>1. now = 0 /\ locks = [k \in LockKeys |-> [by |-> 0, until |-> 0]]
    BY DEF MailInit, Init
  <2>2. locks = [k \in LockKeys |-> locks[k]]
        /\ \A k \in LockKeys : {"by", "until"} \subseteq DOMAIN locks[k]
    BY <2>1
  <2> QED
    BY <1>2, <1>3, <2>1, <2>2 DEF Calendar
<1> QED
  BY <1>1, <1>2, <1>3, <1>4 DEF LInv, HoldersHold, NobodySharesALock

LEMMA LInvStep == LInv /\ LocksByItsTtl /\ [MailNext]_allVars => LInv'
<1> SUFFICES ASSUME LInv, LocksByItsTtl, [MailNext]_allVars PROVE LInv'
  OBVIOUS
<1>1. Table' /\ Boxes'
  BY StepKind, BoxesStep DEF LInv, Result
<1>2. Idles \/ \E r \in RunIds : Takes(r) \/ Frees(r)
  BY StepLocks DEF LInv
<1>3. Calendar' /\ HoldersHold' /\ NobodySharesALock'
  BY <1>2, IdleLocks, TakeLocks, FreeLocks
<1> QED
  BY <1>1, <1>3 DEF LInv

LEMMA LInvIsEnough == LInv => LocksPassByReleaseOrByTime
<1> SUFFICES ASSUME LInv, NEW r \in RunIds, NEW i \in Grants(r)
             PROVE  /\ GaveUp(r, i, now) \/ locks[Events(r)[i].tag].by = r
                    /\ \A q \in RunIds : \A j \in Grants(q) :
                          <<q, j>> # <<r, i>> /\ Events(q)[j].tag = Events(r)[i].tag
                          => \/ GaveUp(r, i, Events(q)[j].at)
                             \/ GaveUp(q, j, Events(r)[i].at)
  BY DEF LocksPassByReleaseOrByTime
<1> USE DEF Events, Grants, GaveUp, GivenUp, IsGrant
<1>1. GaveUp(r, i, now) \/ locks[Events(r)[i].tag].by = r
  BY DEF LInv, HoldersHold, HasIt
<1>2. ASSUME NEW q \in RunIds, NEW j \in Grants(q), <<q, j>> # <<r, i>>,
             Events(q)[j].tag = Events(r)[i].tag
      PROVE  GaveUp(r, i, Events(q)[j].at) \/ GaveUp(q, j, Events(r)[i].at)
  BY <1>2 DEF LInv, NobodySharesALock, Apart
<1> QED
  BY <1>1, <1>2

LEMMA LockersPassOn == MailSpec /\ []LocksByItsTtl => []LocksPassByReleaseOrByTime
BY InitLInv, LInvStep, LInvIsEnough, PTL DEF MailSpec
-----------------------------------------------------------------------------
(* A budget for several waits: of the guests that keep one (IsBudgeted) no *)
(* wait is begun when it is spent and none times out before.  The argument *)
(* is that the deadline of an open wait is what was left when it began,    *)
(* and that it began no earlier than the answer before it was recorded.    *)
(* Updates are answered during a wait and count for nothing, so first: the *)
(* history without them.                                                   *)

\* The places of a history that are not updates, and how many come up to i.
Own(h) == {i \in DOMAIN h : h[i].op # "update"}
UpTo(S, i) == {j \in S : j <= i}

LEMMA WithoutUpdatesIs ==
    ASSUME NEW h
    PROVE  WithoutUpdates(h) =
             [n \in 1..Cardinality(Own(h)) |->
                h[CHOOSE i \in Own(h) : Cardinality(UpTo(Own(h), i)) = n]]
BY DEF WithoutUpdates, Own, UpTo

(* Every place up to the number of them is taken by one.                   *)
LEMMA PlacesAreTaken ==
    ASSUME NEW N \in Nat, NEW S \in SUBSET (1..N)
    PROVE  /\ IsFiniteSet(S) /\ Cardinality(S) \in Nat
           /\ \A i \in S : Cardinality(UpTo(S, i)) \in 1..Cardinality(S)
           /\ \A n \in 1..Cardinality(S) : \E i \in S : Cardinality(UpTo(S, i)) = n
<1> DEFINE K == Cardinality(S)
           f == [i \in S |-> Cardinality(UpTo(S, i))]
<1>1. IsFiniteSet(S) /\ K \in Nat
  <2>1. IsFiniteSet(1..N)
    BY FS_Interval
  <2> QED
    BY <2>1, FS_Subset, FS_CardinalityType
<1>2. ASSUME NEW i \in S
      PROVE  IsFiniteSet(UpTo(S, i)) /\ Cardinality(UpTo(S, i)) \in 1..K
  <2>1. UpTo(S, i) \in SUBSET S /\ i \in UpTo(S, i)
    BY DEF UpTo
  <2>2. IsFiniteSet(UpTo(S, i)) /\ Cardinality(UpTo(S, i)) <= K
    BY <1>1, <2>1, FS_Subset
  <2>3. Cardinality(UpTo(S, i)) \in Nat /\ Cardinality(UpTo(S, i)) # 0
    BY <2>1, <2>2, FS_CardinalityType, FS_EmptySet
  <2> QED
    BY <1>1, <2>2, <2>3
<1>3. ASSUME NEW i \in S, NEW j \in S, i < j
      PROVE  Cardinality(UpTo(S, i)) # Cardinality(UpTo(S, j))
  <2>1. UpTo(S, i) \in SUBSET UpTo(S, j) /\ j \in UpTo(S, j) /\ j \notin UpTo(S, i)
    <3>1. S \subseteq Int
      OBVIOUS
    <3>2. (\A k \in S : k <= i => k <= j) /\ ~(j <= i) /\ j <= j
      BY <1>3, <3>1
    <3> QED
      BY <3>2 DEF UpTo
  <2>3. Cardinality(UpTo(S, j)) = Cardinality(UpTo(S, i)) => UpTo(S, j) = UpTo(S, i)
    BY <1>2, <2>1, FS_Subset
  <2> QED
    BY <2>1, <2>3
<1>4. f \in Injection(S, 1..K)
  <2>1. f \in [S -> 1..K]
    BY <1>2
  <2>2. \A i, j \in S : f[i] = f[j] => i = j
    BY <1>3
  <2> HIDE DEF f
  <2> QED
    BY <2>1, <2>2 DEF Injection, IsInjective
<1>5. f \in Surjection(S, 1..K)
  <2>1. IsFiniteSet(1..K) /\ Cardinality(1..K) = K
    BY <1>1, FS_Interval
  <2> HIDE DEF f
  <2> QED
    BY <1>4, <2>1, FS_Injection
<1>6. \A n \in 1..K : \E i \in S : f[i] = n
  <2> HIDE DEF f
  <2> QED
    BY <1>5 DEF Surjection
<1> QED
  BY <1>1, <1>2, <1>6

(* An update is not in it, and what comes next is its next.                *)
LEMMA UpdatesAreLeftOut ==
    ASSUME NEW h, IsSeq(h), NEW e
    PROVE  LET b == WithoutUpdates(h)
               g == WithoutUpdates(Append(h, e))
           IN /\ IsSeq(b)
              /\ g = IF e.op = "update" THEN b ELSE Append(b, e)
<1> DEFINE b == WithoutUpdates(h)
           g == WithoutUpdates(Append(h, e))
           S == Own(h)
           K == Cardinality(S)
           N == Len(h)
           a == Append(h, e)
           Nth(T, n) == CHOOSE i \in T : Cardinality(UpTo(T, i)) = n
<1>1. /\ N \in Nat /\ DOMAIN h = 1..N /\ DOMAIN a = 1..N + 1 /\ a[N + 1] = e
      /\ \A i \in 1..N : a[i] = h[i]
  BY Grows
<1>2. S \in SUBSET (1..N) /\ \A i \in S : a[i] = h[i]
  BY <1>1 DEF Own
<1>3. Own(a) = IF e.op = "update" THEN S ELSE S \cup {N + 1}
  <2> HIDE DEF a
  <2> QED
    BY <1>1 DEF Own
<1>4. /\ IsFiniteSet(S) /\ K \in Nat
      /\ \A i \in S : Cardinality(UpTo(S, i)) \in 1..K
      /\ \A n \in 1..K : \E i \in S : Cardinality(UpTo(S, i)) = n
  BY <1>1, <1>2, PlacesAreTaken
<1>5. \A n \in 1..K : Nth(S, n) \in S
  BY <1>4
<1>6. b = [n \in 1..K |-> h[Nth(S, n)]]
  BY WithoutUpdatesIs
<1>7. g = [n \in 1..Cardinality(Own(a)) |-> a[Nth(Own(a), n)]]
  BY WithoutUpdatesIs
<1> HIDE DEF b, g, a, Nth, S, K
<1>8. b \in Seq(Range(b)) /\ Len(b) = K /\ DOMAIN b = 1..K
  <2>1. \A n \in 1..K : b[n] \in Range(b)
    BY <1>6 DEF Range
  <2> QED
    BY <1>4, <1>6, <2>1
<1>9. CASE e.op = "update"
  <2>1. \A n \in 1..K : a[Nth(S, n)] = h[Nth(S, n)]
    BY <1>2, <1>5
  <2> QED
    BY <1>3, <1>6, <1>7, <1>8, <1>9, <2>1 DEF b, g, K, a, IsSeq
<1>10. CASE e.op # "update"
  <2> DEFINE T == S \cup {N + 1}
  <2>1. N + 1 \notin S /\ Cardinality(T) = K + 1
    BY <1>1, <1>2, <1>4, FS_AddElement DEF K
  <2>2. \A i \in S : UpTo(T, i) = UpTo(S, i)
    BY <1>1, <1>2 DEF UpTo
  <2>3. UpTo(T, N + 1) = T
    <3>1. \A i \in T : i <= N + 1
      BY <1>1, <1>2
    <3> QED
      BY <3>1 DEF UpTo
  <2>4. ASSUME NEW n \in 1..K PROVE a[Nth(T, n)] = b[n]
    <3>1. Cardinality(UpTo(T, N + 1)) # n
      <4> HIDE DEF T
      <4> QED
        BY <1>4, <2>1, <2>3
    <3>2. \A i : (i \in T /\ Cardinality(UpTo(T, i)) = n) <=> (i \in S /\ Cardinality(UpTo(S, i)) = n)
      BY <2>2, <3>1
    <3>3. Nth(T, n) = Nth(S, n)
      BY <3>2 DEF Nth
    <3> QED
      BY <1>2, <1>5, <1>6, <3>3
  <2>5. a[Nth(T, K + 1)] = e
    <3>1. \A i \in S : Cardinality(UpTo(T, i)) # K + 1
      <4> HIDE DEF T
      <4> QED
        BY <1>4, <2>2
    <3>2. Nth(T, K + 1) = N + 1
      BY <2>1, <2>3, <3>1 DEF Nth
    <3> QED
      BY <1>1, <3>2
  <2>6. g = [n \in 1..K + 1 |-> a[Nth(T, n)]]
    BY <1>3, <1>7, <1>10, <2>1
  <2>7. Append(b, e) = [n \in 1..K + 1 |-> IF n = K + 1 THEN e ELSE b[n]]
    <3>1. IsSeq(b)
      BY <1>8 DEF IsSeq
    <3> PICK t : t = Append(b, e)
      OBVIOUS
    <3>2. /\ IsSeq(t) /\ Len(t) = K + 1 /\ t[K + 1] = e
          /\ \A n \in 1..K : t[n] = b[n]
      BY <1>8, <3>1, Grows
    <3>3. t = [n \in 1..K + 1 |-> t[n]]
      BY <3>2, LenProperties DEF IsSeq
    <3>4. \A n \in 1..K + 1 : t[n] = IF n = K + 1 THEN e ELSE b[n]
      BY <1>4, <3>2
    <3> QED
      BY <3>3, <3>4
  <2>8. \A n \in 1..K + 1 : a[Nth(T, n)] = IF n = K + 1 THEN e ELSE b[n]
    <3> HIDE DEF T
    <3> QED
      BY <1>4, <2>4, <2>5
  <2>9. g = Append(b, e)
    <3> HIDE DEF T
    <3> QED
      BY <2>6, <2>7, <2>8
  <2> QED
    BY <1>8, <1>10, <2>9 DEF IsSeq, b, g, a
<1> QED
  BY <1>9, <1>10
-----------------------------------------------------------------------------
(* What is left of it, and what was kept of it so far.                     *)

Budgeted(p) ==
    /\ p.w \in {"awaitsignals", "signalcounter", "promisechain"}
    /\ p.budget \in Nat
    /\ p.w = "promisechain" => p.count \in Nat \ {0}

Opening(p)    == IF p.w = "promisechain" THEN p.count + 1 ELSE 1
StartOf(p, b) == IF p.w = "promisechain" THEN b[p.count].at ELSE b[1].since

Frugal(p, b) ==
    Len(b) >= Opening(p) =>
        /\ \A i \in Opening(p) + 1 .. Len(b) : b[i - 1].at - StartOf(p, b) < p.budget
        /\ TimedOut(b) => Last(b).at >= After(StartOf(p, b), p.budget)

Clocked(b, t) ==
    \A i \in 1..Len(b) : b[i].at \in Nat /\ b[i].at <= t /\ b[i].since \in Nat

TimedOps == {"recv", "awaitpromise", "create"}

LEMMA LeastOfTwo ==
    ASSUME NEW a \in Int, NEW b \in Int PROVE Min({a, b}) = IF a <= b THEN a ELSE b
<1> DEFINE x == IF a <= b THEN a ELSE b
<1>1. x \in {a, b} /\ \A y \in {a, b} : x <= y
  OBVIOUS
<1>2. \A z \in {a, b} : (\A y \in {a, b} : z <= y) => z = x
  OBVIOUS
<1> QED
  BY <1>1, <1>2 DEF Min

LEMMA AfterGrows ==
    ASSUME Table, NEW s \in Int, NEW d \in Int, NEW t \in Int, NEW e \in Int, s + d <= t + e
    PROVE  After(s, d) \in Int /\ After(t, e) \in Int /\ After(s, d) <= After(t, e)
<1>1. scenario.horizon \in Int
  BY HorizonsAreTimes DEF Table
<1> QED
  BY <1>1, LeastOfTwo DEF After

\* What a guest with a budget asks for: to wait for what is left of it, or for its next promise.
LEMMA AsksWithinBudget ==
    ASSUME NEW p, NEW b, IsSeq(b), Budgeted(p)
    PROVE  LET c == Waiting(p, b)
           IN /\ c.op \in TimedOps \cup {"return", "fail"}
              /\ c.op = "create" => Len(b) + 1 < Opening(p)
              /\ Waits(c) =>
                    /\ Len(b) + 1 >= Opening(p)
                    /\ ~(c.timeout <= 0)
                    /\ b = <<>> => c.timeout = p.budget /\ p.w # "promisechain"
                    /\ b # <<>> => c.timeout = p.budget - (Last(b).at - StartOf(p, b))
<1> PICK c : c = Waiting(p, b)
  OBVIOUS
<1> DEFINE left == Left(p.budget, b)
<1>0. Len(b) \in Nat
  BY LenProperties DEF IsSeq
<1>1. ASSUME p.w \in {"awaitsignals", "signalcounter"},
             \/ c.op = "return"
             \/ c.op = "recv" /\ c.timeout = left /\ ~(left <= 0)
      PROVE  /\ c.op \in {"recv", "return"}
             /\ Waits(c) =>
                    /\ Len(b) + 1 >= Opening(p)
                    /\ ~(c.timeout <= 0)
                    /\ b = <<>> => c.timeout = p.budget /\ p.w # "promisechain"
                    /\ b # <<>> => c.timeout = p.budget - (Last(b).at - StartOf(p, b))
  BY <1>0, <1>1 DEF Waits, Opening, StartOf, Left
<1>2. CASE p.w = "awaitsignals"
  <2>1. c = AwaitEveryName(p, b, left)
    BY <1>2 DEF Waiting, AwaitEverySignal
  <2> HIDE DEF left
  <2>2. \/ c.op = "return"
        \/ c.op = "recv" /\ c.timeout = left /\ ~(left <= 0)
    BY <2>1 DEF AwaitEveryName, Return, AwaitSignals, Receive
  <2> QED
    BY <1>1, <1>2, <2>2 DEF left, TimedOps
<1>3. CASE p.w = "signalcounter"
  <2>1. c = SignalCounter(p, b)
    BY <1>3 DEF Waiting
  <2> HIDE DEF left
  <2>2. \/ c.op = "return"
        \/ c.op = "recv" /\ c.timeout = left /\ ~(left <= 0)
    BY <2>1 DEF SignalCounter, Return, AwaitSignals, Receive, left
  <2> QED
    BY <1>1, <1>3, <2>2 DEF left, TimedOps
<1>4. CASE p.w = "promisechain"
  <2> DEFINE rest == p.budget - (Last(b).at - b[p.count].at)
  <2>1. c = PromiseChain(p, b)
    BY <1>4 DEF Waiting
  <2>2. p.count \in Nat \ {0}
    BY <1>4 DEF Budgeted
  <2>3. CASE Len(b) < p.count
    <3>1. c.op = "create"
      BY <2>1, <2>3 DEF PromiseChain, CreatePromise
    <3> QED
      BY <1>0, <1>4, <2>2, <2>3, <3>1 DEF Opening, Waits, TimedOps
  <2>4. CASE ~(Len(b) < p.count)
    <3>1. \/ c.op \in {"return", "fail"}
          \/ c.op = "awaitpromise" /\ c.timeout = rest /\ ~(rest <= 0)
      BY <2>1, <2>4 DEF PromiseChain, Return, Wrapped, AwaitPromise
    <3>2. b # <<>> /\ Len(b) + 1 >= Opening(p)
      <4>1. Len(b) # 0
        BY <1>0, <2>2, <2>4
      <4> QED
        BY <1>0, <1>4, <2>2, <2>4, <4>1 DEF Opening
    <3> QED
      BY <1>4, <3>1, <3>2 DEF Waits, StartOf, TimedOps
  <2> QED
    BY <2>3, <2>4
<1> QED
  BY <1>2, <1>3, <1>4 DEF Budgeted

\* A budget kept so far is kept by what such a guest hears next.
LEMMA FrugalGrows ==
    ASSUME Table, NEW p, NEW b, IsSeq(b), Budgeted(p), now \in Nat, Clocked(b, now), Frugal(p, b),
           NEW c, c = Waiting(p, b), NEW e, e.op = c.op, e.op \in TimedOps,
           e.at = now, e.since \in Nat,
           e.res = "timedout" =>
               /\ Waits(c) /\ now >= After(e.since, c.timeout)
               /\ b # <<>> => Last(b).at <= e.since
    PROVE  Clocked(Append(b, e), now) /\ Frugal(p, Append(b, e))
<1> PICK g : g = Append(b, e)
  OBVIOUS
<1>1. /\ Len(b) \in Nat /\ Len(g) = Len(b) + 1
      /\ \A i \in 1..Len(b) : g[i] = b[i]
      /\ g[Len(b) + 1] = e
  BY Grows
<1>2. Clocked(g, now)
  BY <1>1 DEF Clocked
<1>3. Last(g) = e /\ (TimedOut(g) => e.res = "timedout")
  BY <1>1 DEF Last, TimedOut
<1>4. Frugal(p, g)
  <2> SUFFICES ASSUME Len(b) + 1 >= Opening(p)
               PROVE  /\ \A i \in Opening(p) + 1 .. Len(b) + 1 :
                            g[i - 1].at - StartOf(p, g) < p.budget
                      /\ TimedOut(g) => e.at >= After(StartOf(p, g), p.budget)
    BY <1>1, <1>3 DEF Frugal
  <2>1. Opening(p) \in Nat \ {0} /\ p.budget \in Nat
    BY DEF Budgeted, Opening
  <2>2. Waits(c)
    BY <1>1, <2>1, AsksWithinBudget DEF Waits, TimedOps
  <2>3. CASE b = <<>>
    <3>1. Len(b) = 0 /\ Opening(p) = 1 /\ StartOf(p, g) = e.since /\ c.timeout = p.budget
      BY <1>1, <2>2, <2>3, AsksWithinBudget DEF Opening, StartOf
    <3> QED
      BY <1>3, <3>1
  <2>4. CASE b # <<>>
    <3> PICK start : start = StartOf(p, b)
      OBVIOUS
    <3>1. Len(b) \in 1..Len(b) /\ Last(b) = b[Len(b)]
      BY <1>1, <2>4, EmptySeq DEF IsSeq, Last
    <3>2. start \in Int /\ StartOf(p, g) = start
      BY <1>1, <2>1, <2>4, <3>1 DEF StartOf, Opening, Clocked, Budgeted
    <3>3. Last(b).at \in Int
      BY <3>1 DEF Clocked
    <3>4. c.timeout = p.budget - (Last(b).at - start) /\ ~(c.timeout <= 0)
      BY <2>2, <2>4, AsksWithinBudget
    <3>5. ASSUME NEW i \in Opening(p) + 1 .. Len(b) + 1 PROVE g[i - 1].at - start < p.budget
      <4>1. CASE i = Len(b) + 1
        BY <1>1, <2>1, <3>1, <3>2, <3>3, <3>4, <4>1
      <4>2. CASE i # Len(b) + 1
        <5>1. i \in Opening(p) + 1 .. Len(b) /\ i - 1 \in 1..Len(b)
          BY <1>1, <2>1, <4>2
        <5> QED
          BY <1>1, <2>1, <5>1 DEF Frugal
      <4> QED
        BY <4>1, <4>2
    <3>6. ASSUME TimedOut(g) PROVE e.at >= After(start, p.budget)
      <4>1. now >= After(e.since, c.timeout) /\ Last(b).at <= e.since
        BY <1>3, <2>4, <3>6
      <4>2. c.timeout \in Int /\ start + p.budget <= e.since + c.timeout
        BY <2>1, <3>2, <3>3, <3>4, <4>1
      <4>3. After(start, p.budget) \in Int /\ After(e.since, c.timeout) \in Int
            /\ After(start, p.budget) <= After(e.since, c.timeout)
        <5> PICK t, d : t = e.since /\ d = c.timeout
          OBVIOUS
        <5>1. start \in Int /\ p.budget \in Int /\ t \in Int /\ d \in Int
              /\ start + p.budget <= t + d
          BY <2>1, <3>2, <4>2
        <5> HIDE DEF Table
        <5> QED
          BY <5>1, AfterGrows
      <4> QED
        BY <4>1, <4>3
    <3> QED
      BY <3>2, <3>5, <3>6
  <2> QED
    BY <2>3, <2>4
<1> QED
  BY <1>2, <1>4
-----------------------------------------------------------------------------
(* What a step does to the open wait and to the answers of a run.          *)

\* Its wait stays open as it is, or is closed.
Rests(q) ==
    /\ Same(q)
    /\ runs'[q].until = 0 \/ (runs'[q].until = runs[q].until /\ runs'[q].since = runs[q].since)

Parks(q) ==
    /\ Same(q) /\ Waits(Asks(q))
    /\ runs'[q].since = Waited(q) /\ runs'[q].until = Deadline(q, Asks(q))

Hears(q) ==
    /\ runs'[q].prog = runs[q].prog
    /\ Asks(q).op \notin {"return", "fail"}
    /\ \E e : /\ runs'[q].hist = Append(runs[q].hist, e)
              /\ e.op = Asks(q).op
              /\ e.op \in TimedOps =>
                    /\ runs'[q].until = 0
                    /\ e.at = now /\ e.since = Waited(q)
                    /\ e.res = "timedout" => Waits(Asks(q)) /\ TimeIsUp(q)

\* It handles an update while it waits.
Handles(q) ==
    /\ runs'[q].prog = runs[q].prog
    /\ runs'[q].until = runs[q].until /\ runs'[q].since = runs[q].since
    /\ \E e : runs'[q].hist = Append(runs[q].hist, e) /\ e.op = "update"

Begins(q) == runs'[q].hist = <<>> /\ runs'[q].until = 0

Times(q) == Rests(q) \/ Parks(q) \/ Hears(q) \/ Handles(q) \/ Begins(q)

LEMMA EngineTimes == ASSUME Table, Next, NEW q \in RunIds PROVE Times(q)
<1>1. CASE Born(q)
  BY <1>1 DEF Born, BornOf, Fresh, Absent, Begins, Times
<1>2. CASE Went(q)
  <2>1. CASE Spoke(q)
    <3>1. PICK e : Recorded(q, Asks(q), e) /\ runs'[q].hist = Append(runs[q].hist, e)
      BY <2>1 DEF Spoke
    <3>2. e.op = Asks(q).op /\ e.op \notin TimedOps /\ Asks(q).op \notin {"return", "fail"}
      BY <2>1, <3>1 DEF Spoke, Recorded, EngineOps, TimedOps
    <3>3. runs'[q].prog = runs[q].prog
      BY <1>2 DEF Went, Keeps
    <3> QED
      BY <3>1, <3>2, <3>3 DEF Hears, Times
  <2>2. CASE ~Spoke(q)
    <3>1. runs'[q].hist = runs[q].hist
      BY <1>2, <2>2 DEF Went, Returned, Continued, Swept, Warned, Moved, Keeps
    <3>2. runs'[q].prog = runs[q].prog /\ runs'[q].since = runs[q].since
      BY <1>2 DEF Went, Keeps
    <3> QED
      BY <1>2, <2>2, <3>1, <3>2 DEF Went, Same, Rests, Times
  <2> QED
    BY <2>1, <2>2
<1>3. CASE runs'[q] = runs[q]
  BY <1>3 DEF Same, Rests, Times
<1> QED
  BY <1>1, <1>2, <1>3, EngineRows DEF Evolves

LEMMA AnswerTimes ==
    ASSUME Table, NEW r \in RunIds, NEW op, NEW tag, NEW res, NEW n,
           RecordAnswer(r, op, tag, res, n),
           op = Asks(r).op, op \notin {"return", "fail"},
           op \in TimedOps /\ res = "timedout" => Waits(Asks(r)) /\ TimeIsUp(r),
           NEW q \in RunIds
    PROVE  Times(q)
<1> DEFINE e == [op |-> op, tag |-> tag, res |-> res, run |-> n, at |-> now,
                 since |-> Waited(r)]
<1>1. e.op = op /\ e.res = res /\ e.at = now /\ e.since = Waited(r)
  OBVIOUS
<1> HIDE DEF e
<1>2. runs' = [runs EXCEPT ![r].hist = Append(@, e), ![r].since = 0, ![r].until = 0]
  BY DEF RecordAnswer, e
<1>3. CASE q = r
  <2>1. /\ runs'[r].hist = Append(runs[r].hist, e)
        /\ runs'[r].prog = runs[r].prog /\ runs'[r].until = 0
    BY <1>2 DEF Table, IsRow, Fields
  <2> QED
    BY <1>1, <1>3, <2>1 DEF Hears, Times
<1>4. CASE q # r
  BY <1>2, <1>4 DEF Table, Same, Rests, Times
<1> QED
  BY <1>3, <1>4

\* A row that is only woken.
LEMMA WakingTimes ==
    ASSUME Table, NEW to, NEW signal, NEW i, NEW how, NEW q \in RunIds,
           UNCHANGED runs \/ Deliver(to, signal) \/ SettleAndWake(i, how)
    PROVE  Times(q)
BY DEF Deliver, SettleAndWake, Woken, Table, IsRow, Fields, Same, Rests, Times

LEMMA MailTimes ==
    ASSUME Table, NEW r \in RunIds, NEW c, c = Asks(r), MailStep(r, c), NEW q \in RunIds
    PROVE  Times(q)
<1>1. ASSUME NEW op, NEW tag, NEW res, NEW n, RecordAnswer(r, op, tag, res, n),
             op = c.op, op \notin {"return", "fail"},
             op \in TimedOps /\ res = "timedout" => Waits(c) /\ TimeIsUp(r)
      PROVE  Times(q)
  BY <1>1, AnswerTimes
<1>2. CASE HearSignal(r, c)
  BY <1>1, <1>2 DEF HearSignal
<1>3. CASE HearPromise(r, c)
  BY <1>1, <1>3 DEF HearPromise
<1>4. CASE HearTimeout(r, c)
  BY <1>1, <1>4 DEF HearTimeout, Reached, Waits
<1>5. CASE RecordSignal(r, c) \/ RecordSettlement(r, c) \/ TakeNote(r, c) \/ Schedule(r, c)
  BY <1>1, <1>5 DEF RecordSignal, RecordSettlement, TakeNote, Schedule, TimedOps
<1>6. CASE PollForSignal(r, c)
  BY <1>1, <1>6 DEF PollForSignal, TimedOps
<1>7. CASE TakeLock(r, c) \/ FreeLock(r, c)
  BY <1>1, <1>7 DEF TakeLock, FreeLock, TimedOps
<1>8. CASE MakePromise(r, c)
  BY <1>1, <1>8 DEF MakePromise
<1>9. CASE FindNothing(r, c) \/ UpdatesDrained(r, c) \/ SendSignal(r, c) \/ SettlePromise(r, c)
  BY <1>9, WakingTimes DEF FindNothing, UpdatesDrained, SendSignal, SettlePromise
<1>10. CASE Park(r, c)
  <2>1. CASE q = r
    BY <1>10, <2>1 DEF Park, Table, IsRow, Fields, Same, Parks, Times
  <2>2. CASE q # r
    BY <1>10, <2>2 DEF Park, Table, Same, Rests, Times
  <2> QED
    BY <2>1, <2>2
<1>11. CASE HandleUpdate(r, c)
  <2>1. PICK i, verdict : Record(r, Answer("update", updates[i].name, verdict, i))
    BY <1>11 DEF HandleUpdate
  <2>2. PICK e : Record(r, e) /\ e.op = "update"
    BY <2>1 DEF Answer
  <2> QED
    BY <2>2 DEF Record, Table, IsRow, Fields, Same, Rests, Handles, Times
<1> QED
  BY <1>2, <1>3, <1>4, <1>5, <1>6, <1>7, <1>8, <1>9, <1>10, <1>11 DEF MailStep

LEMMA StepTimes ==
    ASSUME Table, [MailNext]_allVars, NEW q \in RunIds PROVE Times(q)
<1>1. CASE Next
  BY <1>1, EngineTimes
<1>2. ASSUME NEW r \in RunIds, TimerFires(r) PROVE Times(q)
  BY <1>2 DEF TimerFires, Table, IsRow, Fields, Same, Rests, Times
<1>3. ASSUME NEW call, Invoke(call) PROVE Times(q)
  BY <1>3, WakingTimes DEF Invoke
<1>4. ASSUME NEW p, PostSignal(p) \/ PostSettlement(p) PROVE Times(q)
  BY <1>4, WakingTimes DEF PostSignal, PostSettlement
<1>5. ASSUME NEW p, PostUpdate(p) PROVE Times(q)
  BY <1>5 DEF PostUpdate, Woken, Table, IsRow, Fields, Same, Rests, Times
<1>6. CASE UNCHANGED allVars
  BY <1>6, WakingTimes DEF allVars, vars
<1> QED
  BY <1>1, <1>2, <1>3, <1>4, <1>5, <1>6, MailTimes DEF MailNext, MailProgress, Post

\* The clock goes on by one, or stands.
LEMMA StepClock == ASSUME Table, [MailNext]_allVars PROVE now' \in {now, now + 1}
BY StepLocks DEF Idles, Takes, Frees, Answers
-----------------------------------------------------------------------------
(* The budget of a run, and of its open wait.                              *)

BodyOf(r) == WithoutUpdates(runs[r].hist)

OpenWait(r) ==
    runs[r].until # 0 =>
        /\ runs[r].since \in Nat
        /\ Waits(Asks(r)) /\ runs[r].until = After(runs[r].since, Asks(r).timeout)
        /\ BodyOf(r) # <<>> => Last(BodyOf(r)).at <= runs[r].since

Thrift(r) == Clocked(BodyOf(r), now) /\ Frugal(runs[r].prog, BodyOf(r)) /\ OpenWait(r)

BInv ==
    /\ Table /\ Boxes /\ now \in Nat
    /\ \A r \in RunIds : Budgeted(runs[r].prog) => Thrift(r)

WaitersAreThePorts == \A p, h : Guest(p, h) = PortCall(p, h)

LEMMA NoUpdateAtFirst == WithoutUpdates(<<>>) = <<>> /\ Len(<<>>) = 0
<1>1. DOMAIN << >> = {} /\ Len(<<>>) = 0
  <2>1. << >> \in Seq(Range(<< >>)) /\ Len(<< >>) = 0
    BY EmptySeq
  <2> QED
    BY <2>1, LenProperties
<1>2. Own(<<>>) = {}
  BY <1>1 DEF Own
<1> PICK b : b = WithoutUpdates(<<>>)
  OBVIOUS
<1>3. \E f : b = [n \in 1..0 |-> f[n]]
  <2>1. b = [n \in 1..0 |-> <<>>[CHOOSE i \in {} : Cardinality(UpTo({}, i)) = n]]
    BY <1>2, WithoutUpdatesIs, FS_EmptySet
  <2> QED
    BY <2>1
<1>4. b = <<>>
  BY <1>3
<1> QED
  BY <1>1, <1>4

LEMMA BodyIsSeq == ASSUME Table, NEW r \in RunIds PROVE IsSeq(BodyOf(r)) /\ Len(BodyOf(r)) \in Nat
<1>1. IsSeq(runs[r].hist)
  BY DEF Table, IsRow
<1>2. IsSeq(BodyOf(r))
  BY <1>1, UpdatesAreLeftOut DEF BodyOf
<1> QED
  BY <1>2, LenProperties DEF IsSeq

LEMMA AsksOfBody ==
    ASSUME WaitersAreThePorts, NEW r \in RunIds
    PROVE  /\ Asks(r) = Waiting(runs[r].prog, BodyOf(r))
           /\ Asks(r)' = Waiting(runs'[r].prog, WithoutUpdates(runs'[r].hist))
BY DEF WaitersAreThePorts, Asks, PortCall, BodyOf

LEMMA HearingIsThrifty ==
    ASSUME WaitersAreThePorts, BInv, NEW r \in RunIds, Budgeted(runs[r].prog), Hears(r)
    PROVE  LET g == WithoutUpdates(runs'[r].hist)
           IN runs'[r].until = 0 /\ Clocked(g, now) /\ Frugal(runs[r].prog, g)
<1> PICK b : b = BodyOf(r)
  OBVIOUS
<1> PICK p, c : p = runs[r].prog /\ c = Asks(r)
  OBVIOUS
<1>1. PICK e : /\ runs'[r].hist = Append(runs[r].hist, e) /\ e.op = c.op
               /\ e.op \in TimedOps =>
                    /\ runs'[r].until = 0
                    /\ e.at = now /\ e.since = Waited(r)
                    /\ e.res = "timedout" => Waits(c) /\ TimeIsUp(r)
  BY DEF Hears
<1>2. IsSeq(b) /\ c = Waiting(p, b) /\ Budgeted(p)
  BY BodyIsSeq, AsksOfBody DEF BInv
<1>3. c.op \notin {"return", "fail"}
  BY DEF Hears
<1>4. e.op \in TimedOps
  BY <1>1, <1>2, <1>3, AsksWithinBudget
<1>5. WithoutUpdates(runs'[r].hist) = Append(b, e)
  <2>1. IsSeq(runs[r].hist)
    BY DEF BInv, Table, IsRow
  <2> QED
    BY <1>1, <1>4, <2>1, UpdatesAreLeftOut DEF BodyOf, TimedOps
<1>6. now \in Nat /\ Table /\ Clocked(b, now) /\ Frugal(p, b) /\ OpenWait(r)
  BY DEF BInv, Thrift
<1>7. e.since \in Nat
  BY <1>1, <1>4, <1>6 DEF Waited, OpenWait
<1>8. e.res = "timedout" => /\ Waits(c) /\ now >= After(e.since, c.timeout)
                            /\ b # <<>> => Last(b).at <= e.since
  BY <1>1, <1>4, <1>6 DEF TimeIsUp, OpenWait, Waited
<1>9. Clocked(Append(b, e), now) /\ Frugal(p, Append(b, e))
  BY <1>1, <1>2, <1>4, <1>6, <1>7, <1>8, FrugalGrows
<1> QED
  BY <1>1, <1>4, <1>5, <1>9

LEMMA ThriftStep ==
    ASSUME WaitersAreThePorts, BInv, [MailNext]_allVars,
           NEW r \in RunIds, Budgeted(runs'[r].prog)
    PROVE  Thrift(r)'
<1> PICK p, b : p = runs'[r].prog /\ b = WithoutUpdates(runs'[r].hist)
  OBVIOUS
<1>1. scenario' = scenario /\ now \in Nat /\ now' \in {now, now + 1}
  BY StepKind, StepClock DEF BInv, Result
<1>2. ASSUME Clocked(b, now), Frugal(p, b), OpenWait(r)' PROVE Thrift(r)'
  <2>1. Clocked(b, now) => Clocked(b, now')
    BY <1>1 DEF Clocked
  <2>2. Thrift(r)' <=> Clocked(b, now') /\ Frugal(p, b) /\ OpenWait(r)'
    BY <1>1 DEF Thrift, BodyOf, Clocked, Frugal, After, TimedOut
  <2> QED
    BY <1>2, <2>1, <2>2
<1>3. \A t, d : After(t, d)' = After(t, d)
  BY <1>1 DEF After
\* A step that leaves the body of the guest as it is.
<1>4. ASSUME p = runs[r].prog, b = BodyOf(r)
      PROVE  /\ Asks(r)' = Asks(r) /\ OpenWait(r)
             /\ Clocked(b, now) /\ Frugal(p, b)
  BY <1>4, AsksOfBody DEF BInv, Thrift
<1>5. CASE Rests(r)
  <2>1. p = runs[r].prog /\ b = BodyOf(r)
    BY <1>5 DEF Rests, Same, BodyOf
  <2>2. OpenWait(r)'
    BY <1>3, <1>4, <1>5, <2>1 DEF OpenWait, Rests, BodyOf
  <2> QED
    BY <1>2, <1>4, <2>1, <2>2
<1>6. CASE Parks(r)
  <2>1. p = runs[r].prog /\ b = BodyOf(r)
    BY <1>6 DEF Parks, Same, BodyOf
  <2>2. b # <<>> => Last(b).at <= now
    <3>1. IsSeq(b) /\ Len(b) \in Nat
      BY <2>1, BodyIsSeq DEF BInv
    <3>2. b # <<>> => Len(b) \in 1..Len(b)
      BY <3>1, EmptySeq DEF IsSeq
    <3> QED
      BY <1>4, <2>1, <3>2 DEF Last, Clocked
  <2>3. OpenWait(r)'
    <3>1. CASE runs[r].until = 0
      BY <1>1, <1>3, <1>4, <1>6, <2>1, <2>2, <3>1 DEF OpenWait, Parks, BodyOf, Waited, Deadline
    <3>2. CASE runs[r].until # 0
      BY <1>3, <1>4, <1>6, <2>1, <3>2 DEF OpenWait, Parks, BodyOf, Waited, Deadline
    <3> QED
      BY <3>1, <3>2
  <2> QED
    BY <1>2, <1>4, <2>1, <2>3
<1>7. CASE Handles(r)
  <2>1. p = runs[r].prog /\ b = BodyOf(r)
    <3>1. IsSeq(runs[r].hist)
      BY DEF BInv, Table, IsRow
    <3> QED
      BY <1>7, <3>1, UpdatesAreLeftOut DEF Handles, BodyOf
  <2>2. OpenWait(r)'
    BY <1>3, <1>4, <1>7, <2>1 DEF OpenWait, Handles, BodyOf
  <2> QED
    BY <1>2, <1>4, <2>1, <2>2
<1>8. CASE Hears(r)
  <2>1. runs'[r].until = 0 /\ Clocked(b, now) /\ Frugal(p, b)
    BY <1>8, HearingIsThrifty DEF Hears
  <2> QED
    BY <1>2, <2>1 DEF OpenWait
<1>9. CASE Begins(r)
  <2>1. runs'[r].until = 0 /\ b = <<>> /\ Len(b) = 0
    BY <1>9, NoUpdateAtFirst DEF Begins
  <2>2. Opening(p) \in Nat \ {0}
    BY DEF Budgeted, Opening
  <2> QED
    BY <1>2, <2>1, <2>2 DEF OpenWait, Clocked, Frugal
<1> QED
  BY <1>5, <1>6, <1>7, <1>8, <1>9, StepTimes DEF BInv, Times

LEMMA BInvStep == ASSUME WaitersAreThePorts PROVE BInv /\ [MailNext]_allVars => BInv'
<1> SUFFICES ASSUME BInv, [MailNext]_allVars PROVE BInv'
  OBVIOUS
<1>1. Table' /\ Boxes'
  BY StepKind, BoxesStep DEF BInv, Result
<1>2. now' \in Nat
  BY StepClock DEF BInv
<1> QED
  BY <1>1, <1>2, ThriftStep DEF BInv

LEMMA InitBInv == MailInit => BInv
<1> SUFFICES ASSUME MailInit PROVE BInv
  OBVIOUS
<1>1. Table /\ Boxes /\ now \in Nat
  BY InitMInv DEF MInv, MailInit, Init
<1>2. ASSUME NEW r \in RunIds, Budgeted(runs[r].prog) PROVE Thrift(r)
  <2>1. runs[r].hist = <<>> /\ runs[r].until = 0
    BY DEF MailInit, Init, Fresh, Absent
  <2>2. BodyOf(r) = <<>> /\ Len(BodyOf(r)) = 0
    BY <2>1, NoUpdateAtFirst DEF BodyOf
  <2>3. Opening(runs[r].prog) \in Nat \ {0}
    BY <1>2 DEF Budgeted, Opening
  <2> QED
    BY <2>1, <2>2, <2>3 DEF Thrift, OpenWait, Clocked, Frugal
<1> QED
  BY <1>1, <1>2 DEF BInv

LEMMA BInvIsEnough == BInv /\ BudgetsAreTimes => BudgetIsForAllTheWaits
<1> SUFFICES ASSUME BInv, BudgetsAreTimes, NEW r \in RunIds, IsBudgeted(r)
             PROVE  LET h     == BodyOf(r)
                        chain == Is(r, "promisechain")
                        first == IF chain THEN runs[r].prog.count + 1 ELSE 1
                        start == IF chain THEN h[first - 1].at ELSE h[1].since
                    IN Len(h) >= first =>
                          /\ \A i \in first + 1 .. Len(h) : h[i - 1].at - start < runs[r].prog.budget
                          /\ TimedOut(h) => Last(h).at >= After(start, runs[r].prog.budget)
  BY DEF BudgetIsForAllTheWaits, BodyOf, Events
<1> PICK p : p = runs[r].prog
  OBVIOUS
<1>1. Budgeted(p) /\ Frugal(p, BodyOf(r))
  BY DEF BInv, Thrift, BudgetsAreTimes, IsBudgeted, Is, Budgeted, BudgetedGuests
<1>2. CASE p.w = "promisechain"
  <2> PICK k \in Nat : k = p.count
    BY <1>1, <1>2 DEF Budgeted
  <2> PICK h : h = BodyOf(r)
    OBVIOUS
  <2>1. Len(h) >= k + 1 =>
           /\ \A i \in k + 1 + 1 .. Len(h) : h[i - 1].at - h[k].at < p.budget
           /\ TimedOut(h) => Last(h).at >= After(h[k].at, p.budget)
    BY <1>1, <1>2 DEF Frugal, Opening, StartOf
  <2>2. k + 1 - 1 = k
    OBVIOUS
  <2> QED
    BY <1>2, <2>1, <2>2 DEF Is
<1>3. CASE p.w # "promisechain"
  BY <1>1, <1>3 DEF Frugal, Opening, StartOf, Is
<1> QED
  BY <1>2, <1>3

LEMMA BudgetsAreKept ==
    ASSUME WaitersAreThePorts
    PROVE  MailSpec /\ []BudgetsAreTimes => []BudgetIsForAllTheWaits
BY InitBInv, BInvStep, BInvIsEnough, PTL DEF MailSpec

-----------------------------------------------------------------------------
(***************************************************************************)
(* Types.                                                                  *)
(*                                                                         *)
(* Of any guest: rows, segments and what is lost are of their types.  A    *)
(* send that a crash dropped never comes back into the queue, because a    *)
(* send is numbered by its place in the history, and histories only grow.  *)
(***************************************************************************)
RowOK(x) ==
    /\ x.status \in {"absent", "ready", "running", "sleeping", "waiting", "parked"} \cup Terminal
    /\ x.parent \in RunIds \cup {0} /\ x.from \in RunIds \cup {0}
    /\ x.cancel \in BOOLEAN

HandOK(r) ==
    /\ {"on", "spent", "got", "child"} \subseteq DOMAIN exec[r]
    /\ exec[r].on \in Workers \cup {Nobody}
    /\ exec[r].child \in RunIds \cup {0}
    /\ Executing(r) => runs[r].status \in {"running", "terminated"}
    /\ ~Executing(r) => exec[r] = Idle

Slots ==
    /\ exec = [r \in RunIds |-> exec[r]]
    /\ \A r \in RunIds : RowOK(runs[r]) /\ HandOK(r)

Books ==
    /\ \A x \in lost : x.run \in RunIds /\ x.crash \in 1..crashes
    /\ \A s \in outbox \cup dropped :
          s.run \in RunIds /\ s.at \in Int /\ s.at <= Len(runs[s.run].hist)
    /\ \A s \in dropped : s \notin outbox
    /\ orphans \in Nat /\ crashes \in 0..MaxCrashes /\ cancels \subseteq RunIds

LEMMA SlotsAndBooks == Slots /\ Books => TypeOK
BY DEF Slots, Books, RowOK, HandOK, TypeOK

\* The row q is woken, if it is suspended, and nothing else.
WokenAtMost(q) ==
    \/ runs'[q] = runs[q]
    \/ runs[q].status = "parked" /\ runs'[q] = [runs[q] EXCEPT !.status = "ready"]

LEMMA WokenRowsAreRows ==
    ASSUME Table, Slots, NEW q \in RunIds, WokenAtMost(q)
    PROVE  /\ RowOK(runs'[q])
           /\ runs'[q].status = runs[q].status \/ ~Executing(q)
<1>1. CASE runs'[q] = runs[q]
  BY <1>1 DEF Slots
<1>2. CASE runs[q].status = "parked" /\ runs'[q] = [runs[q] EXCEPT !.status = "ready"]
  <2>1. runs'[q].status = "ready" /\ Keeps(q, {"parent", "from", "cancel"})
    BY <1>2 DEF Table, IsRow, Fields, Keeps
  <2>2. ~Executing(q)
    BY <1>2 DEF Slots, HandOK, Terminal
  <2> QED
    BY <2>1, <2>2 DEF Slots, RowOK, Keeps
<1> QED
  BY <1>1, <1>2 DEF WokenAtMost

LEMMA PerformSlots ==
    ASSUME Table, Slots, NEW r \in RunIds, NEW c, c = Asks(r), Executing(r), Perform(r, c)
    PROVE  Slots'
<1> USE DEF Table, Slots, RowOK, HandOK, IsRow, Fields, Executing
<1>1. CASE MakeCall(r, c) \/ RefuseCall(r, c)
  BY <1>1 DEF MakeCall, RefuseCall
<1>2. CASE RecordCall(r, c)
  BY <1>2 DEF RecordCall, Record, Idle
<1>3. CASE RecordSend(r, c) \/ RecordLocal(r, c) \/ AwaitAnswered(r, c)
  <2>1. UNCHANGED exec /\ \E e : Record(r, e)
    BY <1>3 DEF RecordSend, RecordLocal, AwaitAnswered
  <2> QED
    BY <2>1 DEF Record
<1>4. CASE SleepBegins(r, c)
  BY <1>4 DEF SleepBegins, Idle
<1>5. CASE InsertChild(r, c)
  <2>1. NewId \in RunIds /\ runs[NewId].status = "absent"
    BY <1>5, NewIdIsAbsent DEF InsertChild
  <2>2. PICK n \in RunIds : n = NewId
    BY <2>1
  <2>3. PICK p, parent, policy :
           parent \in RunIds \cup {0} /\ runs' = [runs EXCEPT ![n] = Fresh(p, parent, policy, 0)]
    <3>1. CASE c.op = "spawn"
      <4>1. runs' = [runs EXCEPT ![n] = Fresh(c.prog, r, c.policy, 0)]
        BY <1>5, <2>2, <3>1 DEF InsertChild
      <4> QED
        BY <4>1
    <3>2. CASE c.op # "spawn"
      <4>1. runs' = [runs EXCEPT ![n] = Fresh(c.prog, 0, "ABANDON", 0)]
        BY <1>5, <2>2, <3>2 DEF InsertChild
      <4> QED
        BY <4>1
    <3> QED
      BY <3>1, <3>2
  <2>4. exec' = [exec EXCEPT ![r].child = n]
    BY <1>5, <2>2 DEF InsertChild
  <2> QED
    BY <2>1, <2>2, <2>3, <2>4 DEF Fresh, Absent, Terminal
<1>6. CASE RecordChild(r, c)
  BY <1>6 DEF RecordChild, Record
<1>7. CASE AwaitSuspends(r, c)
  BY <1>7 DEF AwaitSuspends, Idle
<1>8. CASE ContinueRun(r, c)
  <2>1. PICK n \in RunIds : n = NewId
    BY <1>8, NewIdIsAbsent DEF ContinueRun
  <2>2. runs[n].status = "absent" /\ r # n
    BY <1>8, <2>1, NewIdIsAbsent DEF ContinueRun
  <2>3. PICK p, parent, policy, from :
       /\ {parent, from} \subseteq RunIds \cup {0}
       /\ runs' = [runs EXCEPT ![r].status = "done", ![r].result = "continued",
                               ![r].holds = FALSE,
                               ![n] = Fresh(p, parent, policy, from)]
    <3>1. First(r) \in RunIds \cup {0} /\ runs[r].parent \in RunIds \cup {0}
      BY DEF First
    <3>2. runs' = [runs EXCEPT ![r].status = "done", ![r].result = "continued",
                               ![r].holds = FALSE,
                               ![n] = Fresh(c.prog, runs[r].parent, runs[r].policy, First(r))]
      BY <1>8, <2>1 DEF ContinueRun
    <3> QED
      BY <3>1, <3>2
  <2>4. exec' = [exec EXCEPT ![r] = Idle]
    BY <1>8 DEF ContinueRun
  <2> QED
    BY <2>2, <2>3, <2>4 DEF Idle, Fresh, Absent, Terminal
<1>9. CASE Finish(r, c)
  <2>1. exec' = [exec EXCEPT ![r] = Idle]
    BY <1>9 DEF Finish
  <2>2. ASSUME NEW q \in RunIds, q # r
        PROVE  /\ runs'[q].status = "terminated" \/ runs'[q].status = runs[q].status
               /\ RowOK(runs'[q])
    BY <1>9, <2>2 DEF Finish, Terminal
  <2>3. RowOK(runs'[r])
    BY <1>9 DEF Finish, FinalStatus, Terminal
  <2>4. ASSUME NEW q \in RunIds PROVE HandOK(q)'
    BY <2>1, <2>2 DEF Idle
  <2> QED
    BY <2>1, <2>2, <2>3, <2>4
<1> QED
  BY <1>1, <1>2, <1>3, <1>4, <1>5, <1>6, <1>7, <1>8, <1>9 DEF Perform

LEMMA EngineSlots == ASSUME Table, Slots, Next PROVE Slots'
<1> USE DEF Table, Slots, RowOK, HandOK, IsRow, Fields, Executing
<1>1. ASSUME NEW r \in RunIds, NEW w \in Workers, Claim(r, w) PROVE Slots'
  BY <1>1 DEF Claim, Idle
<1>2. ASSUME NEW r \in RunIds, SleepEnds(r) \/ ChildWakes(r) \/ Reap(r) PROVE Slots'
  BY <1>2 DEF SleepEnds, ChildWakes, Reap
<1>3. ASSUME NEW r \in RunIds, FenceLost(r) PROVE Slots'
  BY <1>3 DEF FenceLost, Idle
<1>4. ASSUME NEW r \in RunIds, RequestCancel(r) \/ CancelPropagates(r) PROVE Slots'
  <2>1. UNCHANGED exec /\ runs' = [runs EXCEPT ![r].cancel = TRUE]
    BY <1>4 DEF RequestCancel, CancelPropagates
  <2>2. /\ \A q \in RunIds \ {r} : runs'[q] = runs[q]
        /\ runs'[r].cancel = TRUE
        /\ Keeps(r, {"status", "parent", "from"})
    BY <2>1 DEF Keeps
  <2>3. RowOK(runs'[r])
    BY <2>2 DEF Keeps
  <2>4. \A q \in RunIds : RowOK(runs'[q]) /\ runs'[q].status = runs[q].status
    BY <2>2, <2>3 DEF Keeps
  <2> QED
    BY <2>1, <2>4
<1>5. ASSUME NEW s \in outbox, Dispatch(s) PROVE Slots'
  BY <1>5 DEF Dispatch
<1>6. ASSUME NEW w \in Workers, Crash(w) PROVE Slots'
  BY <1>6 DEF Crash, Killed, Idle
<1>7. CASE Tick
  BY <1>7 DEF Tick
<1>8. ASSUME NEW r \in RunIds, NEW c, c = Asks(r), Executing(r), Perform(r, c) PROVE Slots'
  BY <1>8, PerformSlots
<1> QED
  BY <1>1, <1>2, <1>3, <1>4, <1>5, <1>6, <1>7, <1>8 DEF Next, Progress

LEMMA MailStepSlots ==
    ASSUME Table, Slots, NEW r \in RunIds, NEW c, Executing(r), MailStep(r, c)
    PROVE  Slots'
<1> USE DEF Table, Slots, RowOK, HandOK, IsRow, Fields, Executing
<1>1. ASSUME NEW op, NEW tag, NEW res, NEW n, RecordAnswer(r, op, tag, res, n) PROVE Slots'
  BY <1>1 DEF RecordAnswer
<1>2. ASSUME NEW got, exec' = [exec EXCEPT ![r].got = got],
             \A q \in RunIds : WokenAtMost(q)
      PROVE  Slots'
  <2>1. \A q \in RunIds : RowOK(runs'[q]) /\ (runs'[q].status = runs[q].status \/ ~Executing(q))
    BY <1>2, WokenRowsAreRows
  <2> QED
    BY <1>2, <2>1
<1>3. CASE HearSignal(r, c) \/ HearPromise(r, c) \/ HearTimeout(r, c) \/ RecordSignal(r, c)
             \/ PollForSignal(r, c) \/ MakePromise(r, c) \/ RecordSettlement(r, c)
             \/ TakeLock(r, c) \/ FreeLock(r, c) \/ TakeNote(r, c) \/ Schedule(r, c)
  <2>1. \E op, tag, res, n : RecordAnswer(r, op, tag, res, n)
    BY <1>3 DEF HearSignal, HearPromise, HearTimeout, RecordSignal, PollForSignal, MakePromise,
                RecordSettlement, TakeLock, FreeLock, TakeNote, Schedule
  <2> QED
    BY <1>1, <2>1
<1>4. CASE FindNothing(r, c) \/ UpdatesDrained(r, c)
  BY <1>2, <1>4 DEF FindNothing, UpdatesDrained, WokenAtMost
<1>5. CASE Park(r, c)
  BY <1>5 DEF Park, Idle, Terminal
<1>6. CASE SendSignal(r, c)
  BY <1>2, <1>6 DEF SendSignal, Deliver, Woken, WokenAtMost
<1>7. CASE SettlePromise(r, c)
  BY <1>2, <1>7 DEF SettlePromise, SettleAndWake, Woken, WokenAtMost
<1>8. CASE HandleUpdate(r, c)
  <2>1. UNCHANGED exec /\ \E e : Record(r, e)
    BY <1>8 DEF HandleUpdate
  <2> QED
    BY <2>1 DEF Record
<1> QED
  BY <1>3, <1>4, <1>5, <1>6, <1>7, <1>8 DEF MailStep

LEMMA SlotsStep == ASSUME Table, Slots, [MailNext]_allVars PROVE Slots'
<1> USE DEF Table, Slots, RowOK, HandOK, IsRow, Fields, Executing
<1>1. ASSUME UNCHANGED exec,
             \A q \in RunIds : WokenAtMost(q)
      PROVE  Slots'
  <2>1. \A q \in RunIds : RowOK(runs'[q]) /\ (runs'[q].status = runs[q].status \/ ~Executing(q))
    BY <1>1, WokenRowsAreRows
  <2> QED
    BY <1>1, <2>1
<1>2. ASSUME NEW r \in RunIds, TimerFires(r) PROVE Slots'
  BY <1>1, <1>2 DEF TimerFires, WokenAtMost
<1>3. ASSUME NEW call \in due, Invoke(call) PROVE Slots'
  BY <1>3 DEF Invoke
<1>4. CASE Post
  <2> PICK p : PostSignal(p) \/ PostSettlement(p) \/ PostUpdate(p)
    BY <1>4 DEF Post
  <2> QED
    BY <1>1, <1>4 DEF Post, PostSignal, PostSettlement, PostUpdate, Deliver, SettleAndWake, Woken, WokenAtMost
<1>5. CASE UNCHANGED allVars
  BY <1>5 DEF allVars, vars
<1> QED
  BY <1>2, <1>3, <1>4, <1>5, EngineSlots, MailStepSlots DEF MailNext, MailProgress
-----------------------------------------------------------------------------
(* What a waiting guest may ask for.                                       *)

\* Nothing is said of a call that waits for nobody, takes no lock, sends nothing and starts
\* nothing.
Modest(p, c) ==
    /\ c.op = "recv" => IsTime(c.timeout) /\ (p.w \in UpdatedGuests => c.dispatches)
    /\ c.op = "lock" => p.w \in LockGuests /\ c.key = p.key /\ c.ttl = p.ttl
    /\ c.op = "signal" => c.name = "go"
    /\ c.op \in {"spawn", "detach", "continue"} => IsWaiter(c.prog)
    /\ c.op # "awaitpromise"

AllModest(p, s) == IsSeq(s) /\ \A i \in 1..Len(s) : Modest(p, s[i])

LEMMA TuplesOfCalls ==
    ASSUME NEW a, NEW b, NEW c, NEW d
    PROVE  /\ IsSeq(<<a>>) /\ Len(<<a>>) = 1 /\ <<a>>[1] = a
           /\ IsSeq(<<a, b>>) /\ Len(<<a, b>>) = 2 /\ \A i \in 1..2 : <<a, b>>[i] \in {a, b}
           /\ IsSeq(<<a, b, c>>) /\ Len(<<a, b, c>>) = 3
           /\ \A i \in 1..3 : <<a, b, c>>[i] \in {a, b, c}
           /\ IsSeq(<<a, b, c, d>>) /\ Len(<<a, b, c, d>>) = 4
           /\ \A i \in 1..4 : <<a, b, c, d>>[i] \in {a, b, c, d}
<1>1. /\ <<a>> \in Seq({a}) /\ <<a, b>> \in Seq({a, b}) /\ <<a, b, c>> \in Seq({a, b, c})
      /\ <<a, b, c, d>> \in Seq({a, b, c, d})
  OBVIOUS
<1>2. IsSeq(<<a>>) /\ IsSeq(<<a, b>>) /\ IsSeq(<<a, b, c>>) /\ IsSeq(<<a, b, c, d>>)
  BY <1>1, SeqOfRange DEF IsSeq
<1>3. /\ \A i \in 1..2 : <<a, b>>[i] \in {a, b}
      /\ \A i \in 1..3 : <<a, b, c>>[i] \in {a, b, c}
      /\ \A i \in 1..4 : <<a, b, c, d>>[i] \in {a, b, c, d}
  OBVIOUS
<1>4. /\ Len(<<a>>) = 1 /\ Len(<<a, b>>) = 2 /\ Len(<<a, b, c>>) = 3 /\ Len(<<a, b, c, d>>) = 4
      /\ <<a>>[1] = a
  OBVIOUS
<1> QED
  BY <1>2, <1>3, <1>4

LEMMA TuplesAreModest ==
    ASSUME NEW p
    PROVE  /\ \A a : Modest(p, a) => AllModest(p, <<a>>)
           /\ \A a, b : Modest(p, a) /\ Modest(p, b) => AllModest(p, <<a, b>>)
           /\ \A a, b, c : Modest(p, a) /\ Modest(p, b) /\ Modest(p, c) => AllModest(p, <<a, b, c>>)
           /\ \A a, b, c, d :
                 Modest(p, a) /\ Modest(p, b) /\ Modest(p, c) /\ Modest(p, d)
                 => AllModest(p, <<a, b, c, d>>)
<1>1. ASSUME NEW a, Modest(p, a) PROVE AllModest(p, <<a>>)
  <2>1. IsSeq(<<a>>) /\ Len(<<a>>) = 1 /\ <<a>>[1] = a
    BY TuplesOfCalls
  <2> QED
    BY <1>1, <2>1 DEF AllModest
<1>2. ASSUME NEW a, NEW b, Modest(p, a), Modest(p, b) PROVE AllModest(p, <<a, b>>)
  <2>1. IsSeq(<<a, b>>) /\ Len(<<a, b>>) = 2 /\ \A i \in 1..2 : <<a, b>>[i] \in {a, b}
    BY TuplesOfCalls
  <2> QED
    BY <1>2, <2>1 DEF AllModest
<1>3. ASSUME NEW a, NEW b, NEW c, Modest(p, a), Modest(p, b), Modest(p, c)
      PROVE  AllModest(p, <<a, b, c>>)
  <2>1. /\ IsSeq(<<a, b, c>>) /\ Len(<<a, b, c>>) = 3
        /\ \A i \in 1..3 : <<a, b, c>>[i] \in {a, b, c}
    BY TuplesOfCalls
  <2> QED
    BY <1>3, <2>1 DEF AllModest
<1>4. ASSUME NEW a, NEW b, NEW c, NEW d, Modest(p, a), Modest(p, b), Modest(p, c), Modest(p, d)
      PROVE  AllModest(p, <<a, b, c, d>>)
  <2>1. /\ IsSeq(<<a, b, c, d>>) /\ Len(<<a, b, c, d>>) = 4
        /\ \A i \in 1..4 : <<a, b, c, d>>[i] \in {a, b, c, d}
    BY TuplesOfCalls
  <2> QED
    BY <1>4, <2>1 DEF AllModest
<1> QED
  BY <1>1, <1>2, <1>3, <1>4

\* A script given as a function.
LEMMA TablesAreModest ==
    ASSUME NEW p, NEW n \in Nat, NEW s, s = [i \in 1..n |-> s[i]], \A i \in 1..n : Modest(p, s[i])
    PROVE  AllModest(p, s)
<1>1. IsSeq(s) /\ Len(s) = n
  BY SeqDef, LenProperties DEF IsSeq, Range
<1> QED
  BY <1>1 DEF AllModest

LEMMA JoinsAreModest ==
    ASSUME NEW p, NEW s, AllModest(p, s), NEW t, AllModest(p, t)
    PROVE  AllModest(p, s \o t)
<1>1. /\ IsSeq(s \o t)
      /\ Len(s) \in Nat /\ Len(t) \in Nat /\ Len(s \o t) = Len(s) + Len(t)
      /\ \A i \in 1..Len(s \o t) :
            (s \o t)[i] = IF i <= Len(s) THEN s[i] ELSE t[i - Len(s)]
  BY Joins DEF AllModest
<1>2. ASSUME NEW i \in 1..Len(s \o t) PROVE Modest(p, (s \o t)[i])
  <2>1. CASE i <= Len(s)
    BY <1>1, <2>1 DEF AllModest
  <2>2. CASE ~(i <= Len(s))
    <3>1. i - Len(s) \in 1..Len(t) /\ (s \o t)[i] = t[i - Len(s)]
      BY <1>1, <2>2
    <3> QED
      BY <3>1 DEF AllModest
  <2> QED
    BY <2>1, <2>2
<1> QED
  BY <1>1, <1>2 DEF AllModest

LEMMA ScriptIsModest ==
    ASSUME NEW p, NEW b, IsSeq(b), NEW s, AllModest(p, s), NEW end, Modest(p, end)
    PROVE  Modest(p, Script(s, end, b))
<1>1. Len(b) \in Nat /\ Len(s) \in Nat
  BY LenProperties DEF IsSeq, AllModest
<1>2. CASE Len(b) < Len(s)
  <2>1. Len(b) + 1 \in 1..Len(s)
    BY <1>1, <1>2
  <2> QED
    BY <1>2, <2>1 DEF Script, AllModest
<1> QED
  BY <1>2 DEF Script

LEMMA EndsAreModest ==
    ASSUME NEW p
    PROVE  Modest(p, Wrapped) /\ Modest(p, OwnWords) /\ \A o : Modest(p, Return(o))
BY DEF Modest, Wrapped, OwnWords, Return

LEMMA PropagatingIsModest ==
    ASSUME NEW p, NEW b, IsSeq(b), NEW s, AllModest(p, s)
    PROVE  Modest(p, Propagating(s, b))
BY ScriptIsModest, EndsAreModest DEF Propagating

LEMMA CallsAreModest ==
    ASSUME NEW p
    PROVE  /\ \A d : Modest(p, SleepFor(d)) /\ Modest(p, Sleep)
           /\ \A t : Modest(p, Call(t)) /\ Modest(p, Note(t)) /\ Modest(p, PollSignal(t))
           /\ \A t, d : Modest(p, ScheduleInvoke(t, d))
           /\ \A r : Modest(p, PollChild(r)) /\ Modest(p, SignalWorkflow(r, "go"))
           /\ \A k, how : Modest(p, Settle(k, how)) /\ Modest(p, ReleaseLock(k))
           /\ Modest(p, CreatePromise)
           /\ p.w \in LockGuests => Modest(p, AcquireLock(p.key, p.ttl))
           /\ Modest(p, Child([w |-> "childleaf"]))
           /\ \A names, d : IsTime(d) => Modest(p, AwaitSignals(names, d))
           /\ \A names, d : IsTime(d) /\ p.w \notin UpdatedGuests => Modest(p, Receive(names, d))
<1>1. IsWaiter([w |-> "childleaf"])
  BY DEF IsWaiter, OtherGuests, TimedGuests, BudgetedGuests, LockGuests
<1>2. \A d : Modest(p, SleepFor(d)) /\ Modest(p, Sleep)
  BY DEF Modest, SleepFor, Sleep
<1>3. \A t : Modest(p, Call(t)) /\ Modest(p, Note(t)) /\ Modest(p, PollSignal(t))
  BY DEF Modest, Call, CallRetrying, Note, PollSignal
<1>4. /\ \A t, d : Modest(p, ScheduleInvoke(t, d))
      /\ \A r : Modest(p, PollChild(r)) /\ Modest(p, SignalWorkflow(r, "go"))
  BY DEF Modest, ScheduleInvoke, PollChild, SignalWorkflow
<1>5. /\ \A k, how : Modest(p, Settle(k, how)) /\ Modest(p, ReleaseLock(k))
      /\ Modest(p, CreatePromise)
  BY DEF Modest, Settle, ReleaseLock, CreatePromise
<1>6. p.w \in LockGuests => Modest(p, AcquireLock(p.key, p.ttl))
  BY DEF Modest, AcquireLock
<1>7. Modest(p, Child([w |-> "childleaf"]))
  BY <1>1 DEF Modest, Child, ChildUnder
<1>8. /\ \A names, d : IsTime(d) => Modest(p, AwaitSignals(names, d))
      /\ \A names, d : IsTime(d) /\ p.w \notin UpdatedGuests => Modest(p, Receive(names, d))
  BY DEF Modest, AwaitSignals, Receive
<1> QED
  BY <1>2, <1>3, <1>4, <1>5, <1>6, <1>7, <1>8

\* A script of up to four calls.
LEMMA ShortScriptsAreModest ==
    ASSUME NEW p, NEW h, IsSeq(h)
    PROVE  /\ \A a, end : Modest(p, a) /\ Modest(p, end) => Modest(p, Script(<<a>>, end, h))
           /\ \A a, b, end :
                 Modest(p, a) /\ Modest(p, b) /\ Modest(p, end) => Modest(p, Script(<<a, b>>, end, h))
           /\ \A a : Modest(p, a) => Modest(p, Propagating(<<a>>, h))
           /\ \A a, b : Modest(p, a) /\ Modest(p, b) => Modest(p, Propagating(<<a, b>>, h))
           /\ \A a, b, c :
                 Modest(p, a) /\ Modest(p, b) /\ Modest(p, c)
                 => Modest(p, Propagating(<<a, b, c>>, h))
           /\ \A a, b, c, d :
                 Modest(p, a) /\ Modest(p, b) /\ Modest(p, c) /\ Modest(p, d)
                 => Modest(p, Propagating(<<a, b, c, d>>, h))
<1>1. ASSUME NEW s, AllModest(p, s)
      PROVE  Modest(p, Propagating(s, h)) /\ \A end : Modest(p, end) => Modest(p, Script(s, end, h))
  BY <1>1, ScriptIsModest, PropagatingIsModest
<1> QED
  BY <1>1, TuplesAreModest

\* Every waiting guest but for those with a budget and for the parent of a promise.
LEMMA WaitersAreModest ==
    ASSUME NEW p, IsWaiter(p), p.w \notin BudgetedGuests \cup {"promiseparent"}, NEW h, IsSeq(h)
    PROVE  Modest(p, Waiting(p, h))
<1>1. CASE p.w = "signalorder"
  <2>1. Waiting(p, h) = SignalOrder(p, h)
    BY <1>1 DEF Waiting
  <2> QED
    BY <1>1, <2>1, CallsAreModest, EndsAreModest, ShortScriptsAreModest
       DEF SignalOrder, IsWaiter, TimedGuests, UpdatedGuests
<1>2. CASE p.w = "signalreceiver"
  <2>1. Waiting(p, h) = SignalReceiver(p, h)
    BY <1>2 DEF Waiting
  <2> QED
    BY <1>2, <2>1, CallsAreModest, EndsAreModest, ShortScriptsAreModest
       DEF SignalReceiver, IsWaiter, TimedGuests, UpdatedGuests
<1>3. CASE p.w = "signalsender"
  <2>1. Waiting(p, h) = SignalSender(p, h)
    BY <1>3 DEF Waiting
  <2> QED
    BY <1>3, <2>1, CallsAreModest, EndsAreModest, ShortScriptsAreModest
       DEF SignalSender
<1>4. CASE p.w = "signaltimeout"
  <2>1. Waiting(p, h) = SignalTimeout(p, h)
    BY <1>4 DEF Waiting
  <2> QED
    BY <1>4, <2>1, CallsAreModest, EndsAreModest, ShortScriptsAreModest
       DEF SignalTimeout, IsWaiter, TimedGuests, UpdatedGuests
<1>5. CASE p.w = "pollsignal"
  <2>1. Waiting(p, h) = PollSignalTwice(p, h)
    BY <1>5 DEF Waiting
  <2> QED
    BY <1>5, <2>1, CallsAreModest, EndsAreModest, ShortScriptsAreModest
       DEF PollSignalTwice
<1>6. CASE p.w = "quorum"
  <2>1. Waiting(p, h) = Quorum(p, h)
    BY <1>6 DEF Waiting
  <2>2. IsTime(p.timeout)
    BY <1>6 DEF IsWaiter, TimedGuests
  <2>3. /\ Modest(p, Call("waiting")) /\ Modest(p, AwaitSignals(p.names \ Names(h), p.timeout))
        /\ Modest(p, Return("timedout")) /\ Modest(p, Return("quorum"))
    BY <2>2, CallsAreModest, EndsAreModest
  <2> QED
    BY <2>1, <2>3 DEF Quorum
<1>7. CASE p.w = "twoawaits"
  <2>1. Waiting(p, h) = TwoAwaits(p, h)
    BY <1>7 DEF Waiting
  <2> QED
    BY <1>7, <2>1, CallsAreModest, EndsAreModest, ShortScriptsAreModest
       DEF TwoAwaits, IsWaiter, TimedGuests
<1>8. CASE p.w = "promisesettler"
  <2>1. Waiting(p, h) = PromiseSettler(p, h)
    BY <1>8 DEF Waiting
  <2> QED
    BY <1>8, <2>1, CallsAreModest, EndsAreModest, ShortScriptsAreModest
       DEF PromiseSettler
<1>9. CASE p.w = "lockholder"
  <2>1. Waiting(p, h) = LockHolder(p, h)
    BY <1>9 DEF Waiting
  <2> QED
    BY <1>9, <2>1, CallsAreModest, EndsAreModest, ShortScriptsAreModest
       DEF LockHolder, LockGuests
<1>10. CASE p.w = "locktry"
  <2>1. Waiting(p, h) = LockTry(p, h)
    BY <1>10 DEF Waiting
  <2> QED
    BY <1>10, <2>1, CallsAreModest, EndsAreModest, ShortScriptsAreModest
       DEF LockTry, LockGuests
<1>11. CASE p.w = "updatable"
  <2>1. Waiting(p, h) = Updatable(p, h)
    BY <1>11 DEF Waiting
  <2> QED
    BY <1>11, <2>1, CallsAreModest, EndsAreModest, ShortScriptsAreModest
       DEF Updatable, IsWaiter, TimedGuests
<1>12. CASE p.w = "querystate"
  <2>1. Waiting(p, h) = QueryState(p, h)
    BY <1>12 DEF Waiting
  <2> QED
    BY <1>12, <2>1, CallsAreModest, EndsAreModest, ShortScriptsAreModest
       DEF QueryState
<1>13. CASE p.w = "durableclock"
  <2>1. Waiting(p, h) = DurableClock(p, h)
    BY <1>13 DEF Waiting
  <2> QED
    BY <1>13, <2>1, CallsAreModest, EndsAreModest, ShortScriptsAreModest
       DEF DurableClock
<1>14. CASE p.w = "emptyorch"
  <2>1. Waiting(p, h) = EmptyOrch(p, h)
    BY <1>14 DEF Waiting
  <2> QED
    BY <1>14, <2>1, CallsAreModest, EndsAreModest, ShortScriptsAreModest
       DEF EmptyOrch
<1>15. CASE p.w = "badresult"
  <2>1. Waiting(p, h) = BadResult(p, h)
    BY <1>15 DEF Waiting
  <2> QED
    BY <1>15, <2>1, CallsAreModest, EndsAreModest, ShortScriptsAreModest
       DEF BadResult
<1>16. CASE p.w = "panicwf"
  <2>1. Waiting(p, h) = PanicWF(p, h)
    BY <1>16 DEF Waiting
  <2> QED
    BY <1>16, <2>1, CallsAreModest, EndsAreModest, ShortScriptsAreModest
       DEF PanicWF
<1>17. CASE p.w = "singletimer"
  <2>1. Waiting(p, h) = SingleTimer(p, h)
    BY <1>17 DEF Waiting
  <2> QED
    BY <1>17, <2>1, CallsAreModest, EndsAreModest, ShortScriptsAreModest
       DEF SingleTimer
<1>18. CASE p.w = "concurrency"
  <2>1. Waiting(p, h) = HoldsKey(p, h)
    BY <1>18 DEF Waiting
  <2> QED
    BY <1>18, <2>1, CallsAreModest, EndsAreModest, ShortScriptsAreModest
       DEF HoldsKey
<1>19. CASE p.w = "complexarg"
  <2>1. Waiting(p, h) = ComplexArg(p, h)
    BY <1>19 DEF Waiting
  <2> QED
    BY <1>19, <2>1, CallsAreModest, EndsAreModest, ShortScriptsAreModest
       DEF ComplexArg
<1>20. CASE p.w = "ownidentity"
  <2>1. Waiting(p, h) = OwnIdentity(p, h)
    BY <1>20 DEF Waiting
  <2> QED
    BY <1>20, <2>1, CallsAreModest, EndsAreModest, ShortScriptsAreModest
       DEF OwnIdentity
<1>21. CASE p.w = "versionone"
  <2>1. Waiting(p, h) = VersionOne(p, h)
    BY <1>21 DEF Waiting
  <2> QED
    BY <1>21, <2>1, CallsAreModest, EndsAreModest, ShortScriptsAreModest
       DEF VersionOne
<1>22. CASE p.w = "versiontwo"
  <2>1. Waiting(p, h) = VersionTwo(p, h)
    BY <1>22 DEF Waiting
  <2> QED
    BY <1>22, <2>1, CallsAreModest, EndsAreModest, ShortScriptsAreModest
       DEF VersionTwo
<1>23. CASE p.w = "minversion"
  <2>1. Waiting(p, h) = MinVersion(p, h)
    BY <1>23 DEF Waiting
  <2> QED
    BY <1>23, <2>1, CallsAreModest, EndsAreModest, ShortScriptsAreModest
       DEF MinVersion
<1>24. CASE p.w = "crontarget"
  <2>1. Waiting(p, h) = CronTarget(p, h)
    BY <1>24 DEF Waiting
  <2> QED
    BY <1>24, <2>1, CallsAreModest, EndsAreModest, ShortScriptsAreModest
       DEF CronTarget
<1>25. CASE p.w = "prioritymark"
  <2>1. Waiting(p, h) = PriorityMark(p, h)
    BY <1>25 DEF Waiting
  <2> QED
    BY <1>25, <2>1, CallsAreModest, EndsAreModest, ShortScriptsAreModest
       DEF PriorityMark
<1>26. CASE p.w = "plugincall"
  <2>1. Waiting(p, h) = PluginCall(p, h)
    BY <1>26 DEF Waiting
  <2> QED
    BY <1>26, <2>1, CallsAreModest, EndsAreModest, ShortScriptsAreModest
       DEF PluginCall
<1>27. CASE p.w = "cronscheduler"
  <2>1. Waiting(p, h) = CronScheduler(p, h)
    BY <1>27 DEF Waiting
  <2> QED
    BY <1>27, <2>1, CallsAreModest, EndsAreModest, ShortScriptsAreModest
       DEF CronScheduler
<1>28. CASE p.w = "scheduleinvoke"
  <2>1. Waiting(p, h) = ScheduledInvoke(p, h)
    BY <1>28 DEF Waiting
  <2> QED
    BY <1>28, <2>1, CallsAreModest, EndsAreModest, ShortScriptsAreModest
       DEF ScheduledInvoke
<1>29. CASE p.w = "parallelunit"
  <2>1. Waiting(p, h) = ParallelUnit(p, h)
    BY <1>29 DEF Waiting
  <2> QED
    BY <1>29, <2>1, CallsAreModest, EndsAreModest, ShortScriptsAreModest
       DEF ParallelUnit
<1>30. CASE p.w = "replay"
  <2>1. Waiting(p, h) = ReplayIdentity(p, h)
    BY <1>30 DEF Waiting
  <2> QED
    BY <1>30, <2>1, CallsAreModest, EndsAreModest, ShortScriptsAreModest
       DEF ReplayIdentity
<1>31. CASE p.w = "observerun"
  <2>1. Waiting(p, h) = ObserveRun(p, h)
    BY <1>31 DEF Waiting
  <2> QED
    BY <1>31, <2>1, CallsAreModest, EndsAreModest, ShortScriptsAreModest
       DEF ObserveRun
<1>32. CASE p.w = "childpriority"
  <2>1. Waiting(p, h) = ChildPriority(p, h)
    BY <1>32 DEF Waiting
  <2> QED
    BY <1>32, <2>1, CallsAreModest, EndsAreModest, ShortScriptsAreModest
       DEF ChildPriority
<1>33. CASE p.w = "cansignal"
  <2> DEFINE next == [p EXCEPT !.second = TRUE]
  <2>1. Waiting(p, h) = CanSignal(p, h)
    BY <1>33 DEF Waiting
  <2>2. IsTime(p.timeout) /\ p.w \notin UpdatedGuests
    BY <1>33 DEF IsWaiter, TimedGuests, UpdatedGuests
  <2>3. IsWaiter(next)
    BY <1>33 DEF IsWaiter, TimedGuests, BudgetedGuests, LockGuests
  <2> HIDE DEF next
  <2>4. Modest(p, Continue(next))
    BY <2>3 DEF Modest, Continue
  <2> QED
    BY <2>1, <2>2, <2>4, CallsAreModest, EndsAreModest, ShortScriptsAreModest DEF CanSignal, next
<1>34. CASE p.w = "selectorrace"
  <2>1. Waiting(p, h) = SelectorRace(p, h)
    BY <1>34 DEF Waiting
  <2> PICK S : S = ToSet(p.timers)
    OBVIOUS
  <2>2. S \in SUBSET Nat /\ S # {} /\ \A d \in S : IsTime(d)
    BY <1>34 DEF IsWaiter, IsTime
  <2>3. IsTime(Min(S))
    BY <2>2, LeastExists
  <2> QED
    BY <2>1, <2>3, CallsAreModest, EndsAreModest DEF SelectorRace
<1>35. CASE p.w = "idreuse"
  <2>1. Waiting(p, h) = IdReuse(p, h)
    BY <1>35 DEF Waiting
  <2>2. AllModest(p, <<Sleep>>) /\ AllModest(p, <<>>)
    BY CallsAreModest, TuplesAreModest, EmptySeq DEF AllModest, IsSeq
  <2> QED
    BY <2>1, <2>2, EndsAreModest, ScriptIsModest DEF IdReuse
<1>36. CASE p.w = "updates"
  <2> DEFINE s == [i \in 1..p.slices |-> AwaitSignals({"never"}, 1)]
  <2>1. Waiting(p, h) = Script(s, Return("finished"), h)
    BY <1>36 DEF Waiting, Updates
  <2>2. Modest(p, AwaitSignals({"never"}, 1)) /\ p.slices \in Nat
    BY <1>36, CallsAreModest DEF IsTime, IsWaiter
  <2>3. AllModest(p, s)
    BY <2>2, TablesAreModest
  <2> QED
    BY <2>1, <2>3, EndsAreModest, ScriptIsModest
<1>37. CASE p.w = "querytarget"
  <2> DEFINE s == [i \in 1..p.steps |-> SleepFor(p.length)]
  <2>1. Waiting(p, h) = Script(s, Return("finished"), h)
    BY <1>37 DEF Waiting, QueryTarget
  <2>2. Modest(p, SleepFor(p.length)) /\ p.steps \in Nat
    BY <1>37, CallsAreModest DEF IsWaiter
  <2>3. AllModest(p, s)
    BY <2>2, TablesAreModest
  <2> QED
    BY <2>1, <2>3, EndsAreModest, ScriptIsModest
<1>38. CASE p.w = "pluginstream"
  <2> DEFINE s == [i \in 1..p.events |-> Note("event")]
  <2>1. Waiting(p, h) = Propagating(<<Call("chat_stream")>> \o s, h)
    BY <1>38 DEF Waiting, PluginStream
  <2>2. Modest(p, Note("event")) /\ Modest(p, Call("chat_stream")) /\ p.events \in Nat
    BY <1>38, CallsAreModest DEF IsWaiter
  <2>3. AllModest(p, s) /\ AllModest(p, <<Call("chat_stream")>>)
    BY <2>2, TablesAreModest, TuplesAreModest
  <2>4. AllModest(p, <<Call("chat_stream")>> \o s)
    BY <2>3, JoinsAreModest
  <2> QED
    BY <2>1, <2>4, PropagatingIsModest
<1>39. CASE p.w = "determinism"
  <2> DEFINE s == [i \in 1..5 |-> Note(<<"anchor", "r1", "r2", "workflow", "run">>[i])]
  <2>1. Waiting(p, h) = Propagating(s \o <<Sleep>>, h)
    BY <1>39 DEF Waiting, Determinism
  <2>2. Modest(p, Sleep) /\ \A t : Modest(p, Note(t))
    BY CallsAreModest
  <2>3. \A i \in 1..5 : Modest(p, s[i])
    BY <2>2
  <2>4. AllModest(p, s) /\ AllModest(p, <<Sleep>>)
    BY <2>2, <2>3, TablesAreModest, TuplesAreModest
  <2>5. AllModest(p, s \o <<Sleep>>)
    BY <2>4, JoinsAreModest
  <2> QED
    BY <2>1, <2>5, PropagatingIsModest
<1>40. CASE p.w = "childleaf"
  <2>1. Waiting(p, h) = Body(p, h)
    BY <1>40 DEF Waiting
  <2>2. Body(p, h) = ChildLeaf(p, h)
    BY <1>40 DEF Body
  <2> QED
    BY <2>1, <2>2, CallsAreModest, EndsAreModest, ShortScriptsAreModest DEF ChildLeaf
<1> QED
  BY <1>1, <1>2, <1>3, <1>4, <1>5, <1>6, <1>7, <1>8, <1>9, <1>10, <1>11, <1>12, <1>13, <1>14,
     <1>15, <1>16, <1>17, <1>18, <1>19, <1>20, <1>21, <1>22, <1>23, <1>24, <1>25, <1>26, <1>27,
     <1>28, <1>29, <1>30, <1>31, <1>32, <1>33, <1>34, <1>35, <1>36, <1>37, <1>38, <1>39, <1>40
     DEF IsWaiter, TimedGuests, BudgetedGuests, LockGuests, OtherGuests
-----------------------------------------------------------------------------
(* The guests that wait for promises: they have created them.              *)

Created(p, b) ==
    /\ p.w = "promiseparent" /\ b # <<>> => b[1].op = "create"
    /\ p.w = "promisechain" =>
          /\ Len(b) <= 2 * p.count
          /\ \A i \in 1..Len(b) : i <= p.count => b[i].op = "create"

AwaitsOne(b, c) ==
    /\ c.op = "awaitpromise"
    /\ IsTime(c.timeout)
    /\ \E i \in 1..Len(b) : b[i].op = "create" /\ b[i].run = c.promise

Careful(p, b, c) == Modest(p, c) \/ AwaitsOne(b, c)

LEMMA ParentsAreCareful ==
    ASSUME NEW p, p.w = "promiseparent", IsWaiter(p), NEW b, IsSeq(b), Created(p, b)
    PROVE  /\ Careful(p, b, Waiting(p, b))
           /\ b = <<>> => Waiting(p, b).op = "create"
<1> DEFINE made  == [w |-> "promisesettler", promise |-> Kid(b, 1), mode |-> p.mode]
           child == IF p.mode = "timeout" THEN <<>> ELSE <<Child(made)>>
           wait  == AwaitPromise(Kid(b, 1), p.timeout)
           calls == <<CreatePromise>> \o child \o <<wait>>
<1>1. Waiting(p, b) \in {Return("timedout"), Return("error"), Script(calls, Return("resolved"), b)}
  BY DEF Waiting, PromiseParent
<1>2. ~TimedOut(b) /\ ~Failed(b) => Waiting(p, b) = Script(calls, Return("resolved"), b)
  BY DEF Waiting, PromiseParent
<1>3. Modest(p, Child(made)) /\ Modest(p, CreatePromise)
  <2>1. IsWaiter(made)
    BY DEF IsWaiter, OtherGuests, TimedGuests, BudgetedGuests, LockGuests
  <2> QED
    BY <2>1, CallsAreModest DEF Modest, Child, ChildUnder
<1>4. AllModest(p, child) /\ AllModest(p, <<CreatePromise>>)
  <2>1. AllModest(p, <<>>)
    BY EmptySeq DEF AllModest, IsSeq
  <2> QED
    BY <1>3, <2>1, TuplesAreModest
<1> HIDE DEF made, child
<1> DEFINE head == <<CreatePromise>> \o child
<1>5. /\ AllModest(p, head) /\ Len(head) \in Nat \ {0} /\ head[1] = CreatePromise
  <2>1. Len(<<CreatePromise>>) = 1 /\ <<CreatePromise>>[1] = CreatePromise
    OBVIOUS
  <2>2. IsSeq(<<CreatePromise>>) /\ IsSeq(child) /\ AllModest(p, head)
    BY <1>4, JoinsAreModest DEF AllModest
  <2>3. /\ Len(child) \in Nat /\ Len(head) = 1 + Len(child)
        /\ \A i \in 1..Len(head) : i <= 1 => head[i] = <<CreatePromise>>[i]
    BY <2>1, <2>2, Joins
  <2> HIDE DEF head
  <2>4. 1 \in 1..Len(head)
    BY <2>3
  <2> QED
    BY <2>1, <2>2, <2>3, <2>4
<1> HIDE DEF wait
<1>6. /\ Len(calls) = Len(head) + 1
      /\ \A i \in 1..Len(calls) : calls[i] = IF i <= Len(head) THEN head[i] ELSE wait
  <2>1. IsSeq(<<wait>>) /\ Len(<<wait>>) = 1 /\ <<wait>>[1] = wait
    BY TuplesOfCalls
  <2> HIDE DEF head
  <2>2. /\ Len(head \o <<wait>>) = Len(head) + 1
        /\ \A i \in 1..Len(head \o <<wait>>) :
              (head \o <<wait>>)[i] = IF i <= Len(head) THEN head[i] ELSE <<wait>>[i - Len(head)]
    BY <1>5, <2>1, Joins DEF AllModest
  <2>3. \A i \in 1..Len(head) + 1 : ~(i <= Len(head)) => i - Len(head) = 1
    BY <1>5
  <2> QED
    BY <2>1, <2>2, <2>3 DEF head
<1> HIDE DEF head, calls
<1>7. Len(b) \in Nat /\ DOMAIN b = 1..Len(b)
  BY LenProperties DEF IsSeq
<1>8. Modest(p, Return("timedout")) /\ Modest(p, Return("error")) /\ Modest(p, Return("resolved"))
  BY EndsAreModest
<1>9. ASSUME Waiting(p, b) = Script(calls, Return("resolved"), b)
      PROVE  Careful(p, b, Waiting(p, b))
  <2>1. CASE Len(b) < Len(head)
    <3>1. Waiting(p, b) = head[Len(b) + 1] /\ Len(b) + 1 \in 1..Len(head)
      BY <1>5, <1>6, <1>7, <1>9, <2>1 DEF Script
    <3>2. Modest(p, head[Len(b) + 1])
      BY <1>5, <3>1 DEF AllModest
    <3> QED
      BY <3>1, <3>2 DEF Careful
  <2>2. CASE Len(b) = Len(head)
    <3>1. Waiting(p, b) = wait
      BY <1>5, <1>6, <1>7, <1>9, <2>2 DEF Script
    <3>2. b # <<>> /\ 1 \in 1..Len(b) /\ b[1].op = "create" /\ Kid(b, 1) = b[1].run
      <4>1. 1 \in 1..Len(b)
        BY <1>5, <2>2
      <4>2. b # <<>>
        BY <4>1, <1>7, EmptySeq
      <4> QED
        BY <1>7, <4>1, <4>2 DEF Created, Kid
    <3>3. IsTime(p.timeout)
      BY DEF IsWaiter, TimedGuests
    <3> QED
      BY <3>1, <3>2, <3>3 DEF Careful, AwaitsOne, wait, AwaitPromise
  <2>3. CASE Len(b) > Len(head)
    BY <1>5, <1>6, <1>7, <1>8, <1>9, <2>3 DEF Script, Careful
  <2> QED
    BY <1>5, <1>7, <2>1, <2>2, <2>3
<1>10. ASSUME b = <<>> PROVE Waiting(p, b).op = "create"
  <2>1. Len(b) = 0
    BY <1>10, EmptySeq
  <2>2. ~TimedOut(b) /\ ~Failed(b)
    BY <1>7, <1>10, <2>1 DEF TimedOut, Failed
  <2>3. Waiting(p, b) = CreatePromise
    BY <1>2, <1>5, <1>6, <2>1, <2>2 DEF Script
  <2> QED
    BY <2>3 DEF CreatePromise
<1> QED
  BY <1>1, <1>8, <1>9, <1>10 DEF Careful

\* What such a guest hears next leaves its promises where they are.
LEMMA CreatedGrows ==
    ASSUME NEW p, IsWaiter(p), NEW b, IsSeq(b), Created(p, b),
           NEW e, e.op = Waiting(p, b).op, e.op \notin {"return", "fail"}
    PROVE  Created(p, Append(b, e))
<1> PICK g : g = Append(b, e)
  OBVIOUS
<1>1. /\ IsSeq(g) /\ Len(b) \in Nat /\ Len(g) = Len(b) + 1
      /\ \A i \in 1..Len(b) : g[i] = b[i]
      /\ g[Len(b) + 1] = e
  BY Grows
<1>2. ASSUME p.w = "promiseparent" PROVE g[1].op = "create"
  <2>1. CASE b = <<>>
    <3>1. Len(b) = 0
      BY <2>1, EmptySeq
    <3> QED
      BY <1>1, <1>2, <2>1, <3>1, ParentsAreCareful
  <2>2. CASE b # <<>>
    <3>1. Len(b) # 0
      BY <1>1, <2>2, EmptySeq DEF IsSeq
    <3>2. 1 \in 1..Len(b)
      BY <1>1, <3>1
    <3> QED
      BY <1>1, <1>2, <2>2, <3>2 DEF Created
  <2> QED
    BY <2>1, <2>2
<1>3. ASSUME p.w = "promisechain"
      PROVE  /\ Len(g) <= 2 * p.count
             /\ \A i \in 1..Len(g) : i <= p.count => g[i].op = "create"
  <2>1. p.count \in Nat \ {0} /\ Waiting(p, b) = PromiseChain(p, b)
    BY <1>3 DEF IsWaiter, Waiting
  <2>2. Len(b) <= 2 * p.count /\ \A i \in 1..Len(b) : i <= p.count => b[i].op = "create"
    BY <1>3 DEF Created
  <2>3. Len(b) < p.count => e.op = "create"
    BY <2>1 DEF PromiseChain, CreatePromise
  <2>4. Len(b) # 2 * p.count
    <3> SUFFICES ASSUME Len(b) = 2 * p.count PROVE FALSE
      OBVIOUS
    <3>1. ~(Len(b) < p.count)
      BY <2>1
    <3>2. Waiting(p, b) \in {Return("timedout"), Wrapped, Return("resolved")}
      BY <2>1, <3>1 DEF PromiseChain
    <3> QED
      BY <3>2 DEF Return, Wrapped
  <2> QED
    BY <1>1, <2>1, <2>2, <2>3, <2>4
<1> QED
  BY <1>2, <1>3 DEF Created

\* A guest with a budget.
LEMMA BudgetedAreCareful ==
    ASSUME NEW p, p.w \in BudgetedGuests, IsWaiter(p), NEW b, IsSeq(b), Created(p, b),
           NEW t, Clocked(b, t)
    PROVE  Careful(p, b, Waiting(p, b))
<1> PICK c : c = Waiting(p, b)
  OBVIOUS
<1>1. Budgeted(p) /\ p.budget \in Nat
  BY DEF IsWaiter, Budgeted, BudgetedGuests
<1>2. Len(b) \in Nat
  BY LenProperties DEF IsSeq
<1>3. /\ c.op \in TimedOps \cup {"return", "fail"}
      /\ Waits(c) =>
            /\ Len(b) + 1 >= Opening(p)
            /\ ~(c.timeout <= 0)
            /\ b = <<>> => c.timeout = p.budget /\ p.w # "promisechain"
            /\ b # <<>> => c.timeout = p.budget - (Last(b).at - StartOf(p, b))
  BY <1>1, AsksWithinBudget
<1>4. Waits(c) => IsTime(c.timeout)
  <2> SUFFICES ASSUME Waits(c) PROVE IsTime(c.timeout)
    OBVIOUS
  <2>1. CASE b = <<>>
    BY <1>1, <1>3, <2>1 DEF IsTime
  <2>2. CASE b # <<>>
    <3>1. Len(b) \in 1..Len(b) /\ 1 \in 1..Len(b)
      BY <1>2, <2>2, EmptySeq DEF IsSeq
    <3>2. Last(b).at \in Nat
      BY <3>1 DEF Last, Clocked
    <3>3. StartOf(p, b) \in Nat
      <4>1. CASE p.w = "promisechain"
        <5>1. p.count \in 1..Len(b)
          BY <1>1, <1>2, <1>3, <4>1 DEF Budgeted, Opening
        <5> QED
          BY <4>1, <5>1 DEF StartOf, Clocked
      <4>2. CASE p.w # "promisechain"
        BY <3>1, <4>2 DEF StartOf, Clocked
      <4> QED
        BY <4>1, <4>2
    <3> QED
      BY <1>1, <1>3, <2>2, <3>2, <3>3 DEF IsTime
  <2> QED
    BY <2>1, <2>2
<1>5. CASE c.op # "awaitpromise"
  <2>1. c.op = "recv" => IsTime(c.timeout)
    BY <1>4 DEF Waits
  <2>2. p.w \notin UpdatedGuests
    BY DEF UpdatedGuests, BudgetedGuests
  <2> QED
    BY <1>3, <1>5, <2>1, <2>2 DEF Careful, Modest, TimedOps
<1>6. CASE c.op = "awaitpromise"
  <2>1. p.w = "promisechain"
    BY <1>6 DEF BudgetedGuests, Waiting, AwaitEverySignal, AwaitEveryName, SignalCounter,
                Return, AwaitSignals, Receive
  <2>2. p.count \in Nat \ {0} /\ c = PromiseChain(p, b)
    BY <2>1 DEF IsWaiter, Waiting
  <2>3. ~(Len(b) < p.count)
    BY <1>6, <2>2 DEF PromiseChain, CreatePromise
  <2> DEFINE i == Len(b) - p.count + 1
  <2>4. c.promise = b[i].run
    BY <1>6, <2>2, <2>3 DEF PromiseChain, Return, Wrapped, AwaitPromise
  <2>5. Len(b) # 2 * p.count
    <3> SUFFICES ASSUME Len(b) = 2 * p.count PROVE FALSE
      OBVIOUS
    <3>1. c \in {Return("timedout"), Wrapped, Return("resolved")}
      BY <2>2, <2>3 DEF PromiseChain
    <3> QED
      BY <1>6, <3>1 DEF Return, Wrapped
  <2>6. Len(b) <= 2 * p.count
    BY <2>1 DEF Created
  <2>7. i \in 1..Len(b) /\ i <= p.count
    BY <1>2, <2>2, <2>3, <2>5, <2>6
  <2>8. b[i].op = "create"
    BY <2>1, <2>7 DEF Created
  <2> QED
    BY <1>4, <1>6, <2>4, <2>7, <2>8 DEF Careful, AwaitsOne, Waits
<1> QED
  BY <1>5, <1>6

LEMMA EverybodyIsCareful ==
    ASSUME NEW p, IsWaiter(p), NEW b, IsSeq(b), Created(p, b),
           NEW t, p.w \in BudgetedGuests => Clocked(b, t)
    PROVE  Careful(p, b, Waiting(p, b))
BY WaitersAreModest, ParentsAreCareful, BudgetedAreCareful DEF Careful

\* An event of the body is one of the history.
LEMMA BodyIsOfHistory ==
    ASSUME NEW h, IsSeq(h), NEW n \in 1..Len(WithoutUpdates(h))
    PROVE  \E i \in DOMAIN h : h[i] = WithoutUpdates(h)[n]
<1> DEFINE S == Own(h)
           Nth(k) == CHOOSE i \in S : Cardinality(UpTo(S, i)) = k
<1>1. Len(h) \in Nat /\ DOMAIN h = 1..Len(h)
  BY LenProperties DEF IsSeq
<1>2. S \in SUBSET (1..Len(h))
  BY <1>1 DEF Own
<1>3. WithoutUpdates(h) = [k \in 1..Cardinality(S) |-> h[Nth(k)]]
  BY WithoutUpdatesIs
<1>4. DOMAIN WithoutUpdates(h) = 1..Len(WithoutUpdates(h))
  <2>1. IsSeq(WithoutUpdates(h))
    BY UpdatesAreLeftOut
  <2> QED
    BY <2>1, LenProperties DEF IsSeq
<1> HIDE DEF S
<1>5. n \in 1..Cardinality(S)
  BY <1>3, <1>4
<1>6. Nth(n) \in S
  BY <1>1, <1>2, <1>5, PlacesAreTaken
<1>7. WithoutUpdates(h)[n] = h[Nth(n)]
  BY <1>3, <1>5
<1> QED
  BY <1>1, <1>2, <1>6, <1>7
-----------------------------------------------------------------------------
(* What a step does to the program and to the suspension of a run.         *)

Kin(q) ==
    \/ Born(q)
    \/ /\ runs'[q].prog = runs[q].prog
       /\ runs'[q].status = "absent" <=> runs[q].status = "absent"

Sits(q) ==
    runs'[q].status = "parked" =>
        \/ runs[q].status = "parked" /\ Same(q) /\ runs'[q].until = runs[q].until
        \/ Executing(q) /\ Parks(q)

LEMMA PerformSits ==
    ASSUME Table, NEW r \in RunIds, NEW c, c = Asks(r), Perform(r, c), NEW q \in RunIds
    PROVE  Sits(q)
<1> USE DEF Table, IsRow, Fields, Sits, Same
<1>1. CASE MakeCall(r, c) \/ RefuseCall(r, c)
  BY <1>1 DEF MakeCall, RefuseCall
<1>2. ASSUME NEW e, Record(r, e) PROVE Sits(q)
  BY <1>2 DEF Record
<1>3. CASE RecordCall(r, c) \/ RecordSend(r, c) \/ RecordLocal(r, c) \/ RecordChild(r, c)
             \/ AwaitAnswered(r, c)
  BY <1>2, <1>3 DEF RecordCall, RecordSend, RecordLocal, RecordChild, AwaitAnswered
<1>4. CASE SleepBegins(r, c) \/ AwaitSuspends(r, c)
  BY <1>4 DEF SleepBegins, AwaitSuspends
<1>5. CASE InsertChild(r, c)
  <2>1. PICK n, p, parent, policy : runs' = [runs EXCEPT ![n] = Fresh(p, parent, policy, 0)]
    BY <1>5 DEF InsertChild
  <2> QED
    BY <2>1 DEF Fresh, Absent
<1>6. CASE ContinueRun(r, c)
  <2>1. PICK n \in RunIds : n = NewId
    BY <1>6, NewIdIsAbsent DEF ContinueRun
  <2>2. PICK p, parent, policy, from :
          runs' = [runs EXCEPT ![r].status = "done", ![r].result = "continued",
                               ![r].holds = FALSE,
                               ![n] = Fresh(p, parent, policy, from)]
    BY <1>6, <2>1 DEF ContinueRun
  <2>3. q # n => runs'[q].status = "done" \/ runs'[q] = runs[q]
    BY <2>2
  <2>4. runs'[n].status = "ready"
    BY <2>2 DEF Fresh, Absent
  <2> QED
    BY <2>3, <2>4
<1>7. CASE Finish(r, c)
  <2>1. q = r => runs'[q].status \in Terminal
    BY <1>7 DEF Finish, FinalStatus, Terminal
  <2>2. q # r => /\ runs'[q].status \in {"terminated", runs[q].status}
                 /\ Same(q) /\ runs'[q].until = runs[q].until
    BY <1>7 DEF Finish
  <2> QED
    BY <2>1, <2>2 DEF Terminal
<1> QED
  BY <1>1, <1>3, <1>4, <1>5, <1>6, <1>7 DEF Perform

LEMMA EngineSits == ASSUME Table, Next, NEW q \in RunIds PROVE Sits(q)
<1> USE DEF Table, IsRow, Fields, Sits, Same
<1>1. ASSUME NEW r \in RunIds, NEW w \in Workers, Claim(r, w) PROVE Sits(q)
  BY <1>1 DEF Claim
<1>2. ASSUME NEW r \in RunIds, SleepEnds(r) \/ ChildWakes(r) \/ Reap(r) PROVE Sits(q)
  BY <1>2 DEF SleepEnds, ChildWakes, Reap
<1>3. ASSUME NEW r \in RunIds, RequestCancel(r) \/ CancelPropagates(r) PROVE Sits(q)
  BY <1>3 DEF RequestCancel, CancelPropagates
<1>4. ASSUME UNCHANGED runs PROVE Sits(q)
  BY <1>4
<1>5. ASSUME \/ \E r \in RunIds : FenceLost(r)
             \/ \E s \in outbox : Dispatch(s)
             \/ \E w \in Workers : Crash(w)
             \/ Tick
      PROVE  Sits(q)
  BY <1>4, <1>5 DEF FenceLost, Dispatch, Crash, Tick
<1> QED
  BY <1>1, <1>2, <1>3, <1>5, PerformSits DEF Next, Progress

LEMMA EngineKin == ASSUME Table, Next, NEW q \in RunIds PROVE Kin(q)
<1>1. CASE Born(q)
  BY <1>1 DEF Kin
<1>2. CASE Went(q)
  <2>1. runs'[q].prog = runs[q].prog /\ runs[q].status # "absent"
    BY <1>2 DEF Went, Keeps
  <2>2. runs'[q].status # "absent"
    BY <1>2, <2>1 DEF Went, Spoke, Returned, FinalStatus, Continued, Swept, Warned, Moved,
                      Ongoing, Keeps
  <2> QED
    BY <2>1, <2>2 DEF Kin
<1>3. CASE runs'[q] = runs[q]
  BY <1>3 DEF Kin
<1> QED
  BY <1>1, <1>2, <1>3, EngineRows DEF Evolves

LEMMA WokenIsKin ==
    ASSUME Table, NEW q \in RunIds, WokenAtMost(q) PROVE Kin(q) /\ Sits(q)
BY DEF WokenAtMost, Table, IsRow, Fields, Kin, Sits, Same

LEMMA MailKin ==
    ASSUME Table, NEW r \in RunIds, NEW c, c = Asks(r), Executing(r), MailStep(r, c),
           NEW q \in RunIds
    PROVE  Kin(q) /\ Sits(q)
<1> USE DEF Table, IsRow, Fields
<1>1. ASSUME NEW op, NEW tag, NEW res, NEW n, RecordAnswer(r, op, tag, res, n)
      PROVE  Kin(q) /\ Sits(q)
  <2>1. /\ runs[r].status = "running"
        /\ \E e : runs' = [runs EXCEPT ![r].hist = Append(@, e), ![r].since = 0, ![r].until = 0]
    BY <1>1 DEF RecordAnswer
  <2>2. /\ runs'[r].status = "running" /\ runs'[r].prog = runs[r].prog
        /\ q # r => runs'[q] = runs[q]
    BY <2>1
  <2> QED
    BY <2>1, <2>2 DEF Kin, Sits, Same
<1>2. CASE HearSignal(r, c) \/ HearPromise(r, c) \/ HearTimeout(r, c) \/ RecordSignal(r, c)
             \/ PollForSignal(r, c) \/ MakePromise(r, c) \/ RecordSettlement(r, c)
             \/ TakeLock(r, c) \/ FreeLock(r, c) \/ TakeNote(r, c) \/ Schedule(r, c)
  <2>1. \E op, tag, res, n : RecordAnswer(r, op, tag, res, n)
    BY <1>2 DEF HearSignal, HearPromise, HearTimeout, RecordSignal, PollForSignal, MakePromise,
                RecordSettlement, TakeLock, FreeLock, TakeNote, Schedule
  <2> QED
    BY <1>1, <2>1
<1>3. CASE FindNothing(r, c) \/ UpdatesDrained(r, c) \/ SendSignal(r, c) \/ SettlePromise(r, c)
  <2>1. WokenAtMost(q)
    BY <1>3 DEF FindNothing, UpdatesDrained, SendSignal, SettlePromise, SettleAndWake, Deliver,
                Woken, WokenAtMost
  <2> QED
    BY <2>1, WokenIsKin
<1>4. CASE Park(r, c)
  BY <1>4 DEF Park, Kin, Sits, Parks, Same
<1>5. CASE HandleUpdate(r, c)
  <2>1. \E e : Record(r, e)
    BY <1>5 DEF HandleUpdate
  <2> QED
    BY <2>1 DEF Record, Kin, Sits, Same
<1> QED
  BY <1>2, <1>3, <1>4, <1>5 DEF MailStep

LEMMA StepKin ==
    ASSUME Table, [MailNext]_allVars, NEW q \in RunIds
    PROVE  Kin(q) /\ Sits(q)
<1>1. CASE Next
  BY <1>1, EngineKin, EngineSits
<1>2. ASSUME NEW r \in RunIds, TimerFires(r) PROVE WokenAtMost(q)
  BY <1>2 DEF TimerFires, WokenAtMost, Table
<1>3. ASSUME \/ \E call \in due : Invoke(call)
             \/ Post
             \/ UNCHANGED allVars
      PROVE  WokenAtMost(q)
  BY <1>3 DEF Invoke, Post, PostSignal, PostSettlement, PostUpdate, Deliver, SettleAndWake, Woken,
              WokenAtMost, allVars, vars
<1> QED
  BY <1>1, <1>2, <1>3, MailKin, WokenIsKin DEF MailNext, MailProgress
-----------------------------------------------------------------------------
(* The invariant.                                                          *)

\* A row in use has a guest of the ports, which has kept to its promises so far.
Programs ==
    \A r \in RunIds :
        IF runs[r].status = "absent" THEN runs[r].prog.w = "none"
        ELSE IsWaiter(runs[r].prog) /\ Created(runs[r].prog, BodyOf(r))

Suspensions ==
    \A r \in RunIds : runs[r].status = "parked" => Waits(Asks(r)) /\ runs[r].until # 0

\* The rows the test began with still have the guests it started.
FirstRows ==
    \A r \in RunIds \cap DOMAIN scenario.starts :
        runs[r].status # "absent" /\ runs[r].prog = scenario.starts[r]

Addressed ==
    \A k \in DOMAIN updates : /\ updates[k].run \in DOMAIN scenario.starts
                              /\ scenario.starts[updates[k].run].w \in UpdatedGuests

Letters ==
    \A r \in RunIds : \A i \in DOMAIN mail[r] :
        mail[r][i] \in [name : SignalNames, n : 0..Len(scenario.posts)]

PInv ==
    /\ BInv /\ Slots /\ Books /\ Programs /\ Suspensions /\ FirstRows /\ Addressed /\ Letters
    /\ missed \subseteq RunIds

LEMMA BodiesAreSeqs == ASSUME PInv, NEW r \in RunIds PROVE IsSeq(BodyOf(r))
BY BodyIsSeq DEF PInv, BInv

LEMMA RunsAreCareful ==
    ASSUME WaitersAreThePorts, PInv, NEW r \in RunIds, runs[r].status # "absent"
    PROVE  IsWaiter(runs[r].prog) /\ Careful(runs[r].prog, BodyOf(r), Asks(r))
<1> PICK p, b : p = runs[r].prog /\ b = BodyOf(r)
  OBVIOUS
<1>1. IsWaiter(p) /\ Created(p, b) /\ IsSeq(b)
  BY BodiesAreSeqs DEF PInv, Programs
<1>2. p.w \in BudgetedGuests => Clocked(b, now)
  <2>1. p.w \in BudgetedGuests => Budgeted(p)
    BY <1>1 DEF IsWaiter, Budgeted, BudgetedGuests
  <2> QED
    BY <2>1 DEF PInv, BInv, Thrift
<1>3. Careful(p, b, Waiting(p, b))
  BY <1>1, <1>2, EverybodyIsCareful
<1> QED
  BY <1>1, <1>3, AsksOfBody

LEMMA PInvIsEnough == ASSUME WaitersAreThePorts, PInv PROVE MailTypeOK
<1>1. TypeOK
  BY SlotsAndBooks DEF PInv
<1>2. ASSUME NEW r \in RunIds
      PROVE  Range(mail[r]) \subseteq [name : SignalNames, n : 0..Len(scenario.posts)]
  BY DEF PInv, Letters, Range
<1>3. ASSUME NEW r \in RunIds, Live(r)
      PROVE  /\ IsWaiter(runs[r].prog)
             /\ Modest(runs[r].prog, Asks(r)) \/ AwaitsOne(BodyOf(r), Asks(r))
  BY <1>3, RunsAreCareful DEF Live, Careful
<1>4. AwaitsItsOwn
  <2> SUFFICES ASSUME NEW r \in RunIds, Live(r), Asks(r).op = "awaitpromise"
               PROVE  \E i \in DOMAIN runs[r].hist : /\ runs[r].hist[i].op = "create"
                                                     /\ runs[r].hist[i].run = Asks(r).promise
    BY DEF AwaitsItsOwn, Events
  <2>1. PICK n \in 1..Len(BodyOf(r)) : /\ BodyOf(r)[n].op = "create"
                                       /\ BodyOf(r)[n].run = Asks(r).promise
    BY <1>3 DEF Modest, AwaitsOne
  <2>2. IsSeq(runs[r].hist)
    BY DEF PInv, BInv, Table, IsRow
  <2>3. PICK i \in DOMAIN runs[r].hist : runs[r].hist[i] = BodyOf(r)[n]
    BY <2>1, <2>2, BodyIsOfHistory DEF BodyOf
  <2> QED
    BY <2>1, <2>3
<1>5. WaitsDispatch
  <2> SUFFICES ASSUME NEW r \in RunIds, Live(r), Pending(r) # {}, Asks(r).op = "recv"
               PROVE  Asks(r).dispatches
    BY DEF WaitsDispatch
  <2>1. runs[r].prog.w \in UpdatedGuests
    BY DEF Pending, PInv, Addressed, FirstRows
  <2> QED
    BY <1>3, <2>1 DEF Modest, AwaitsOne
<1>6. LocksByItsTtl
  <2> SUFFICES ASSUME NEW r \in RunIds, Live(r), Asks(r).op = "lock"
               PROVE  /\ Asks(r).key \in LockKeys
                      /\ Asks(r).ttl = runs[r].prog.ttl /\ Asks(r).ttl \in Nat
    BY DEF LocksByItsTtl
  <2>1. IsWaiter(runs[r].prog) /\ Modest(runs[r].prog, Asks(r))
    BY <1>3 DEF AwaitsOne
  <2> QED
    BY <2>1 DEF Modest, IsWaiter
<1>7. BudgetsAreTimes
  <2> SUFFICES ASSUME NEW r \in RunIds, IsBudgeted(r)
               PROVE  /\ runs[r].prog.budget \in Nat
                      /\ Is(r, "promisechain") => runs[r].prog.count \in Nat \ {0}
    BY DEF BudgetsAreTimes
  <2>1. IsWaiter(runs[r].prog)
    BY DEF PInv, Programs, IsBudgeted, BudgetedGuests
  <2> QED
    BY <2>1 DEF IsWaiter, IsBudgeted, Is
<1> QED
  BY <1>1, <1>2, <1>4, <1>5, <1>6, <1>7 DEF MailTypeOK, PInv, Suspensions

LEMMA InitPInv == MailInit => PInv
<1> SUFFICES ASSUME MailInit PROVE PInv
  OBVIOUS
<1> USE DEF MailInit, Init
<1>1. BInv
  BY InitBInv
<1>2. scenario \in Scenarios
  OBVIOUS
<1>3. ASSUME NEW r \in RunIds
      PROVE  /\ RowOK(runs[r]) /\ HandOK(r) /\ runs[r].hist = <<>>
             /\ runs[r].status \in {"ready", "absent"}
             /\ IF runs[r].status = "absent" THEN runs[r].prog.w = "none"
                ELSE IsWaiter(runs[r].prog)
             /\ r \in DOMAIN scenario.starts =>
                   runs[r].status # "absent" /\ runs[r].prog = scenario.starts[r]
  BY <1>2, TestsStartWaiters DEF Fresh, Absent, RowOK, HandOK, Executing, Idle
<1>4. DOMAIN <<>> = {} /\ Len(<<>>) = 0
  BY EmptySeq, LenProperties, NoUpdateAtFirst
<1>5. Slots
  BY <1>3 DEF Slots
<1>6. Books
  BY CrashesAreBounded DEF Books
<1>7. Programs
  <2>1. \A r \in RunIds : BodyOf(r) = <<>> /\ Len(BodyOf(r)) = 0
    BY <1>3, NoUpdateAtFirst DEF BodyOf
  <2>2. \A p : IsWaiter(p) => Created(p, <<>>)
    BY <1>4 DEF Created, IsWaiter
  <2> QED
    BY <1>3, <2>1, <2>2 DEF Programs
<1>8. Suspensions
  BY <1>3 DEF Suspensions
<1>9. FirstRows
  BY <1>3 DEF FirstRows
<1>10. Addressed /\ Letters
  BY <1>4 DEF Addressed, Letters
<1> QED
  BY <1>1, <1>5, <1>6, <1>7, <1>8, <1>9, <1>10 DEF PInv
-----------------------------------------------------------------------------
(* Every step keeps it.                                                    *)

LEMMA FirstRowsStep ==
    ASSUME PInv, [MailNext]_allVars PROVE FirstRows'
<1> SUFFICES ASSUME NEW r \in RunIds, r \in DOMAIN scenario.starts
             PROVE  runs'[r].status # "absent" /\ runs'[r].prog = scenario.starts[r]
  BY StepKind DEF PInv, BInv, Result, FirstRows
<1>1. runs[r].status # "absent" /\ runs[r].prog = scenario.starts[r]
  BY DEF PInv, FirstRows
<1>2. ~Born(r)
  BY <1>1, NewIdIsAbsent DEF Born
<1> QED
  BY <1>1, <1>2, StepKin DEF PInv, BInv, Kin

LEMMA AddressedStep ==
    ASSUME PInv, [MailNext]_allVars PROVE Addressed'
<1>1. Table /\ Boxes /\ scenario' = scenario /\ scenario \in Scenarios
  BY StepKind DEF PInv, BInv, Result, Table
<1>2. CASE UNCHANGED updates
  BY <1>1, <1>2 DEF PInv, Addressed
<1>3. ASSUME NEW k \in DOMAIN updates, Settles(k) PROVE Addressed'
  <2>1. /\ DOMAIN updates' = DOMAIN updates
        /\ \A i \in DOMAIN updates : updates'[i].run = updates[i].run
    BY <1>1, <1>3 DEF Settles, Boxes
  <2> QED
    BY <1>1, <2>1 DEF PInv, Addressed
<1>4. ASSUME NEW u, Accepts(u) PROVE Addressed'
  <2>1. posted + 1 \in DOMAIN scenario.posts
    BY <1>1, <1>4, TestsStartWaiters DEF Accepts, Boxes
  <2>2. u.run \in DOMAIN scenario.starts /\ scenario.starts[u.run].w \in UpdatedGuests
    BY <1>1, <1>4, <2>1, TestsStartWaiters DEF Accepts
  <2>3. /\ Len(updates) \in Nat
        /\ DOMAIN updates = 1..Len(updates) /\ DOMAIN updates' = 1..Len(updates) + 1
        /\ \A i \in 1..Len(updates) : updates'[i] = updates[i]
        /\ updates'[Len(updates) + 1] = u
    BY <1>1, <1>4, Grows DEF Accepts, Boxes
  <2>4. \A i \in DOMAIN updates' : updates'[i].run = u.run \/ (i \in DOMAIN updates /\ updates'[i] = updates[i])
    BY <2>3
  <2> QED
    BY <1>1, <2>2, <2>4 DEF PInv, Addressed
<1> QED
  BY <1>1, <1>2, <1>3, <1>4, UpdatesChange

LEMMA ProgramsStep ==
    ASSUME WaitersAreThePorts, PInv, [MailNext]_allVars PROVE Programs'
<1> SUFFICES ASSUME NEW q \in RunIds
             PROVE  IF runs'[q].status = "absent" THEN runs'[q].prog.w = "none"
                    ELSE IsWaiter(runs'[q].prog) /\ Created(runs'[q].prog, WithoutUpdates(runs'[q].hist))
  BY DEF Programs, BodyOf
<1>1. Table /\ IsSeq(runs[q].hist) /\ IsSeq(BodyOf(q))
  BY BodiesAreSeqs DEF PInv, BInv, Table, IsRow
<1>2. CASE Born(q)
  <2>1. PICK r \in RunIds : BornOf(q, r)
    BY <1>2 DEF Born
  <2>2. /\ runs[r].status # "absent"
        /\ Asks(r).op \in {"spawn", "detach", "continue"}
        /\ runs'[q].prog = Asks(r).prog
        /\ runs'[q].hist = <<>>
        /\ runs'[q].status # "absent"
    BY <2>1 DEF BornOf, Segment, Fresh, Absent
  <2>3. IsWaiter(Asks(r).prog)
    BY <2>2, RunsAreCareful DEF Careful, Modest, AwaitsOne
  <2>4. Created(runs'[q].prog, <<>>)
    BY <2>2, <2>3, NoUpdateAtFirst DEF Created, IsWaiter
  <2> QED
    BY <2>2, <2>3, <2>4, NoUpdateAtFirst
<1>3. CASE ~Born(q)
  <2>1. /\ runs'[q].prog = runs[q].prog
        /\ runs'[q].status = "absent" <=> runs[q].status = "absent"
    BY <1>1, <1>3, StepKin DEF Kin
  <2>2. CASE runs[q].status = "absent"
    BY <2>1, <2>2 DEF PInv, Programs
  <2>3. ASSUME runs[q].status # "absent"
        PROVE  Created(runs'[q].prog, WithoutUpdates(runs'[q].hist))
    <3> PICK p, b : p = runs[q].prog /\ b = BodyOf(q)
      OBVIOUS
    <3>1. IsWaiter(p) /\ Created(p, b) /\ IsSeq(b) /\ runs'[q].prog = p
      BY <1>1, <2>1, <2>3 DEF PInv, Programs
    <3>2. CASE Same(q)
      BY <3>1, <3>2 DEF Same, BodyOf
    <3>3. CASE runs'[q].hist = <<>>
      BY <3>1, <3>3, NoUpdateAtFirst DEF Created, IsWaiter
    <3>4. ASSUME NEW e, runs'[q].hist = Append(runs[q].hist, e),
                 e.op = "update" \/ (e.op = Asks(q).op /\ e.op \notin {"return", "fail"})
          PROVE  Created(p, WithoutUpdates(runs'[q].hist))
      <4>1. WithoutUpdates(runs'[q].hist) = IF e.op = "update" THEN b ELSE Append(b, e)
        BY <1>1, <3>4, UpdatesAreLeftOut DEF BodyOf
      <4>2. CASE e.op = "update"
        BY <3>1, <4>1, <4>2
      <4>3. CASE e.op # "update"
        <5>1. e.op = Waiting(p, b).op /\ e.op \notin {"return", "fail"}
          BY <3>4, <4>3, AsksOfBody
        <5> QED
          BY <3>1, <4>1, <4>3, <5>1, CreatedGrows
      <4> QED
        BY <4>2, <4>3
    <3> QED
      BY <1>1, <3>1, <3>2, <3>3, <3>4, StepTimes DEF Times, Rests, Parks, Hears, Handles, Begins
  <2>4. CASE runs[q].status # "absent"
    BY <2>1, <2>3, <2>4 DEF PInv, Programs
  <2> QED
    BY <2>2, <2>4
<1> QED
  BY <1>2, <1>3

LEMMA SuspensionsStep ==
    ASSUME WaitersAreThePorts, PInv, [MailNext]_allVars PROVE Suspensions'
<1> SUFFICES ASSUME NEW q \in RunIds, runs'[q].status = "parked"
             PROVE  Waits(Asks(q))' /\ runs'[q].until # 0
  BY DEF Suspensions, Waits
<1>1. Table /\ now \in Nat /\ scenario \in Scenarios
  BY DEF PInv, BInv, Table
<1>2. Same(q) => Asks(q)' = Asks(q)
  BY DEF Same, Asks
<1>3. CASE runs[q].status = "parked" /\ Same(q) /\ runs'[q].until = runs[q].until
  BY <1>2, <1>3 DEF PInv, Suspensions, Waits
<1>4. CASE Executing(q) /\ Parks(q)
  <2>1. Same(q) /\ Waits(Asks(q)) /\ runs'[q].until = Deadline(q, Asks(q))
    BY <1>4 DEF Parks
  <2>2. runs[q].status # "absent"
    BY <1>4 DEF PInv, Slots, HandOK
  <2>3. IsTime(Asks(q).timeout)
    BY <2>1, <2>2, RunsAreCareful DEF Careful, Modest, AwaitsOne, Waits
  <2>4. scenario.horizon \in Nat /\ scenario.horizon # 0
    BY <1>1, HorizonsAreTimes, TestsStartWaiters
  <2>5. After(now, Asks(q).timeout) # 0
    <3>1. now + Asks(q).timeout \in Nat \ {0}
      BY <1>1, <2>3 DEF IsTime
    <3> QED
      BY <2>4, <3>1, LeastOfTwo DEF After
  <2> QED
    BY <1>2, <2>1, <2>5 DEF Deadline, Waits
<1> QED
  BY <1>1, <1>3, <1>4, StepKin DEF Sits

Letter == [name : SignalNames, n : 0..Len(scenario.posts)]

LEMMA MailChanges ==
    ASSUME WaitersAreThePorts, PInv, [MailNext]_allVars
    PROVE  \/ UNCHANGED mail
           \/ \E to, signal : signal \in Letter /\ mail' = [mail EXCEPT ![to] = Append(@, signal)]
           \/ \E r \in RunIds : \E i \in 1..Len(mail[r]) :
                 mail' = [mail EXCEPT ![r] = RemoveAt(mail[r], i)]
<1> DEFINE Goal == \/ UNCHANGED mail
                   \/ \E to, signal : signal \in Letter /\ mail' = [mail EXCEPT ![to] = Append(@, signal)]
                   \/ \E r \in RunIds : \E i \in 1..Len(mail[r]) :
                         mail' = [mail EXCEPT ![r] = RemoveAt(mail[r], i)]
<1>1. Table /\ Boxes /\ scenario \in Scenarios
  BY DEF PInv, BInv, Table
<1>2. ASSUME NEW r \in RunIds, NEW names, Match(r, names) # 0,
             mail' = [mail EXCEPT ![r] = RemoveAt(mail[r], Match(r, names))]
      PROVE  Goal
  BY <1>1, <1>2, MatchIsFirst DEF Boxes
<1>3. ASSUME NEW r \in RunIds, NEW c, c = Asks(r), Executing(r), MailStep(r, c) PROVE Goal
  <2>1. CASE HearSignal(r, c)
    BY <1>2, <2>1 DEF HearSignal, Answerable
  <2>2. CASE PollForSignal(r, c)
    BY <1>2, <2>2 DEF PollForSignal
  <2>3. CASE SendSignal(r, c)
    <3>1. runs[r].status # "absent"
      BY <1>3 DEF PInv, Slots, HandOK
    <3>2. c.op = "signal" /\ c.name = "go"
      BY <1>3, <2>3, <3>1, RunsAreCareful DEF SendSignal, Careful, Modest, AwaitsOne
    <3>3. Len(scenario.posts) \in Nat
      BY <1>1, TestsStartWaiters
    <3>4. 0 \in 0..Len(scenario.posts)
      <4>1. \A l \in Nat : 0 \in 0..l
        OBVIOUS
      <4> QED
        BY ONLY <3>3, <4>1, Zenon
    <3>5. [name |-> "go", n |-> 0] \in Letter
      BY <3>4 DEF Letter, SignalNames
    <3> QED
      BY <2>3, <3>2, <3>5 DEF SendSignal, Deliver
  <2>4. CASE ~HearSignal(r, c) /\ ~PollForSignal(r, c) /\ ~SendSignal(r, c)
    BY <1>3, <2>4
       DEF MailStep, HearPromise, HearTimeout, FindNothing, Park, RecordSignal, MakePromise,
           SettlePromise, RecordSettlement, TakeLock, FreeLock, HandleUpdate, UpdatesDrained,
           TakeNote, Schedule, MailUnchanged
  <2> QED
    BY <2>1, <2>2, <2>3, <2>4
<1>4. CASE Post
  <2> PICK p : p = scenario.posts[posted + 1]
    OBVIOUS
  <2>1. /\ posted + 1 \in 1..Len(scenario.posts)
        /\ posted + 1 \in DOMAIN scenario.posts
    BY <1>1, <1>4, TestsStartWaiters DEF Post, Boxes
  <2>2. [name |-> p.name, n |-> posted + 1] \in Letter
    BY <1>1, <2>1, TestsStartWaiters DEF Letter, SignalNames
  <2>3. PostSignal(p) \/ PostSettlement(p) \/ PostUpdate(p)
    BY <1>4 DEF Post
  <2> QED
    BY <2>2, <2>3 DEF PostSignal, PostSettlement, PostUpdate, Deliver
<1>5. CASE Next /\ MailUnchanged
  BY <1>5 DEF MailUnchanged
<1>6. CASE (\E r \in RunIds : TimerFires(r)) \/ (\E call \in due : Invoke(call)) \/ UNCHANGED allVars
  BY <1>6 DEF TimerFires, Invoke, MailUnchanged, allVars, mailVars
<1> QED
  BY <1>3, <1>4, <1>5, <1>6 DEF MailNext, MailProgress

LEMMA LettersStep ==
    ASSUME WaitersAreThePorts, PInv, [MailNext]_allVars PROVE Letters'
<1>1. /\ scenario' = scenario
      /\ mail = [r \in RunIds |-> mail[r]] /\ \A r \in RunIds : IsSeq(mail[r])
  BY StepKind DEF PInv, BInv, Result, Boxes
<1> SUFFICES ASSUME NEW q \in RunIds, NEW j \in DOMAIN mail'[q] PROVE mail'[q][j] \in Letter
  BY <1>1 DEF Letters, Letter, SignalNames
<1>2. \A i \in DOMAIN mail[q] : mail[q][i] \in Letter
  BY DEF PInv, Letters, Letter, SignalNames
<1>3. CASE mail'[q] = mail[q]
  BY <1>2, <1>3
<1>4. ASSUME NEW signal \in Letter, mail'[q] = Append(mail[q], signal)
      PROVE  mail'[q][j] \in Letter
  BY <1>1, <1>2, <1>4, Grows
<1>5. ASSUME NEW i \in 1..Len(mail[q]), mail'[q] = RemoveAt(mail[q], i)
      PROVE  mail'[q][j] \in Letter
  <2>1. /\ Len(mail[q]) \in Nat /\ DOMAIN mail[q] = 1..Len(mail[q])
        /\ j \in 1..Len(mail[q]) - 1
        /\ mail'[q][j] = mail[q][IF j < i THEN j ELSE j + 1]
    BY <1>1, <1>5, Shrinks
  <2> QED
    BY <1>2, <2>1
<1> QED
  BY <1>1, <1>3, <1>4, <1>5, MailChanges

LEMMA HistoriesGrow ==
    ASSUME Table, Boxes, [MailNext]_allVars, NEW q \in RunIds
    PROVE  /\ Len(runs[q].hist) \in Nat /\ Len(runs'[q].hist) \in Nat
           /\ Len(runs[q].hist) <= Len(runs'[q].hist)
<1>1. IsSeq(runs[q].hist)
  BY DEF Table, IsRow
<1>2. Len(runs[q].hist) \in Nat
  BY <1>1, LenProperties DEF IsSeq
<1>3. runs'[q].hist = runs[q].hist \/ \E e : runs'[q].hist = Append(runs[q].hist, e)
  BY StepKind, RowStep DEF Silent, Answered
<1> QED
  BY <1>1, <1>2, <1>3, Grows

\* A crash: of what it takes, receipts are dated with it, and dropped sends leave the queue.
LEMMA CrashBooks == ASSUME Table, Slots, Books, NEW w \in Workers, Crash(w) PROVE Books'
<1> DEFINE mine == {r \in RunIds : exec[r].on = w}
           Unheard(r) == {[crash |-> crashes + 1, run |-> r, nth |-> n, tag |-> Asks(r).tag] :
                             n \in 1..exec[r].spent}
           orphaned == {r \in mine : exec[r].child # 0}
           queued == {s \in outbox : s.on = w}
<1>1. /\ crashes < MaxCrashes /\ crashes' = crashes + 1
      /\ lost' = lost \cup UNION {Unheard(r) : r \in mine}
      /\ outbox' = outbox \ queued /\ dropped' = dropped \cup queued
      /\ orphans' = orphans + Cardinality(orphaned)
      /\ runs' = runs /\ cancels' = cancels
  BY DEF Crash
<1>2. crashes \in 0..MaxCrashes /\ MaxCrashes \in Nat /\ crashes' \in 1..MaxCrashes
  BY <1>1, CrashesAreBounded DEF Books
<1>3. \A x \in UNION {Unheard(r) : r \in mine} : x.run \in RunIds /\ x.crash = crashes + 1
  OBVIOUS
<1>4. Cardinality(orphaned) \in Nat
  <2>1. orphaned \in SUBSET RunIds
    OBVIOUS
  <2> HIDE DEF orphaned
  <2> QED
    BY <2>1, RunIdsAreNumbers, FS_Subset, FS_CardinalityType
<1> HIDE DEF Unheard, mine, orphaned
<1>5. \A x \in lost' : x.run \in RunIds /\ x.crash \in 1..crashes'
  BY <1>1, <1>2, <1>3 DEF Books
<1>6. \A s \in outbox' \cup dropped' :
         s.run \in RunIds /\ s.at \in Int /\ s.at <= Len(runs'[s.run].hist)
  BY <1>1 DEF Books
<1>7. \A s \in dropped' : s \notin outbox'
  BY <1>1 DEF Books
<1> QED
  BY <1>1, <1>2, <1>4, <1>5, <1>6, <1>7 DEF Books

LEMMA BooksStep == ASSUME PInv, [MailNext]_allVars PROVE Books'
<1>1. Table /\ Boxes /\ Slots /\ Books
  BY DEF PInv, BInv
<1>2. \A q \in RunIds : /\ Len(runs[q].hist) \in Nat /\ Len(runs'[q].hist) \in Nat
                        /\ Len(runs[q].hist) <= Len(runs'[q].hist)
  BY <1>1, HistoriesGrow
<1>3. ASSUME UNCHANGED <<lost, crashes, orphans, dropped>>, outbox' \subseteq outbox,
             cancels' \subseteq RunIds
      PROVE  Books'
  <2>1. \A s \in outbox' \cup dropped' :
           s.run \in RunIds /\ s.at \in Int /\ s.at <= Len(runs'[s.run].hist)
    BY <1>1, <1>2, <1>3 DEF Books
  <2> QED
    BY <1>1, <1>3, <2>1 DEF Books
<1>4. cancels \subseteq RunIds
  BY <1>1 DEF Books
<1>5. ASSUME NEW r \in RunIds, NEW c, Perform(r, c) PROVE Books'
  <2>1. CASE RecordSend(r, c)
    <3> DEFINE s == [run |-> r, at |-> Len(runs[r].hist) + 1, tag |-> c.tag, on |-> exec[r].on]
    <3>1. /\ outbox' = outbox \cup {s}
          /\ UNCHANGED <<lost, crashes, orphans, dropped, cancels>>
          /\ \E e : runs'[r].hist = Append(runs[r].hist, e)
      BY <1>1, <2>1 DEF RecordSend, Record, Table, IsRow, Fields
    <3>2. Len(runs'[r].hist) = Len(runs[r].hist) + 1
      BY <1>1, <3>1, Grows DEF Table, IsRow
    <3>3. s.run = r /\ s.at = Len(runs[r].hist) + 1
      OBVIOUS
    <3> HIDE DEF s
    <3>4. s \notin dropped
      BY <1>1, <1>2, <3>3 DEF Books
    <3>5. \A x \in outbox' \cup dropped' :
             x.run \in RunIds /\ x.at \in Int /\ x.at <= Len(runs'[x.run].hist)
      <4>1. \A x \in outbox \cup dropped :
               x.run \in RunIds /\ x.at \in Int /\ x.at <= Len(runs'[x.run].hist)
        BY <1>1, <1>2 DEF Books
      <4> QED
        BY <1>2, <3>1, <3>2, <3>3, <4>1
    <3> QED
      BY <1>1, <3>1, <3>4, <3>5 DEF Books
  <2>2. CASE ~RecordSend(r, c)
    BY <1>3, <1>4, <1>5, <2>2
       DEF Perform, MakeCall, RefuseCall, RecordCall, RecordLocal, SleepBegins, InsertChild,
           RecordChild, AwaitAnswered, AwaitSuspends, ContinueRun, Finish
  <2> QED
    BY <2>1, <2>2
<1>6. CASE Next
  <2>1. ASSUME NEW r \in RunIds, RequestCancel(r) PROVE Books'
    BY <1>3, <1>4, <2>1 DEF RequestCancel
  <2>2. ASSUME NEW s \in outbox, Dispatch(s) PROVE Books'
    BY <1>3, <1>4, <2>2 DEF Dispatch
  <2>3. ASSUME NEW r \in RunIds,
               \/ \E w \in Workers : Claim(r, w)
               \/ SleepEnds(r) \/ ChildWakes(r) \/ FenceLost(r) \/ Reap(r) \/ CancelPropagates(r)
               \/ Tick
        PROVE  Books'
    BY <1>3, <1>4, <2>3 DEF Claim, SleepEnds, ChildWakes, FenceLost, Reap, CancelPropagates, Tick
  <2>4. CASE Tick
    BY <1>3, <1>4, <2>4 DEF Tick
  <2> QED
    BY <1>1, <1>5, <1>6, <2>1, <2>2, <2>3, <2>4, CrashBooks DEF Next, Progress
<1>7. ASSUME NEW r, NEW c, MailStep(r, c) PROVE RestUnchanged
  BY <1>7 DEF MailStep, HearSignal, HearPromise, HearTimeout, FindNothing, Park, SendSignal,
              RecordSignal, PollForSignal, MakePromise, SettlePromise, RecordSettlement, TakeLock,
              FreeLock, HandleUpdate, UpdatesDrained, TakeNote, Schedule
<1>8. CASE ~Next
  <2>1. UNCHANGED <<lost, crashes, orphans, dropped, outbox, cancels>>
    BY <1>7, <1>8 DEF MailNext, MailProgress, Post, TimerFires, Invoke, RestUnchanged, allVars, vars
  <2> QED
    BY <1>3, <1>4, <2>1
<1> QED
  BY <1>6, <1>8

LEMMA PInvStep == ASSUME WaitersAreThePorts, PInv, [MailNext]_allVars PROVE PInv'
<1>1. BInv'
  BY BInvStep DEF PInv
<1>2. Slots'
  BY SlotsStep DEF PInv, BInv
<1>3. missed' \subseteq RunIds
  BY DEF PInv, MailNext, Derived, NoteDeliveries, allVars, mailVars
<1> QED
  BY <1>1, <1>2, <1>3, BooksStep, ProgramsStep, SuspensionsStep, FirstRowsStep, AddressedStep,
     LettersStep DEF PInv
-----------------------------------------------------------------------------
(* The guests of the ports keep to the discipline that the lemmas above    *)
(* ask for, whatever crashes, is posted or runs out of time: they await    *)
(* their own promises, leave no update undispatched when they wait, lock   *)
(* for the time they were started with, and are suspended only in a wait   *)
(* that has a deadline.                                                    *)
THEOREM WaitersKeepDiscipline == ASSUME WaitersAreThePorts PROVE MailSpec => []MailTypeOK
<1>1. PInv /\ [MailNext]_allVars => PInv'
  BY PInvStep
<1>2. PInv => MailTypeOK
  BY PInvIsEnough
<1> QED
  BY <1>1, <1>2, InitPInv, PTL DEF MailSpec

(* No run stays suspended on a signal in its mailbox or on a settled       *)
(* promise, also when the delivery found it running.                       *)
THEOREM NoWakeUpIsLost ==
    ASSUME WaitersAreThePorts PROVE MailSpec => []ParkedRunsHaveNothingToHear
<1>1. MailTypeOK => AwaitsItsOwn
  BY DEF MailTypeOK
<1> QED
  BY <1>1, WaitersKeepDiscipline, WaitersHear, PTL

(* An update accepted before a run set out for a wait is settled when the  *)
(* wait is over.                                                           *)
THEOREM WaitsSettleUpdates ==
    ASSUME WaitersAreThePorts PROVE MailSpec => []WaitsLeaveNoUpdatePending
<1>1. MailTypeOK => WaitsDispatch
  BY DEF MailTypeOK
<1> QED
  BY <1>1, WaitersKeepDiscipline, DispatchersSettle, PTL

(* A lock passes from one run to another only when it was released or its  *)
(* TTL ended, and a run whose TTL ended releases nobody else's lock.       *)
THEOREM LocksPassOn ==
    ASSUME WaitersAreThePorts PROVE MailSpec => []LocksPassByReleaseOrByTime
<1>1. MailTypeOK => LocksByItsTtl
  BY DEF MailTypeOK
<1> QED
  BY <1>1, WaitersKeepDiscipline, LockersPassOn, PTL

(* The budget of a guest is for all its waits together, however often it   *)
(* is woken, killed and resumed between and during them: no wait is begun  *)
(* when it is spent, and none times out before.                            *)
THEOREM BudgetsCoverAllWaits ==
    ASSUME WaitersAreThePorts PROVE MailSpec => []BudgetIsForAllTheWaits
<1>1. MailTypeOK => BudgetsAreTimes
  BY DEF MailTypeOK
<1> QED
  BY <1>1, WaitersKeepDiscipline, BudgetsAreKept, PTL
=============================================================================
