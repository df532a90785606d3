--------------------------- MODULE MailRunsProofs ---------------------------
(***************************************************************************)
(* What holds of the waiting guests for every guest, every test, any       *)
(* number of runs, workers and crashes: signals are consumed once and in   *)
(* order, updates are handled once and in order, keyed runs exclude each   *)
(* other, and deadlines stand.                                             *)
(*                                                                         *)
(* Nothing is assumed of Guest: whatever host calls a guest makes, a step  *)
(* does one of a few things to each row (DurableRunsProofs: Silent,        *)
(* Answered) and to the mailboxes and updates (Kind).  StepKind reduces    *)
(* every action to these; the invariant is then preserved by each kind.    *)
(***************************************************************************)
EXTENDS MailRuns, DurableRunsProofs

LEMMA MatchIsFirst ==
    ASSUME NEW r \in RunIds, NEW names, IsSeq(mail[r]), Match(r, names) # 0
    PROVE  LET i == Match(r, names)
           IN /\ i \in 1..Len(mail[r])
              /\ mail[r][i].name \in names
              /\ \A j \in 1..Len(mail[r]) : j < i => mail[r][j].name \notin names
<1> DEFINE S == {i \in 1..Len(mail[r]) : mail[r][i].name \in names}
<1>1. Len(mail[r]) \in Nat
  BY LenProperties DEF IsSeq
<1>2. Match(r, names) = Min(S) /\ S # {}
  BY DEF Match, SelectInSeq
<1>3. S \in SUBSET Nat
  BY <1>1
<1>4. Min(S) \in S /\ \A y \in S : Min(S) <= y
  BY <1>2, <1>3, LeastExists
<1>5. ASSUME NEW j \in 1..Len(mail[r]), j < Min(S) PROVE mail[r][j].name \notin names
  <2>1. j \notin S
    BY <1>1, <1>4, <1>5
  <2> QED
    BY <2>1
<1> QED
  BY <1>2, <1>4, <1>5

LEMMA AnswerIsQuiet ==
    ASSUME Table, NEW r \in RunIds, NEW op, NEW tag, NEW res, NEW n,
           RecordAnswer(r, op, tag, res, n), UNCHANGED scenario
    PROVE  /\ Table'
           /\ \A q \in RunIds \ {r} : runs'[q] = runs[q]
           /\ \E e : /\ Answered(r, e)
                    /\ e.op = op /\ e.tag = tag /\ e.res = res /\ e.run = n
<1> DEFINE e == [op |-> op, tag |-> tag, res |-> res, run |-> n, at |-> now,
                 since |-> Waited(r)]
<1>1. e.op = op /\ e.tag = tag /\ e.res = res /\ e.run = n
  OBVIOUS
<1> HIDE DEF e
<1>2. /\ runs[r].status = "running"
      /\ runs' = [runs EXCEPT ![r].hist = Append(@, e), ![r].since = 0, ![r].until = 0]
  BY DEF RecordAnswer, e
<1>3. IsSeq(Append(runs[r].hist, e))
  BY Grows DEF Table, IsRow, Fields
<1>4. ASSUME NEW q \in RunIds, q # r PROVE runs'[q] = runs[q]
  BY <1>2, <1>4 DEF Table
<1>5. /\ runs'[r].status = "running"
      /\ runs'[r].holds = runs[r].holds
      /\ runs'[r].hist = Append(runs[r].hist, e)
      /\ Fields \subseteq DOMAIN runs'[r]
  BY <1>2 DEF Table, IsRow, Fields
<1>6. runs' = [q \in RunIds |-> runs'[q]]
  BY <1>2 DEF Table
<1>7. Table'
  BY <1>3, <1>4, <1>5, <1>6 DEF Table, IsRow, Fields
<1> QED
  BY <1>1, <1>2, <1>4, <1>5, <1>7 DEF Answered
-----------------------------------------------------------------------------
(* What a step of the composition is, seen from the mailboxes and the      *)
(* updates.                                                                *)

Boxes ==
    /\ mail = [r \in RunIds |-> mail[r]]
    /\ \A r \in RunIds : IsSeq(mail[r])
    /\ IsSeq(updates)
    /\ \A k \in DOMAIN updates : {"run", "state"} \subseteq DOMAIN updates[k]
    /\ posted \in Nat

\* Nobody hears a signal, and no update is accepted or handled.
QuietStep ==
    /\ \A q \in RunIds : Quiet(q)
    /\ UNCHANGED <<mail, updates>>
    /\ posted' \in {posted, posted + 1}

Delivery(to, signal) ==
    /\ \A q \in RunIds : Silent(q)
    /\ mail' = [mail EXCEPT ![to] = Append(@, signal)]
    /\ \/ signal.n = 0 /\ posted' = posted
       \/ /\ posted' = posted + 1 /\ signal.n = posted'
          /\ scenario.posts[posted'].kind = "signal" /\ scenario.posts[posted'].run = to
    /\ UNCHANGED updates

Acceptance(u) ==
    /\ \A q \in RunIds : Silent(q)
    /\ updates' = Append(updates, u)
    /\ {"run", "state"} \subseteq DOMAIN u /\ u.state = "pending"
    /\ UNCHANGED mail
    /\ posted' = posted + 1

Others(r) == \A q \in RunIds \ {r} : runs'[q] = runs[q]

Hearing(r, i, e) ==
    /\ Others(r) /\ Answered(r, e)
    /\ i \in 1..Len(mail[r])
    /\ e.tag = mail[r][i].name /\ e.run = mail[r][i].n
    /\ e.op \in {"recv", "pollsignal"}
    /\ \A j \in 1..Len(mail[r]) : j < i => mail[r][j].name # e.tag
    /\ mail' = [mail EXCEPT ![r] = RemoveAt(mail[r], i)]
    /\ UNCHANGED <<updates, posted>>

Handling(r, k, e) ==
    /\ Others(r) /\ Answered(r, e)
    /\ k \in Pending(r) /\ \A j \in Pending(r) : k <= j
    /\ e.op = "update" /\ e.run = k
    /\ \E verdict \in {"resolved", "rejected"} : updates' = [updates EXCEPT ![k].state = verdict]
    /\ UNCHANGED <<mail, posted>>

Kind ==
    \/ QuietStep
    \/ \E to, signal : Delivery(to, signal)
    \/ \E u : Acceptance(u)
    \/ \E r \in RunIds : \E i, e : Hearing(r, i, e)
    \/ \E r \in RunIds : \E k, e : Handling(r, k, e)

Result == Table' /\ scenario' = scenario /\ Kind

LEMMA QuietAnswer ==
    ASSUME Table, NEW r \in RunIds, NEW op, NEW tag, NEW res, NEW n,
           RecordAnswer(r, op, tag, res, n), UNCHANGED <<scenario, mail, updates, posted>>,
           op \notin {"recv", "pollsignal"} \/ res # "ok", op # "update"
    PROVE  Result
<1>1. PICK e : Answered(r, e) /\ e.op = op /\ e.tag = tag /\ e.res = res /\ e.run = n
  BY AnswerIsQuiet
<1>2. Table' /\ \A q \in RunIds \ {r} : runs'[q] = runs[q]
  BY AnswerIsQuiet
<1>3. Plain(e)
  BY <1>1 DEF Plain, Consumes
<1> QED
  BY <1>1, <1>2, <1>3 DEF Result, Kind, QuietStep, Quiet, Silent

LEMMA SilentStep ==
    ASSUME Table, Rewritten, UNCHANGED <<mail, updates>>, posted' \in {posted, posted + 1}
    PROVE  Result
BY RewrittenIsQuiet DEF Result, Kind, QuietStep, Rewritten

LEMMA MailStepKind ==
    ASSUME Table, Boxes, NEW r \in RunIds, NEW c, MailStep(r, c)
    PROVE  Result
<1> USE DEF RestUnchanged, MailUnchanged
<1>1. ASSUME NEW names, NEW op \in {"recv", "pollsignal"}, NEW i, i = Match(r, names), i # 0,
             RecordAnswer(r, op, mail[r][i].name, "ok", mail[r][i].n),
             mail' = [mail EXCEPT ![r] = RemoveAt(mail[r], i)],
             UNCHANGED <<scenario, updates, posted>>
      PROVE  Result
  <2>1. PICK e : /\ Answered(r, e) /\ e.op = op
                 /\ e.tag = mail[r][i].name /\ e.run = mail[r][i].n
    BY <1>1, AnswerIsQuiet
  <2>2. Table' /\ Others(r)
    BY <1>1, AnswerIsQuiet DEF Others
  <2>3. /\ i \in 1..Len(mail[r]) /\ mail[r][i].name \in names
        /\ \A j \in 1..Len(mail[r]) : j < i => mail[r][j].name \notin names
    BY <1>1, MatchIsFirst DEF Boxes
  <2>4. \A j \in 1..Len(mail[r]) : j < i => mail[r][j].name # mail[r][i].name
    BY <2>3
  <2>5. Hearing(r, i, e)
    BY <1>1, <2>1, <2>2, <2>3, <2>4 DEF Hearing
  <2> QED
    BY <1>1, <2>2, <2>5 DEF Result, Kind
<1>2. CASE HearSignal(r, c)
  BY <1>1, <1>2 DEF HearSignal, Answerable
<1>3. CASE PollForSignal(r, c)
  <2>1. CASE Match(r, {c.name}) = 0
    BY <1>3, <2>1, QuietAnswer DEF PollForSignal
  <2>2. CASE Match(r, {c.name}) # 0
    <3> DEFINE i == Match(r, {c.name})
    <3>1. mail[r][i].name = c.name
      BY <2>2, MatchIsFirst DEF Boxes
    <3> HIDE DEF i
    <3>2. /\ RecordAnswer(r, "pollsignal", mail[r][i].name, "ok", mail[r][i].n)
          /\ mail' = [mail EXCEPT ![r] = RemoveAt(mail[r], i)]
          /\ UNCHANGED <<scenario, updates, posted>>
      BY <1>3, <2>2, <3>1 DEF PollForSignal, i
    <3> QED
      BY <1>1, <2>2, <3>2 DEF i
  <2> QED
    BY <2>1, <2>2
<1>4. CASE HearPromise(r, c)
  BY <1>4, QuietAnswer DEF HearPromise
<1>5. CASE HearTimeout(r, c)
  BY <1>5, QuietAnswer DEF HearTimeout, Reached, Waits
<1>6. CASE FindNothing(r, c) \/ UpdatesDrained(r, c)
  BY <1>6, KeptIsRewritten, SilentStep DEF FindNothing, UpdatesDrained
<1>7. CASE Park(r, c)
  <2>1. Rewritten
    BY <1>7 DEF Park, Deadline, Rewritten, Table, IsRow, Fields, Silent, WentOn, Begun
  <2> QED
    BY <1>7, <2>1, SilentStep DEF Park
<1>8. CASE SendSignal(r, c)
  <2> DEFINE signal == [name |-> c.name, n |-> 0]
  <2>1. CASE Live(c.to)
    <3>1. runs' = Woken(LAMBDA q : q = c.to /\ Asks(q).op = "recv" /\ c.name \in Asks(q).names)
      BY <1>8, <2>1 DEF SendSignal, Deliver
    <3>2. Rewritten
      BY <1>8, <3>1 DEF SendSignal, Woken, Table, Rewritten, IsRow, Fields, Silent, WentOn, Begun
    <3>3. Table' /\ \A q \in RunIds : Silent(q)
      BY <3>2, RewrittenIsQuiet DEF Rewritten
    <3>4. Delivery(c.to, signal)
      BY <1>8, <2>1, <3>3 DEF SendSignal, Deliver, Delivery
    <3> QED
      BY <1>8, <3>3, <3>4 DEF SendSignal, Result, Kind
  <2>2. CASE ~Live(c.to)
    BY <1>8, <2>2, KeptIsRewritten, SilentStep DEF SendSignal
  <2> QED
    BY <2>1, <2>2
<1>9. CASE RecordSignal(r, c)
  BY <1>9, QuietAnswer DEF RecordSignal
<1>10. CASE MakePromise(r, c)
  BY <1>10, QuietAnswer DEF MakePromise
<1>11. CASE SettlePromise(r, c)
  <2>1. Rewritten
    BY <1>11 DEF SettlePromise, SettleAndWake, Woken, Table, Rewritten,
                    IsRow, Fields, Silent, WentOn, Begun
  <2> QED
    BY <1>11, <2>1, SilentStep DEF SettlePromise
<1>12. CASE RecordSettlement(r, c)
  BY <1>12, QuietAnswer DEF RecordSettlement
<1>13. CASE TakeLock(r, c) \/ FreeLock(r, c)
  BY <1>13, QuietAnswer DEF TakeLock, FreeLock
<1>14. CASE TakeNote(r, c) \/ Schedule(r, c)
  BY <1>14, QuietAnswer DEF TakeNote, Schedule
<1>15. CASE HandleUpdate(r, c)
  <2> DEFINE k == NextRequest(r)
             verdict == Handler(runs[r].prog.w, updates[k])
             e == Answer("update", updates[k].name, verdict, k)
  <2>1. Record(r, e) /\ e.op = "update" /\ e.run = k
    BY <1>15 DEF HandleUpdate, Answer
  <2>2. /\ updates' = [updates EXCEPT ![k].state = IF verdict = "done" THEN "resolved"
                                                                     ELSE "rejected"]
        /\ UNCHANGED <<scenario, mail, posted>>
    BY <1>15 DEF HandleUpdate
  <2>3. Pending(r) \in SUBSET Nat /\ Pending(r) # {}
    BY <1>15, LenProperties DEF HandleUpdate, Pending, Boxes, IsSeq
  <2>4. k \in Pending(r) /\ \A j \in Pending(r) : k <= j
    BY <2>3, LeastExists DEF NextRequest
  <2> HIDE DEF e, k
  <2>5. Table' /\ Others(r) /\ Answered(r, e)
    <3>1. IsSeq(Append(runs[r].hist, e))
      BY Grows DEF Table, IsRow, Fields
    <3>2. Others(r) /\ runs' = [q \in RunIds |-> runs'[q]]
      BY <2>1 DEF Record, Table, Others
    <3>3. Answered(r, e) /\ Fields \subseteq DOMAIN runs'[r]
      BY <2>1 DEF Record, Table, IsRow, Fields, Answered
    <3> QED
      BY <2>2, <3>1, <3>2, <3>3 DEF Table, IsRow, Fields, Others, Answered
  <2>6. Handling(r, k, e)
    BY <2>1, <2>2, <2>4, <2>5 DEF Handling
  <2> QED
    BY <2>2, <2>5, <2>6 DEF Result, Kind
<1> QED
  BY <1>2, <1>3, <1>4, <1>5, <1>6, <1>7, <1>8, <1>9, <1>10, <1>11, <1>12, <1>13, <1>14, <1>15
     DEF MailStep

LEMMA PostKind == ASSUME Table, Boxes, Post PROVE Result
<1> DEFINE p == scenario.posts[posted + 1]
<1>1. /\ PostSignal(p) \/ PostSettlement(p) \/ PostUpdate(p)
      /\ posted' = posted + 1 /\ UNCHANGED scenario
  BY DEF Post, RestUnchanged
<1>2. CASE PostSignal(p)
  <2> DEFINE signal == [name |-> p.name, n |-> posted + 1]
  <2>1. CASE Live(p.run)
    <3>1. Rewritten
      <4>1. /\ runs' = [q \in RunIds |-> runs'[q]]
            /\ \A q \in RunIds :
                  \/ runs'[q] = runs[q]
                  \/ runs[q].status = "parked" /\ runs'[q] = [runs[q] EXCEPT !.status = "ready"]
        BY <1>2, <2>1 DEF PostSignal, Deliver, Woken
      <4>2. ASSUME NEW q \in RunIds
            PROVE  Silent(q) /\ Fields \subseteq DOMAIN runs'[q]
        <5>1. CASE runs'[q] = runs[q]
          BY <5>1 DEF Silent, Table, IsRow
        <5>2. CASE runs[q].status = "parked" /\ runs'[q] = [runs[q] EXCEPT !.status = "ready"]
          BY <5>2 DEF Silent, WentOn, Begun, Table, IsRow, Fields
        <5> QED
          BY <4>1, <5>1, <5>2
      <4> QED
        BY <1>1, <4>1, <4>2 DEF Rewritten
    <3>2. Table' /\ \A q \in RunIds : Silent(q)
      BY <3>1, RewrittenIsQuiet DEF Rewritten
    <3>3. Delivery(p.run, signal)
      BY <1>1, <1>2, <2>1, <3>2 DEF PostSignal, Deliver, Delivery
    <3> QED
      BY <1>1, <3>2, <3>3 DEF Result, Kind
  <2>2. CASE ~Live(p.run)
    BY <1>1, <1>2, <2>2, KeptIsRewritten, SilentStep DEF PostSignal
  <2> QED
    BY <2>1, <2>2
<1>3. CASE PostSettlement(p)
  <2>1. Rewritten
    BY <1>1, <1>3
       DEF PostSettlement, SettleAndWake, Woken, Table, Rewritten,
           IsRow, Fields, Silent, WentOn, Begun
  <2> QED
    BY <1>1, <1>3, <2>1, SilentStep DEF PostSettlement
<1>4. CASE PostUpdate(p)
  <2>1. Rewritten
    BY <1>1, <1>4 DEF PostUpdate, Woken, Table, Rewritten, IsRow, Fields, Silent, WentOn, Begun
  <2>2. Table' /\ \A q \in RunIds : Silent(q)
    BY <2>1, RewrittenIsQuiet DEF Rewritten
  <2>3. CASE Live(p.run) /\ NameIsFresh(p)
    <3> DEFINE u == [run |-> p.run, name |-> p.name, bad |-> p.bad, state |-> "pending",
                     from |-> Len(runs[p.run].hist)]
    <3>1. Acceptance(u)
      BY <1>1, <1>4, <2>2, <2>3 DEF PostUpdate, Acceptance
    <3> QED
      BY <1>1, <2>2, <3>1 DEF Result, Kind
  <2>4. CASE ~(Live(p.run) /\ NameIsFresh(p))
    BY <1>1, <1>4, <2>1, <2>4, SilentStep DEF PostUpdate
  <2> QED
    BY <2>3, <2>4
<1> QED
  BY <1>1, <1>2, <1>3, <1>4

LEMMA StepKind == ASSUME Table, Boxes, [MailNext]_allVars PROVE Result
<1>1. CASE Next /\ MailUnchanged
  BY <1>1, EngineIsQuiet DEF MailUnchanged, Result, Kind, QuietStep
<1>2. ASSUME NEW r \in RunIds, TimerFires(r) PROVE Result
  <2>1. Rewritten
    BY <1>2 DEF TimerFires, RestUnchanged, Table, Rewritten, IsRow, Fields, Silent, WentOn, Begun
  <2> QED
    BY <1>2, <2>1, SilentStep DEF TimerFires, MailUnchanged
<1>3. ASSUME NEW call \in due, Invoke(call) PROVE Result
  BY <1>3, KeptIsRewritten, SilentStep DEF Invoke
<1>4. CASE UNCHANGED allVars
  BY <1>4, KeptIsRewritten, SilentStep DEF allVars, vars, mailVars
<1> QED
  BY <1>1, <1>2, <1>3, <1>4, MailStepKind, PostKind DEF MailNext, MailProgress
-----------------------------------------------------------------------------
(* The inductive invariant.                                                *)

Started(q) == Live(q) /\ (runs[q].status # "ready" \/ runs[q].hist # <<>>)

\* A keyed run that has begun holds its key, and one run holds it.
Keys ==
    /\ \A q \in scenario.keyed : Started(q) => runs[q].holds
    /\ \A p, q \in scenario.keyed : runs[p].holds /\ runs[q].holds => p = q

\* Posted signals lie in a mailbox in the order of their posting, at most once.
Ordered ==
    \A r \in RunIds : \A i \in DOMAIN mail[r] :
        /\ mail[r][i].n \in Nat
        /\ mail[r][i].n > 0 => mail[r][i].n \in PostedTo(r, "signal")
        /\ \A j \in DOMAIN mail[r] :
              i < j /\ mail[r][i].n > 0 /\ mail[r][j].n > 0 => mail[r][i].n < mail[r][j].n

Handled(r) == {i \in DOMAIN runs[r].hist : runs[r].hist[i].op = "update"}

\* What was handled is a settled request to this run, older than every pending one.
Settlements ==
    \A r \in RunIds :
        LET h == runs[r].hist
        IN /\ \A i \in Handled(r) : /\ h[i].run \in DOMAIN updates
                                    /\ updates[h[i].run].run = r
                                    /\ updates[h[i].run].state # "pending"
           /\ \A i, j \in Handled(r) : i < j => h[i].run < h[j].run
           /\ \A i \in Handled(r), k \in Pending(r) : h[i].run < k
           /\ \A k \in DOMAIN updates : updates[k].run = r /\ updates[k].state # "pending"
                 => \E i \in Handled(r) : h[i].run = k

MInv == Table /\ Boxes /\ Keys /\ Ordered /\ SignalsAreConsumedOnceInOrder /\ Settlements

LEMMA InitMInv == MailInit => MInv
<1> SUFFICES ASSUME MailInit PROVE MInv
  OBVIOUS
<1>1. IsSeq(<<>>) /\ DOMAIN <<>> = {}
  <2>1. << >> \in Seq(Range(<< >>)) /\ Len(<< >>) = 0
    BY EmptySeq
  <2> QED
    BY <2>1, LenProperties DEF IsSeq
<1>2. \A r \in RunIds : /\ IsRow(runs[r]) /\ runs[r].hist = <<>> /\ ~runs[r].holds
                        /\ runs[r].status \in {"ready", "absent"}
  BY <1>1 DEF MailInit, Init, Fresh, Absent, IsRow, Fields
<1>3. Table
  BY <1>2 DEF Table, MailInit, Init
<1>4. Boxes
  BY <1>1 DEF Boxes, MailInit
<1>5. Keys
  BY <1>2, KeysAreOfRuns DEF Keys, Started, Live, MailInit, Init
<1>6. Ordered
  BY <1>1 DEF Ordered, MailInit
<1>7. SignalsAreConsumedOnceInOrder
  BY <1>1, <1>2 DEF SignalsAreConsumedOnceInOrder, Consumed, Events
<1>8. Settlements
  BY <1>1, <1>2 DEF Settlements, Handled, MailInit
<1> QED
  BY <1>3, <1>4, <1>5, <1>6, <1>7, <1>8 DEF MInv

\* Seen from one row, every step leaves its events alone or appends one to a running row's.
LEMMA RowStep ==
    ASSUME Result, NEW q \in RunIds
    PROVE  Silent(q) \/ \E e : Answered(q, e)
BY DEF Result, Kind, QuietStep, Quiet, Delivery, Acceptance, Hearing, Handling, Others, Silent

LEMMA KeysStep == ASSUME Table, Keys, Result PROVE Keys'
<1>1. scenario.keyed \subseteq RunIds /\ scenario' = scenario
  BY KeysAreOfRuns DEF Table, Result
<1>2. ASSUME NEW q \in scenario.keyed, Started(q)' PROVE runs'[q].holds
  <2>1. CASE Silent(q)
    BY <1>1, <1>2, <2>1
       DEF Keys, Started, Live, Silent, Opened, Claimed, Closed, WentOn, Begun, Terminal
  <2>2. CASE \E e : Answered(q, e)
    BY <1>1, <2>2 DEF Keys, Started, Live, Answered, Terminal
  <2> QED
    BY <1>1, <2>1, <2>2, RowStep
<1>3. ASSUME NEW q \in scenario.keyed, runs'[q].holds PROVE runs[q].holds \/ Claimed(q)
  BY <1>1, <1>3, RowStep DEF Silent, Opened, Closed, WentOn, Answered
<1>4. ASSUME NEW p \in scenario.keyed, NEW q \in scenario.keyed,
             runs'[p].holds, runs'[q].holds, p # q
      PROVE  FALSE
  <2>1. runs[p].holds \/ runs[q].holds
    BY <1>1, <1>3, <1>4 DEF Claimed, KeyIsFree
  <2>2. ~(runs[p].holds /\ runs[q].holds)
    BY <1>4 DEF Keys
  <2>3. CASE runs[p].holds
    BY <1>1, <1>3, <1>4, <2>2, <2>3 DEF Claimed, KeyIsFree
  <2>4. CASE runs[q].holds
    BY <1>1, <1>3, <1>4, <2>2, <2>4 DEF Claimed, KeyIsFree
  <2> QED
    BY <2>1, <2>3, <2>4
<1> QED
  BY <1>1, <1>2, <1>4 DEF Keys

LEMMA BoxesStep == ASSUME Boxes, Result PROVE Boxes'
<1>1. CASE QuietStep
  BY <1>1 DEF Boxes, QuietStep
<1>2. ASSUME NEW to, NEW signal, Delivery(to, signal) PROVE Boxes'
  <2>1. \A r \in RunIds : IsSeq(Append(mail[r], signal))
    BY Grows DEF Boxes
  <2>2. mail' = [r \in RunIds |-> mail'[r]] /\ \A r \in RunIds : IsSeq(mail'[r])
    BY <1>2, <2>1 DEF Boxes, Delivery
  <2>3. posted' \in Nat /\ updates' = updates
    BY <1>2 DEF Boxes, Delivery
  <2> QED
    BY <2>2, <2>3 DEF Boxes
<1>3. ASSUME NEW u, Acceptance(u) PROVE Boxes'
  <2>1. /\ IsSeq(updates')
        /\ \A k \in DOMAIN updates' : {"run", "state"} \subseteq DOMAIN updates'[k]
    BY <1>3, Grows DEF Boxes, Acceptance
  <2> QED
    BY <1>3, <2>1 DEF Boxes, Acceptance
<1>4. ASSUME NEW r \in RunIds, NEW i, NEW e, Hearing(r, i, e) PROVE Boxes'
  <2>1. IsSeq(RemoveAt(mail[r], i))
    BY <1>4, Shrinks DEF Boxes, Hearing
  <2> QED
    BY <1>4, <2>1 DEF Boxes, Hearing
<1>5. ASSUME NEW r \in RunIds, NEW k, NEW e, Handling(r, k, e) PROVE Boxes'
  <2>1. PICK verdict : updates' = [updates EXCEPT ![k].state = verdict]
    BY <1>5 DEF Handling
  <2> DEFINE u == [updates[k] EXCEPT !.state = verdict]
  <2>2. /\ updates' = [updates EXCEPT ![k] = u]
        /\ {"run", "state"} \subseteq DOMAIN updates[k] => {"run", "state"} \subseteq DOMAIN u
    BY <2>1
  <2>3. k \in 1..Len(updates) /\ DOMAIN updates = 1..Len(updates)
    BY <1>5, LenProperties DEF Boxes, IsSeq, Handling, Pending
  <2> HIDE DEF u
  <2>4. IsSeq(updates')
    <3> DEFINE T == Range(updates) \cup {u}
    <3>1. updates \in Seq(T)
      BY SeqMonotonic, Range(updates) \subseteq T DEF Boxes, IsSeq
    <3>2. u \in T
      OBVIOUS
    <3> HIDE DEF T
    <3>3. updates' \in Seq(T)
      BY <2>2, <2>3, <3>1, <3>2, ExceptSeq
    <3> QED
      BY <3>3, SeqOfRange DEF IsSeq
  <2>5. \A j \in DOMAIN updates' : {"run", "state"} \subseteq DOMAIN updates'[j]
    BY <2>2, <2>3 DEF Boxes
  <2> QED
    BY <1>5, <2>4, <2>5 DEF Boxes, Handling
<1> QED
  BY <1>1, <1>2, <1>3, <1>4, <1>5 DEF Result, Kind

LEMMA PostedGrows ==
    ASSUME Boxes, Result, NEW r
    PROVE  /\ PostedTo(r, "signal") \subseteq PostedTo(r, "signal")'
           /\ \A k \in PostedTo(r, "signal") : k \in Nat /\ k <= posted
<1>1. posted' \in {posted, posted + 1} /\ scenario' = scenario
  BY DEF Result, Kind, QuietStep, Delivery, Acceptance, Hearing, Handling
<1> QED
  BY <1>1 DEF PostedTo, Boxes

LEMMA OrderedStep == ASSUME Boxes, Ordered, Result PROVE Ordered'
<1> DEFINE Good(q) == \A i \in DOMAIN mail[q] :
        /\ mail[q][i].n \in Nat
        /\ mail[q][i].n > 0 => mail[q][i].n \in PostedTo(q, "signal")
        /\ \A j \in DOMAIN mail[q] :
              i < j /\ mail[q][i].n > 0 /\ mail[q][j].n > 0 => mail[q][i].n < mail[q][j].n
<1> SUFFICES ASSUME NEW q \in RunIds PROVE Good(q)'
  BY DEF Ordered
<1>1. Good(q)
  BY DEF Ordered
<1>2. /\ PostedTo(q, "signal") \subseteq PostedTo(q, "signal")'
      /\ \A k \in PostedTo(q, "signal") : k \in Nat /\ k <= posted
  BY PostedGrows
<1>3. CASE mail'[q] = mail[q]
  BY <1>1, <1>2, <1>3
<1>4. ASSUME NEW signal, Delivery(q, signal) PROVE Good(q)'
  <2> DEFINE t == Append(mail[q], signal)
             n == Len(mail[q])
  <2>1. /\ mail'[q] = t /\ n \in Nat
        /\ DOMAIN mail[q] = 1..n /\ DOMAIN t = 1..n + 1
        /\ \A i \in 1..n : t[i] = mail[q][i]
        /\ t[n + 1] = signal
    BY <1>4, Grows DEF Delivery, Boxes
  <2>2. /\ signal.n \in Nat
        /\ signal.n > 0 => signal.n \in PostedTo(q, "signal")' /\ signal.n > posted
    BY <1>4 DEF Delivery, PostedTo, Boxes, Result
  <2> HIDE DEF t, n
  <2>3. \A i \in 1..n + 1 : i \in 1..n \/ i = n + 1
    BY <2>1
  <2>4. \A i \in DOMAIN t : /\ t[i].n \in Nat
                            /\ t[i].n > 0 => t[i].n \in PostedTo(q, "signal")'
    BY <1>1, <1>2, <2>1, <2>2, <2>3
  <2>5. ASSUME NEW i \in DOMAIN t, NEW j \in DOMAIN t, i < j, t[i].n > 0, t[j].n > 0
        PROVE  t[i].n < t[j].n
    <3>1. i \in 1..n /\ t[i] = mail[q][i]
      BY <2>1, <2>5
    <3>2. CASE j \in 1..n
      BY <1>1, <2>1, <2>5, <3>1, <3>2
    <3>3. CASE j = n + 1
      <4>1. t[i].n \in Nat /\ t[i].n <= posted
        BY <1>1, <1>2, <2>1, <2>5, <3>1
      <4>2. t[j].n \in Nat /\ t[j].n > posted
        BY <2>1, <2>2, <2>5, <3>3
      <4> QED
        BY <4>1, <4>2 DEF Boxes
    <3> QED
      BY <2>1, <2>3, <3>2, <3>3
  <2> QED
    BY <2>1, <2>4, <2>5
<1>5. ASSUME NEW i, NEW e, Hearing(q, i, e) PROVE Good(q)'
  <2> DEFINE t == RemoveAt(mail[q], i)
             n == Len(mail[q])
             was(j) == IF j < i THEN j ELSE j + 1
  <2>1. /\ mail'[q] = t /\ n \in Nat /\ i \in 1..n
        /\ DOMAIN mail[q] = 1..n /\ DOMAIN t = 1..n - 1
        /\ \A j \in 1..n - 1 : t[j] = mail[q][was(j)]
    BY <1>5, Shrinks DEF Hearing, Boxes
  <2>2. \A j \in 1..n - 1 : was(j) \in 1..n
    BY <2>1
  <2>3. \A j, k \in 1..n - 1 : j < k => was(j) < was(k)
    BY <2>1
  <2> HIDE DEF t, n, was
  <2>4. \A j \in DOMAIN t : /\ t[j].n \in Nat
                            /\ t[j].n > 0 => t[j].n \in PostedTo(q, "signal")'
    BY <1>1, <1>2, <2>1, <2>2
  <2>5. ASSUME NEW j \in DOMAIN t, NEW k \in DOMAIN t, j < k, t[j].n > 0, t[k].n > 0
        PROVE  t[j].n < t[k].n
    <3>1. /\ was(j) \in DOMAIN mail[q] /\ was(k) \in DOMAIN mail[q] /\ was(j) < was(k)
          /\ t[j] = mail[q][was(j)] /\ t[k] = mail[q][was(k)]
      BY <2>1, <2>2, <2>3, <2>5
    <3> QED
      BY <1>1, <2>5, <3>1
  <2> QED
    BY <2>1, <2>4, <2>5
<1>6. mail'[q] = mail[q] \/ (\E signal : Delivery(q, signal)) \/ \E i, e : Hearing(q, i, e)
  <2>1. ASSUME NEW to, NEW signal, Delivery(to, signal), to # q PROVE mail'[q] = mail[q]
    BY <2>1 DEF Delivery, Boxes
  <2>2. ASSUME NEW r \in RunIds, NEW i, NEW e, Hearing(r, i, e), r # q PROVE mail'[q] = mail[q]
    BY <2>2 DEF Hearing, Boxes
  <2> QED
    BY <2>1, <2>2 DEF Result, Kind, QuietStep, Acceptance, Handling
<1> HIDE DEF Good
<1> QED
  BY <1>3, <1>4, <1>5, <1>6

LEMMA SignalsStep ==
    ASSUME Table, Boxes, Ordered, SignalsAreConsumedOnceInOrder, Result
    PROVE  SignalsAreConsumedOnceInOrder'
<1> DEFINE Good(q) ==
      /\ \A i \in Consumed(q) : runs[q].hist[i].run \in PostedTo(q, "signal")
      /\ \A i, j \in Consumed(q) :
            i < j /\ runs[q].hist[i].tag = runs[q].hist[j].tag
            => runs[q].hist[i].run < runs[q].hist[j].run
      /\ \A i \in Consumed(q), j \in DOMAIN mail[q] :
            runs[q].hist[i].tag = mail[q][j].name /\ mail[q][j].n > 0
            => runs[q].hist[i].run < mail[q][j].n
<1> SUFFICES ASSUME NEW q \in RunIds PROVE Good(q)'
  BY DEF SignalsAreConsumedOnceInOrder, Events
<1>1. Good(q)
  BY DEF SignalsAreConsumedOnceInOrder, Events
<1>2. /\ PostedTo(q, "signal") \subseteq PostedTo(q, "signal")'
      /\ \A k \in PostedTo(q, "signal") : k \in Nat /\ k <= posted
  BY PostedGrows
<1>3. Consumed(q) = {i \in DOMAIN runs[q].hist : Consumes(runs[q].hist[i])}
  BY DEF Consumed, Events, Consumes
<1>4. Consumed(q)' = {i \in DOMAIN runs'[q].hist : Consumes(runs'[q].hist[i])}
  BY DEF Consumed, Events, Consumes
<1>5. CASE runs'[q].hist = runs[q].hist /\ mail'[q] = mail[q]
  <2>1. Consumed(q)' = Consumed(q)
    BY <1>3, <1>4, <1>5
  <2> QED
    BY <1>1, <1>2, <1>5, <2>1
<1>6. ASSUME NEW e, Answered(q, e)
      PROVE  LET h == runs[q].hist
                 g == runs'[q].hist
             IN /\ Len(h) \in Nat /\ g[Len(h) + 1] = e
                /\ \A i \in Consumed(q) : i \in 1..Len(h) /\ g[i] = h[i]
                /\ ~Consumes(e) => Consumed(q)' = Consumed(q)
                /\ Consumed(q)' \subseteq Consumed(q) \cup {Len(h) + 1}
                /\ Consumed(q) \subseteq Consumed(q)'
                /\ Len(h) + 1 \in Consumed(q)' => Consumes(e)
  <2> DEFINE h == runs[q].hist
             g == runs'[q].hist
  <2>1. /\ Len(h) \in Nat /\ g = Append(h, e)
        /\ DOMAIN h = 1..Len(h) /\ DOMAIN g = 1..Len(h) + 1
        /\ \A i \in 1..Len(h) : g[i] = h[i]
        /\ g[Len(h) + 1] = e
    BY <1>6, Grows DEF Table, IsRow, Fields, Answered
  <2>2. \A i \in 1..Len(h) + 1 : i \in 1..Len(h) \/ i = Len(h) + 1
    BY <2>1
  <2>3. \A i \in 1..Len(h) : i \in 1..Len(h) + 1
    BY <2>1
  <2> HIDE DEF h, g, Consumes
  <2>4. Consumed(q) = {i \in 1..Len(h) : Consumes(h[i])}
    BY <1>3, <2>1 DEF h
  <2>5. Consumed(q)' = {i \in 1..Len(h) + 1 : Consumes(g[i])}
    BY <1>4, <2>1 DEF g
  <2> QED
    BY <2>1, <2>2, <2>3, <2>4, <2>5 DEF h, g
<1>7. ASSUME NEW e, Plain(e), Answered(q, e), mail'[q] = mail[q] PROVE Good(q)'
  BY <1>1, <1>2, <1>6, <1>7 DEF Plain
<1>8. ASSUME NEW signal, Delivery(q, signal), runs'[q].hist = runs[q].hist PROVE Good(q)'
  <2> DEFINE t == Append(mail[q], signal)
             n == Len(mail[q])
  <2>1. /\ mail'[q] = t /\ n \in Nat
        /\ DOMAIN mail[q] = 1..n /\ DOMAIN t = 1..n + 1
        /\ \A i \in 1..n : t[i] = mail[q][i]
        /\ t[n + 1] = signal
    BY <1>8, Grows DEF Delivery, Boxes
  <2>2. signal.n \in Nat /\ (signal.n > 0 => signal.n > posted)
    BY <1>8 DEF Delivery, Boxes
  <2>3. Consumed(q)' = Consumed(q)
    BY <1>3, <1>4, <1>8
  <2> HIDE DEF t, n
  <2>4. \A i \in 1..n + 1 : i \in 1..n \/ i = n + 1
    BY <2>1
  <2>5. ASSUME NEW i \in Consumed(q), NEW j \in DOMAIN t,
               runs[q].hist[i].tag = t[j].name, t[j].n > 0
        PROVE  runs[q].hist[i].run < t[j].n
    <3>1. CASE j \in 1..n
      BY <1>1, <2>1, <2>5, <3>1
    <3>2. CASE j = n + 1
      <4>1. runs[q].hist[i].run \in Nat /\ runs[q].hist[i].run <= posted
        BY <1>1, <1>2
      <4>2. t[j].n \in Nat /\ t[j].n > posted
        BY <2>1, <2>2, <2>5, <3>2
      <4> QED
        BY <4>1, <4>2 DEF Boxes
    <3> QED
      BY <2>1, <2>4, <3>1, <3>2
  <2> QED
    BY <1>1, <1>2, <1>8, <2>1, <2>3, <2>5
<1>9. ASSUME NEW i, NEW e, Hearing(q, i, e) PROVE Good(q)'
  <2> DEFINE t == RemoveAt(mail[q], i)
             n == Len(mail[q])
             was(j) == IF j < i THEN j ELSE j + 1
             h == runs[q].hist
             g == runs'[q].hist
             m == Len(h) + 1
  <2>1. /\ mail'[q] = t /\ n \in Nat /\ i \in 1..n
        /\ DOMAIN mail[q] = 1..n /\ DOMAIN t = 1..n - 1
        /\ \A j \in 1..n - 1 : t[j] = mail[q][was(j)]
    BY <1>9, Shrinks DEF Hearing, Boxes
  <2>2. \A j \in 1..n - 1 : was(j) \in 1..n /\ was(j) # i
    BY <2>1
  <2>3. /\ e.tag = mail[q][i].name /\ e.run = mail[q][i].n
        /\ \A j \in 1..n : j < i => mail[q][j].name # e.tag
    BY <1>9 DEF Hearing
  <2>4. /\ Len(h) \in Nat /\ m \in Nat /\ g[m] = e
        /\ \A j \in Consumed(q) : j \in 1..Len(h) /\ j < m /\ g[j] = h[j]
        /\ Consumed(q)' \subseteq Consumed(q) \cup {m}
        /\ m \in Consumed(q)' => Consumes(e)
    BY <1>6, <1>9 DEF Hearing
  <2>5. m \in Consumed(q)' => e.run > 0 /\ e.run \in PostedTo(q, "signal")
    BY <2>1, <2>3, <2>4 DEF Ordered, Consumes
  <2> HIDE DEF t, n, was, h, g, m
  <2>6. \A j \in Consumed(q)' : g[j].run \in PostedTo(q, "signal")
    BY <1>1, <2>4, <2>5 DEF h
  <2>7. ASSUME NEW j \in Consumed(q)', NEW k \in Consumed(q)', j < k, g[j].tag = g[k].tag
        PROVE  g[j].run < g[k].run
    <3>1. j \in Consumed(q)
      BY <2>4, <2>7
    <3>2. CASE k \in Consumed(q)
      BY <1>1, <2>4, <2>7, <3>1, <3>2 DEF h
    <3>3. CASE k = m
      BY <1>1, <2>1, <2>3, <2>4, <2>5, <2>7, <3>1, <3>3 DEF h
    <3> QED
      BY <2>4, <3>2, <3>3
  <2>8. ASSUME NEW j \in Consumed(q)', NEW k \in DOMAIN t, g[j].tag = t[k].name, t[k].n > 0
        PROVE  g[j].run < t[k].n
    <3>1. k \in 1..n - 1 /\ was(k) \in 1..n /\ t[k] = mail[q][was(k)]
      BY <2>1, <2>2
    <3>2. CASE j \in Consumed(q)
      BY <1>1, <2>1, <2>4, <2>8, <3>1, <3>2 DEF h
    <3>3. CASE j = m
      <4>1. g[j].run = mail[q][i].n /\ mail[q][i].n > 0
        BY <2>3, <2>4, <2>5, <2>8, <3>3
      <4>2. ~(was(k) < i)
        BY <2>3, <2>4, <2>8, <3>1, <3>3
      <4>3. i < was(k)
        BY <2>1, <2>2, <3>1, <4>2
      <4> QED
        BY <2>1, <2>8, <3>1, <4>1, <4>3 DEF Ordered
    <3> QED
      BY <2>4, <3>2, <3>3
  <2> QED
    BY <1>2, <2>1, <2>6, <2>7, <2>8 DEF g
<1>10. CASE QuietStep
  <2>1. mail'[q] = mail[q] /\ Quiet(q)
    BY <1>10 DEF QuietStep
  <2> QED
    BY <1>5, <1>7, <2>1 DEF Quiet, Silent
<1>11. ASSUME NEW to, NEW signal, Delivery(to, signal) PROVE Good(q)'
  <2>1. runs'[q].hist = runs[q].hist /\ (to # q => mail'[q] = mail[q])
    BY <1>11 DEF Delivery, Silent, Boxes
  <2> QED
    BY <1>5, <1>8, <1>11, <2>1
<1>12. ASSUME NEW u, Acceptance(u) PROVE Good(q)'
  BY <1>5, <1>12 DEF Acceptance, Silent
<1>13. ASSUME NEW r \in RunIds, NEW i, NEW e, Hearing(r, i, e) PROVE Good(q)'
  <2>1. CASE r = q
    BY <1>9, <1>13, <2>1
  <2>2. CASE r # q
    <3>1. runs'[q] = runs[q] /\ mail'[q] = mail[q]
      BY <1>13, <2>2 DEF Hearing, Others, Boxes
    <3> QED
      BY <1>5, <3>1
  <2> QED
    BY <2>1, <2>2
<1>14. ASSUME NEW r \in RunIds, NEW k, NEW e, Handling(r, k, e) PROVE Good(q)'
  <2>1. mail'[q] = mail[q] /\ (q # r => runs'[q] = runs[q])
    BY <1>14 DEF Handling, Others
  <2>2. CASE q = r
    <3>1. ~Consumes(e) /\ Answered(q, e)
      BY <1>14, <2>2 DEF Handling, Consumes
    <3> QED
      BY <1>1, <1>2, <1>6, <2>1, <3>1
  <2> QED
    BY <1>5, <2>1, <2>2
<1> QED
  BY <1>10, <1>11, <1>12, <1>13, <1>14 DEF Result, Kind

LEMMA SettlementsStep == ASSUME Table, Boxes, Settlements, Result PROVE Settlements'
<1> DEFINE h(q) == runs[q].hist
           Sound(q) == \A i \in Handled(q) : /\ h(q)[i].run \in DOMAIN updates
                                             /\ updates[h(q)[i].run].run = q
                                             /\ updates[h(q)[i].run].state # "pending"
           Sorted(q) == \A i, j \in Handled(q) : i < j => h(q)[i].run < h(q)[j].run
           Older(q) == \A i \in Handled(q), k \in Pending(q) : h(q)[i].run < k
           Complete(q) == \A k \in DOMAIN updates :
                 updates[k].run = q /\ updates[k].state # "pending"
                 => \E i \in Handled(q) : h(q)[i].run = k
<1> SUFFICES ASSUME NEW q \in RunIds
             PROVE  Sound(q)' /\ Sorted(q)' /\ Older(q)' /\ Complete(q)'
  BY DEF Settlements
<1>1. Sound(q) /\ Sorted(q) /\ Older(q) /\ Complete(q)
  BY DEF Settlements
<1>2. ASSUME updates' = updates, runs'[q].hist = runs[q].hist
      PROVE  Sound(q)' /\ Sorted(q)' /\ Older(q)' /\ Complete(q)'
  <2>1. Handled(q)' = Handled(q) /\ Pending(q)' = Pending(q)
    BY <1>2 DEF Handled, Pending
  <2> QED
    BY <1>1, <1>2, <2>1
<1>3. ASSUME NEW e, Answered(q, e)
      PROVE  LET g == runs'[q].hist
                 m == Len(h(q)) + 1
             IN /\ m \in Nat /\ g[m] = e
                /\ \A i \in Handled(q) : i \in Nat /\ i < m /\ g[i] = h(q)[i]
                /\ Handled(q) \subseteq Handled(q)'
                /\ e.op # "update" => Handled(q)' = Handled(q)
                /\ e.op = "update" => Handled(q)' = Handled(q) \cup {m}
  <2> DEFINE g == runs'[q].hist
             s == runs[q].hist
  <2>1. /\ Len(s) \in Nat /\ g = Append(s, e)
        /\ DOMAIN s = 1..Len(s) /\ DOMAIN g = 1..Len(s) + 1
        /\ \A i \in 1..Len(s) : g[i] = s[i]
        /\ g[Len(s) + 1] = e
    BY <1>3, Grows DEF Table, IsRow, Fields, Answered
  <2>2. \A i \in 1..Len(s) + 1 : i \in 1..Len(s) \/ i = Len(s) + 1
    BY <2>1
  <2>3. /\ \A i \in 1..Len(s) : i \in 1..Len(s) + 1 /\ i \in Nat /\ i < Len(s) + 1
        /\ Len(s) + 1 \in 1..Len(s) + 1 /\ Len(s) + 1 \in Nat
    BY <2>1
  <2> HIDE DEF g, s
  <2>4. /\ Handled(q) = {i \in 1..Len(s) : s[i].op = "update"}
        /\ Handled(q)' = {i \in 1..Len(s) + 1 : g[i].op = "update"}
    BY <2>1 DEF Handled, g, s
  <2> QED
    BY <2>1, <2>2, <2>3, <2>4 DEF g, s
<1>4. ASSUME NEW e, Answered(q, e), e.op # "update", updates' = updates
      PROVE  Sound(q)' /\ Sorted(q)' /\ Older(q)' /\ Complete(q)'
  <2>1. /\ Handled(q)' = Handled(q) /\ Pending(q)' = Pending(q)
        /\ \A i \in Handled(q) : runs'[q].hist[i] = runs[q].hist[i]
    BY <1>3, <1>4 DEF Pending
  <2> QED
    BY <1>1, <1>4, <2>1
<1>5. ASSUME NEW u, Acceptance(u)
      PROVE  Sound(q)' /\ Sorted(q)' /\ Older(q)' /\ Complete(q)'
  <2> DEFINE n == Len(updates)
  <2>1. /\ n \in Nat /\ DOMAIN updates = 1..n /\ DOMAIN updates' = 1..n + 1
        /\ \A k \in 1..n : updates'[k] = updates[k]
        /\ updates'[n + 1] = u
    BY <1>5, Grows DEF Acceptance, Boxes
  <2>2. runs'[q].hist = runs[q].hist /\ Handled(q)' = Handled(q)
    BY <1>5 DEF Acceptance, Silent, Handled
  <2>3. u.state = "pending"
    BY <1>5 DEF Acceptance
  <2>4. /\ \A k \in 1..n + 1 : k \in 1..n \/ k = n + 1
        /\ \A k \in 1..n : k \in 1..n + 1 /\ k < n + 1
    BY <2>1
  <2> HIDE DEF n
  <2>5. Sound(q)' /\ Sorted(q)'
    BY <1>1, <2>1, <2>2, <2>4
  <2>6. ASSUME NEW i \in Handled(q), NEW k \in Pending(q)' PROVE h(q)[i].run < k
    BY <1>1, <2>1, <2>4 DEF Pending
  <2>7. Complete(q)'
    BY <1>1, <2>1, <2>2, <2>3, <2>4
  <2> QED
    BY <2>2, <2>5, <2>6, <2>7
<1>6. ASSUME NEW r \in RunIds, NEW k, NEW e, Handling(r, k, e)
      PROVE  Sound(q)' /\ Sorted(q)' /\ Older(q)' /\ Complete(q)'
  <2>1. PICK verdict \in {"resolved", "rejected"} : updates' = [updates EXCEPT ![k].state = verdict]
    BY <1>6 DEF Handling
  <2>2. k \in DOMAIN updates /\ updates[k].run = r /\ updates[k].state = "pending"
    BY <1>6 DEF Handling, Pending
  <2>3. /\ DOMAIN updates' = DOMAIN updates
        /\ \A j \in DOMAIN updates : j # k => updates'[j] = updates[j]
        /\ updates'[k].run = r /\ updates'[k].state # "pending"
    <3>1. {"run", "state"} \subseteq DOMAIN updates[k]
      BY <2>2 DEF Boxes
    <3>2. /\ DOMAIN updates' = DOMAIN updates
          /\ \A j \in DOMAIN updates : j # k => updates'[j] = updates[j]
          /\ updates'[k] = [updates[k] EXCEPT !.state = verdict]
      BY <2>1, <2>2
    <3> QED
      BY <2>2, <3>1, <3>2
  <2>4. Pending(r)' = Pending(r) \ {k} /\ (q # r => Pending(q)' = Pending(q))
    BY <2>2, <2>3 DEF Pending
  <2>5. CASE q # r
    <3>1. runs'[q] = runs[q] /\ Handled(q)' = Handled(q)
      BY <1>6, <2>5 DEF Handling, Others, Handled
    <3> QED
      BY <1>1, <2>2, <2>3, <2>4, <2>5, <3>1
  <2>6. CASE q = r
    <3> DEFINE g == runs'[q].hist
               m == Len(h(q)) + 1
    <3>1. /\ m \in Nat /\ g[m] = e /\ e.run = k
          /\ \A i \in Handled(q) : i \in Nat /\ i < m /\ g[i] = h(q)[i]
          /\ Handled(q)' = Handled(q) \cup {m}
      BY <1>3, <1>6, <2>6 DEF Handling
    <3>2. \A j \in Pending(q) : k <= j /\ k \in Nat /\ j \in Nat
      BY <1>6, <2>6, LenProperties DEF Handling, Pending, Boxes, IsSeq
    <3>3. \A i \in Handled(q) : h(q)[i].run < k
      BY <1>1, <1>6, <2>6 DEF Handling
    <3> HIDE DEF g, m
    <3>4. Sound(q)'
      BY <1>1, <2>2, <2>3, <2>6, <3>1 DEF g
    <3>5. Sorted(q)'
      <4> SUFFICES ASSUME NEW i \in Handled(q) \cup {m}, NEW j \in Handled(q) \cup {m}, i < j
                   PROVE  g[i].run < g[j].run
        BY <3>1 DEF g
      <4>1. i \in Handled(q)
        BY <3>1
      <4> QED
        BY <1>1, <3>1, <3>3, <4>1
    <3>6. Older(q)'
      <4> SUFFICES ASSUME NEW i \in Handled(q) \cup {m}, NEW j \in Pending(q) \ {k}
                   PROVE  g[i].run < j
        BY <2>4, <2>6, <3>1 DEF g
      <4>1. CASE i \in Handled(q)
        BY <1>1, <3>1, <4>1
      <4>2. CASE i = m
        BY <3>1, <3>2, <4>2
      <4> QED
        BY <4>1, <4>2
    <3>7. Complete(q)'
      BY <1>1, <2>3, <3>1 DEF g
    <3> QED
      BY <3>4, <3>5, <3>6, <3>7
  <2> QED
    BY <2>5, <2>6
<1> HIDE DEF Sound, Sorted, Older, Complete
<1>7. CASE QuietStep
  <2>1. updates' = updates /\ Quiet(q)
    BY <1>7 DEF QuietStep
  <2> QED
    BY <1>2, <1>4, <2>1 DEF Quiet, Silent, Plain
<1>8. ASSUME NEW to, NEW signal, Delivery(to, signal)
      PROVE  Sound(q)' /\ Sorted(q)' /\ Older(q)' /\ Complete(q)'
  BY <1>2, <1>8 DEF Delivery, Silent
<1>9. ASSUME NEW r \in RunIds, NEW i, NEW e, Hearing(r, i, e)
      PROVE  Sound(q)' /\ Sorted(q)' /\ Older(q)' /\ Complete(q)'
  <2>1. CASE r = q
    BY <1>4, <1>9, <2>1 DEF Hearing
  <2>2. CASE r # q
    BY <1>2, <1>9, <2>2 DEF Hearing, Others
  <2> QED
    BY <2>1, <2>2
<1> QED
  BY <1>5, <1>6, <1>7, <1>8, <1>9 DEF Result, Kind

LEMMA MInvStep == MInv /\ [MailNext]_allVars => MInv'
<1> SUFFICES ASSUME MInv, [MailNext]_allVars PROVE MInv'
  OBVIOUS
<1>1. Table /\ Boxes /\ Keys /\ Ordered /\ SignalsAreConsumedOnceInOrder /\ Settlements
  BY DEF MInv
<1>2. Result
  BY <1>1, StepKind
<1>3. Table'
  BY <1>2 DEF Result
<1> QED
  BY <1>1, <1>2, <1>3, BoxesStep, KeysStep, OrderedStep, SignalsStep, SettlementsStep DEF MInv

LEMMA Invariance == MailSpec => []MInv
BY InitMInv, MInvStep, PTL DEF MailSpec
-----------------------------------------------------------------------------
(* A signal is consumed by the run it was posted to, once, and signals of  *)
(* one name oldest first, across crashes and replays of any guest.         *)
THEOREM SignalsOnceInOrder == MailSpec => []SignalsAreConsumedOnceInOrder
<1>1. MInv => SignalsAreConsumedOnceInOrder
  BY DEF MInv
<1> QED
  BY <1>1, Invariance, PTL

(* Updates are handled once, in the order of acceptance, and settled       *)
(* exactly if handled.                                                     *)
THEOREM UpdatesOnceInOrder == MailSpec => []UpdatesAreHandledOnceInOrder
<1>1. MInv => UpdatesAreHandledOnceInOrder
  BY DEF MInv, Settlements, Handled, UpdatesAreHandledOnceInOrder, Events
<1> QED
  BY <1>1, Invariance, PTL

(* Two runs started under one concurrency key are never both under way.    *)
THEOREM KeysExclude == MailSpec => []KeyedRunsDoNotOverlap
<1>1. ASSUME MInv PROVE KeyedRunsDoNotOverlap
  <2> DEFINE S == {r \in scenario.keyed : Live(r) /\ (runs[r].status # "ready" \/ Events(r) # <<>>)}
  <2>1. \A p, q \in S : p = q
    BY <1>1 DEF MInv, Keys, Started, Events
  <2>2. S = {} \/ \E p : S = {p}
    BY <2>1
  <2> HIDE DEF S
  <2>3. Cardinality(S) = 0 \/ Cardinality(S) = 1
    BY <2>2, FS_EmptySet, FS_Singleton, Zenon
  <2> QED
    BY <2>3 DEF KeyedRunsDoNotOverlap, S
<1> QED
  BY <1>1, Invariance, PTL

(* The deadline of an open wait does not move.                             *)
THEOREM DeadlinesStand == MailSpec => DeadlinesDoNotMove
<1> DEFINE Stands == \A r \in RunIds :
        /\ runs[r].until # 0 /\ runs'[r].until # 0
        /\ Len(Events(r)) = Len(runs'[r].hist)
        => runs'[r].until = runs[r].until
<1>1. ASSUME MInv, [MailNext]_allVars PROVE [Stands]_allVars
  <2> SUFFICES ASSUME NEW r \in RunIds, runs[r].until # 0, runs'[r].until # 0,
                      Len(runs[r].hist) = Len(runs'[r].hist)
               PROVE  runs'[r].until = runs[r].until
    BY DEF Events
  <2>1. Result
    BY <1>1, StepKind DEF MInv
  <2>2. ASSUME NEW e, Answered(r, e) PROVE FALSE
    <3>1. Len(runs[r].hist) \in Nat /\ Len(runs'[r].hist) = Len(runs[r].hist) + 1
      BY <1>1, <2>2, Grows DEF MInv, Table, IsRow, Fields, Answered
    <3> QED
      BY <3>1
  <2>3. Silent(r)
    BY <2>1, <2>2, RowStep
  <2> QED
    BY <2>3 DEF Silent, Opened, Claimed, Closed, WentOn
<1> QED
  BY <1>1, Invariance, PTL DEF MailSpec, DeadlinesDoNotMove
=============================================================================
