--------------------------- MODULE DurableRunsProofs ---------------------------
(***************************************************************************)
(* What a step of the durable runs may do to a row of the instances table, *)
(* for every guest, every test, any number of runs, workers and crashes:   *)
(* the lemmas the proofs about the guests rest on.                         *)
(*                                                                         *)
(* Nothing is assumed of Guest: whatever host calls a guest makes, a step  *)
(* does one of a few things to each row (Silent, Answered).                *)
(***************************************************************************)
EXTENDS DurableRuns, SequenceTheorems, FiniteSetTheorems, TLAPS

\* A sequence of anything.
IsSeq(s) == s \in Seq(Range(s))

Fields == {"prog", "status", "hist", "cancel", "parent", "policy", "from", "waits", "any",
           "result", "since", "until", "holds"}

IsRow(x) ==
    /\ Fields \subseteq DOMAIN x
    /\ IsSeq(x.hist)
    /\ x.status = "absent" => x.hist = <<>>

\* The instances table; a row not in use has no events.
Table ==
    /\ scenario \in Scenarios
    /\ runs = [r \in RunIds |-> runs[r]]
    /\ \A r \in RunIds : IsRow(runs[r])

\* A signal consumed; and an event that neither consumes a signal nor handles an update.
Consumes(e) == e.op \in {"recv", "pollsignal"} /\ e.res = "ok" /\ e.run > 0
Plain(e) == ~Consumes(e) /\ e.op # "update"

Begun == {"running", "sleeping", "waiting", "parked"}

\* What a step does to the row q: it records an answer ...
Answered(q, e) ==
    /\ runs[q].status = "running"
    /\ runs'[q].status \in {"running", "sleeping"}
    /\ runs'[q].hist = Append(runs[q].hist, e)
    /\ runs'[q].holds = runs[q].holds

\* ... or it leaves the events alone.
Claimed(q) ==
    /\ KeyIsFree(q)
    /\ runs'[q].holds = (q \in scenario.keyed)
    /\ runs'[q].until = runs[q].until
    /\ \A p \in RunIds \ {q} : runs'[p] = runs[p]

Opened(q) ==
    /\ runs'[q].status = "ready"
    /\ runs'[q].hist = <<>>
    /\ ~runs'[q].holds
    /\ runs'[q].until = 0

Closed(q) ==
    /\ runs'[q].status \in Terminal
    /\ ~runs'[q].holds
    /\ runs'[q].until = runs[q].until

WentOn(q) ==
    /\ runs'[q].holds = runs[q].holds
    /\ runs'[q].status = runs[q].status \/ runs[q].status \in Begun
    /\ runs[q].until # 0 => runs'[q].until \in {0, runs[q].until}

Silent(q) ==
    /\ runs'[q].hist = runs[q].hist
    /\ runs'[q].status = "absent" => runs[q].status = "absent"
    /\ runs'[q] = runs[q] \/ Opened(q) \/ Claimed(q) \/ Closed(q) \/ WentOn(q)

Quiet(q) == Silent(q) \/ \E e : Plain(e) /\ Answered(q, e)
-----------------------------------------------------------------------------
LEMMA LeastExists ==
    ASSUME NEW S \in SUBSET Nat, S # {}
    PROVE  Min(S) \in S /\ \A y \in S : Min(S) <= y
<1> DEFINE R == {pair \in Nat \X Nat : pair[1] < pair[2]}
<1>1. IsWellFoundedOn(R, Nat)
  BY NatLessThanWellFounded DEF OpToRel
<1> PICK x \in S : \A y \in S : ~(<<y, x>> \in R)
  <2> HIDE DEF R
  <2> QED
    BY <1>1, WFMin
<1>2. ASSUME NEW y \in S PROVE x <= y
  <2>1. ~(y < x)
    OBVIOUS
  <2> QED
    BY <2>1
<1> QED
  BY <1>2 DEF Min

LEMMA Grows ==
    ASSUME NEW s, NEW e, IsSeq(s)
    PROVE  LET t == Append(s, e)
           IN /\ IsSeq(t)
              /\ Len(s) \in Nat
              /\ Len(t) = Len(s) + 1
              /\ DOMAIN s = 1..Len(s)
              /\ DOMAIN t = 1..Len(s) + 1
              /\ \A i \in 1..Len(s) : t[i] = s[i]
              /\ t[Len(s) + 1] = e
<1> DEFINE T == Range(s) \cup {e}
<1>1. s \in Seq(T)
  BY SeqMonotonic, Range(s) \subseteq T DEF IsSeq
<1>2. Append(s, e) \in Seq(T)
  BY <1>1, AppendProperties
<1>3. IsSeq(Append(s, e))
  BY <1>2, SeqOfRange DEF IsSeq
<1> QED
  BY <1>1, <1>2, <1>3, AppendProperties, LenProperties

LEMMA Shrinks ==
    ASSUME NEW s, IsSeq(s), NEW i \in 1..Len(s)
    PROVE  LET t == RemoveAt(s, i)
           IN /\ IsSeq(t)
              /\ Len(s) \in Nat
              /\ DOMAIN s = 1..Len(s)
              /\ DOMAIN t = 1..Len(s) - 1
              /\ \A j \in 1..Len(s) - 1 : t[j] = s[IF j < i THEN j ELSE j + 1]
<1> DEFINE T == Range(s)
           u == SubSeq(s, 1, i - 1)
           v == SubSeq(s, i + 1, Len(s))
<1>1. Len(s) \in Nat /\ DOMAIN s = 1..Len(s) /\ \A j \in 1..Len(s) : s[j] \in T
  BY LenProperties, ElementOfSeq DEF IsSeq
<1>2. u \in Seq(T) /\ Len(u) = i - 1 /\ \A j \in 1..i - 1 : u[j] = s[j]
  <2>1. \A j \in 1..i - 1 : s[j] \in T
    BY <1>1
  <2> QED
    BY <1>1, <2>1, SubSeqProperties
<1>3. /\ v \in Seq(T) /\ Len(v) = Len(s) - i
      /\ \A j \in 1..Len(s) - i : v[j] = s[j + i]
  <2>1. \A j \in i + 1..Len(s) : s[j] \in T
    BY <1>1
  <2> HIDE DEF T
  <2>2. /\ v \in Seq(T) /\ Len(v) = IF i + 1 <= Len(s) THEN Len(s) - (i + 1) + 1 ELSE 0
        /\ \A j \in 1..Len(s) - (i + 1) + 1 : v[j] = s[i + 1 + j - 1]
    BY <1>1, <2>1, SubSeqProperties
  <2>3. ASSUME NEW j \in 1..Len(s) - i PROVE v[j] = s[j + i]
    <3>1. j \in 1..Len(s) - (i + 1) + 1 /\ i + 1 + j - 1 = j + i
      BY <1>1
    <3> QED
      BY <2>2, <3>1
  <2>4. Len(v) = Len(s) - i
    <3>1. Len(v) = IF i + 1 <= Len(s) THEN Len(s) - (i + 1) + 1 ELSE 0
      BY <2>2
    <3>2. Len(s) \in Nat
      BY <1>1
    <3> HIDE DEF v
    <3> QED
      BY <3>1, <3>2
  <2> QED
    BY <2>2, <2>3, <2>4
<1>4. /\ u \o v \in Seq(T) /\ Len(u \o v) = Len(s) - 1
      /\ \A j \in 1..Len(s) - 1 : (u \o v)[j] = s[IF j < i THEN j ELSE j + 1]
  <2> HIDE DEF u, v, T
  <2>1. /\ u \o v \in Seq(T) /\ Len(u \o v) = Len(u) + Len(v)
        /\ \A j \in 1..Len(u) + Len(v) : (u \o v)[j] = IF j <= Len(u) THEN u[j] ELSE v[j - Len(u)]
    BY <1>2, <1>3, ConcatProperties
  <2>2. ASSUME NEW j \in 1..Len(s) - 1
        PROVE  (u \o v)[j] = s[IF j < i THEN j ELSE j + 1]
    <3>1. CASE j < i
      BY <1>1, <1>2, <1>3, <2>1, <3>1
    <3>2. CASE ~(j < i)
      <4>1. j - (i - 1) \in 1..Len(s) - i /\ j - (i - 1) + i = j + 1
        BY <1>1, <3>2
      <4>2. (u \o v)[j] = v[j - (i - 1)]
        BY <1>1, <1>2, <1>3, <2>1, <3>2
      <4> QED
        BY <1>3, <3>2, <4>1, <4>2
    <3> QED
      BY <3>1, <3>2
  <2> QED
    BY <1>1, <1>2, <1>3, <2>1, <2>2
<1>5. IsSeq(RemoveAt(s, i)) /\ DOMAIN RemoveAt(s, i) = 1..Len(RemoveAt(s, i))
  BY <1>4, SeqOfRange, LenProperties DEF IsSeq, RemoveAt
<1> QED
  BY <1>1, <1>4, <1>5 DEF RemoveAt

\* A finite set of numbers has a greatest.
LEMMA GreatestOfFinite ==
    ASSUME NEW S \in SUBSET Nat, IsFiniteSet(S), S # {}
    PROVE  Max(S) \in S /\ \A y \in S : y <= Max(S)
<1> DEFINE Above(x) == {y \in S : y > x}
           T        == {Cardinality(Above(x)) : x \in S}
<1>1. \A x \in S : IsFiniteSet(Above(x)) /\ Cardinality(Above(x)) \in Nat
  BY FS_Subset, FS_CardinalityType
<1>2. T \in SUBSET Nat /\ T # {}
  BY <1>1
<1>3. PICK x \in S : \A y \in S : Cardinality(Above(x)) <= Cardinality(Above(y))
  <2> HIDE DEF Above
  <2>1. Min(T) \in T /\ \A n \in T : Min(T) <= n
    <3> HIDE DEF T
    <3> QED
      BY <1>2, LeastExists
  <2> QED
    BY <2>1
<1>4. ASSUME NEW y \in S, y > x PROVE FALSE
  <2>1. Above(y) \subseteq Above(x) /\ Above(y) # Above(x)
    <3>1. y \in Nat /\ x \in Nat /\ \A z \in S : z \in Nat
      OBVIOUS
    <3>2. y \in Above(x) /\ y \notin Above(y)
      BY <1>4, <3>1
    <3>3. \A z \in Above(y) : z \in Above(x)
      BY <1>4, <3>1
    <3> HIDE DEF Above
    <3> QED
      BY <3>2, <3>3
  <2>2. Cardinality(Above(y)) < Cardinality(Above(x))
    <3> HIDE DEF Above
    <3> QED
      BY <1>1, <2>1, FS_Subset
  <2> HIDE DEF Above
  <2> QED
    BY <1>1, <1>3, <2>2
<1>5. \A y \in S : x >= y
  BY <1>4
<1> QED
  BY <1>5 DEF Max

LEMMA NewIdIsLeast ==
    ASSUME RoomForARow, NEW r \in RunIds, runs[r].status = "absent"
    PROVE  NewId <= r
<1> DEFINE S == {q \in RunIds : runs[q].status = "absent"}
<1>1. S \in SUBSET Nat /\ S # {}
  BY RunIdsAreNumbers
<1>2. Min(S) \in S /\ \A y \in S : Min(S) <= y
  BY <1>1, LeastExists
<1>3. \A q \in RunIds : q < Min(S) => runs[q].status # "absent"
  BY <1>1, <1>2, RunIdsAreNumbers
<1>4. NewId \in RunIds /\ \A q \in RunIds : q < NewId => runs[q].status # "absent"
  BY <1>2, <1>3 DEF NewId
<1> QED
  BY <1>4, RunIdsAreNumbers

LEMMA NewIdIsAbsent ==
    ASSUME RoomForARow
    PROVE  NewId \in RunIds /\ runs[NewId].status = "absent"
<1> DEFINE S == {r \in RunIds : runs[r].status = "absent"}
<1>1. S \in SUBSET Nat /\ S # {}
  BY RunIdsAreNumbers DEF RoomForARow
<1>2. Min(S) \in S /\ \A y \in S : Min(S) <= y
  BY <1>1, LeastExists
<1>3. \A q \in RunIds : q < Min(S) => runs[q].status # "absent"
  BY <1>1, <1>2, RunIdsAreNumbers
<1> QED
  BY <1>2, <1>3 DEF NewId
-----------------------------------------------------------------------------
LEMMA RecordIsQuiet ==
    ASSUME Table, NEW r \in RunIds, NEW e, Record(r, e), Plain(e), UNCHANGED scenario
    PROVE  Table' /\ \A q \in RunIds : Quiet(q)
<1>1. IsSeq(Append(runs[r].hist, e))
  BY Grows DEF Table, IsRow, Fields
<1>2. ASSUME NEW q \in RunIds, q # r PROVE runs'[q] = runs[q]
  BY <1>2 DEF Record, Table
<1>3. /\ runs'[r].status = "running" /\ runs[r].status = "running"
      /\ runs'[r].holds = runs[r].holds
      /\ runs'[r].hist = Append(runs[r].hist, e)
      /\ Fields \subseteq DOMAIN runs'[r]
  BY DEF Record, Table, IsRow, Fields
<1>4. runs' = [q \in RunIds |-> runs'[q]]
  BY DEF Record, Table
<1>5. Table'
  BY <1>1, <1>2, <1>3, <1>4 DEF Table, IsRow, Fields
<1>6. Quiet(r)
  BY <1>3 DEF Quiet, Answered
<1> QED
  BY <1>2, <1>5, <1>6 DEF Quiet, Silent

-----------------------------------------------------------------------------
\* A step that records no answer.
Rewritten ==
    /\ scenario' = scenario
    /\ runs' = [q \in RunIds |-> runs'[q]]
    /\ \A q \in RunIds :
          /\ Silent(q)
          /\ Fields \subseteq DOMAIN runs'[q]

LEMMA RewrittenIsQuiet ==
    ASSUME Table, Rewritten PROVE Table' /\ \A q \in RunIds : Quiet(q)
BY DEF Table, Rewritten, IsRow, Fields, Quiet, Silent

LEMMA KeptIsRewritten == ASSUME Table, UNCHANGED <<scenario, runs>> PROVE Rewritten
BY DEF Table, Rewritten, IsRow, Fields, Silent

\* A step of a segment, of the timers, of the reaper.
LEMMA ProgressIsQuiet ==
    ASSUME Table, NEW r \in RunIds, Progress(r)
    PROVE  Table' /\ scenario' = scenario /\ \A q \in RunIds : Quiet(q)
<1> DEFINE Result == Table' /\ scenario' = scenario /\ \A q \in RunIds : Quiet(q)
<1> USE DEF Begun
<1>1. Rewritten => Result
  BY RewrittenIsQuiet DEF Rewritten
<1>2. (\E e : Record(r, e) /\ e.op \notin {"recv", "pollsignal", "update"}) /\ UNCHANGED scenario
      => Result
  BY RecordIsQuiet DEF Plain, Consumes
<1> HIDE DEF Result
<1>3. ASSUME NEW w \in Workers, Claim(r, w) PROVE Result
  <2>1. Rewritten
    BY <1>3 DEF Claim, Rewritten, Table, IsRow, Fields, Silent, Claimed
  <2> QED
    BY <2>1, <1>1
<1>4. ASSUME NEW c, MakeCall(r, c) \/ RefuseCall(r, c) PROVE Result
  <2>1. UNCHANGED <<scenario, runs>>
    BY <1>4 DEF MakeCall, RefuseCall
  <2> QED
    BY <2>1, <1>1, KeptIsRewritten
<1>5. ASSUME NEW c, RecordCall(r, c) PROVE Result
  BY <1>5, <1>2 DEF RecordCall, Answer
<1>6. ASSUME NEW c, RecordSend(r, c) PROVE Result
  BY <1>6, <1>2 DEF RecordSend, Answer
<1>7. ASSUME NEW c, RecordLocal(r, c) PROVE Result
  BY <1>7, <1>2 DEF RecordLocal, Answer
<1>8. ASSUME NEW c, RecordChild(r, c) PROVE Result
  BY <1>8, <1>2 DEF RecordChild, Answer
<1>9. ASSUME NEW c, AwaitAnswered(r, c) PROVE Result
  BY <1>9, <1>2 DEF AwaitAnswered, Answer
<1>10. ASSUME NEW c, SleepBegins(r, c) PROVE Result
  <2> DEFINE e == [Answer("sleep", "none", "ok", 0) EXCEPT
                      !.at = After(DurableNow(runs[r].hist), c.length)]
  <2>1. Plain(e)
    BY DEF Answer, Plain, Consumes
  <2> HIDE DEF e
  <2>2. /\ runs[r].status = "running" /\ scenario' = scenario
        /\ runs' = [runs EXCEPT ![r].hist = Append(@, e), ![r].status = "sleeping",
                                ![r].until = After(now, c.length)]
    BY <1>10 DEF SleepBegins, e
  <2>3. IsSeq(Append(runs[r].hist, e))
    BY Grows DEF Table, IsRow, Fields
  <2>4. \A q \in RunIds \ {r} : runs'[q] = runs[q]
    BY <2>2 DEF Table
  <2>5. /\ Answered(r, e) /\ runs'[r].status = "sleeping"
        /\ Fields \subseteq DOMAIN runs'[r]
    BY <2>2 DEF Table, IsRow, Fields, Answered
  <2>6. runs' = [q \in RunIds |-> runs'[q]]
    BY <2>2 DEF Table
  <2>7. Table'
    BY <2>2, <2>3, <2>4, <2>5, <2>6 DEF Table, IsRow, Fields, Answered
  <2> QED
    BY <2>1, <2>2, <2>4, <2>5, <2>7 DEF Result, Quiet, Silent
<1>11. ASSUME NEW c, InsertChild(r, c) PROVE Result
  <2>1. NewId \in RunIds /\ runs[NewId].status = "absent"
    BY <1>11, NewIdIsAbsent DEF InsertChild
  <2>2. PICK p, parent, policy : runs' = [runs EXCEPT ![NewId] = Fresh(p, parent, policy, 0)]
    BY <1>11 DEF InsertChild
  <2>3. Rewritten
    BY <1>11, <2>1, <2>2
       DEF InsertChild, Rewritten, Table, IsRow, Fields, Silent, Opened, Fresh, Absent
  <2> QED
    BY <2>3, <1>1
<1>12. ASSUME NEW c, AwaitSuspends(r, c) PROVE Result
  <2>1. Rewritten
    BY <1>12 DEF AwaitSuspends, Rewritten, Table, IsRow, Fields, Silent, WentOn
  <2> QED
    BY <2>1, <1>1
<1>13. ASSUME NEW c, ContinueRun(r, c) PROVE Result
  <2>1. NewId \in RunIds /\ runs[NewId].status = "absent" /\ runs[r].status = "running"
    BY <1>13, NewIdIsAbsent DEF ContinueRun
  <2>2. PICK p, parent, policy, from :
          runs' = [runs EXCEPT ![r].status = "done", ![r].result = "continued",
                               ![r].holds = FALSE,
                               ![NewId] = Fresh(p, parent, policy, from)]
    BY <1>13 DEF ContinueRun
  <2>3. runs'[NewId] = Fresh(p, parent, policy, from)
    BY <2>1, <2>2 DEF Table
  <2>4. /\ runs'[r] = [runs[r] EXCEPT !.status = "done", !.result = "continued", !.holds = FALSE]
        /\ \A q \in RunIds \ {r, NewId} : runs'[q] = runs[q]
        /\ runs' = [q \in RunIds |-> runs'[q]]
    BY <2>1, <2>2 DEF Table
  <2> HIDE DEF NewId
  <2>5. Silent(NewId) /\ Fields \subseteq DOMAIN runs'[NewId]
    BY <2>1, <2>3 DEF Table, IsRow, Fields, Silent, Opened, Fresh, Absent
  <2>6. /\ Silent(r) /\ Fields \subseteq DOMAIN runs'[r]
    BY <2>4 DEF Table, IsRow, Fields, Silent, Closed, Terminal
  <2>7. ASSUME NEW q \in RunIds, q \notin {r, NewId}
        PROVE  Silent(q) /\ Fields \subseteq DOMAIN runs'[q]
    BY <2>4, <2>7 DEF Silent, Table, IsRow
  <2>8. UNCHANGED scenario
    BY <1>13 DEF ContinueRun
  <2>9. Rewritten
    BY <2>4, <2>5, <2>6, <2>7, <2>8 DEF Rewritten
  <2> QED
    BY <2>9, <1>1
<1>14. ASSUME NEW c, Finish(r, c) PROVE Result
  <2>1. ASSUME NEW q \in RunIds
        PROVE  /\ Silent(q)
               /\ Fields \subseteq DOMAIN runs'[q]
    BY <1>14 DEF Finish, FinalStatus, Table, IsRow, Fields, Silent, Closed, WentOn, Terminal, Live
  <2>2. scenario' = scenario /\ runs' = [q \in RunIds |-> runs'[q]]
    BY <1>14 DEF Finish
  <2> QED
    BY <2>1, <2>2, <1>1 DEF Rewritten
<1>15. ASSUME SleepEnds(r) \/ ChildWakes(r) \/ Reap(r) PROVE Result
  <2>1. Rewritten
    BY <1>15 DEF SleepEnds, ChildWakes, Reap, Rewritten, Table, IsRow, Fields, Silent, WentOn
  <2> QED
    BY <2>1, <1>1
<1>16. ASSUME FenceLost(r) PROVE Result
  BY <1>16, <1>1, KeptIsRewritten DEF FenceLost
<1>17. ASSUME NEW c, Perform(r, c) PROVE Result
  BY <1>17, <1>4, <1>5, <1>6, <1>7, <1>8, <1>9, <1>10, <1>11, <1>12, <1>13, <1>14 DEF Perform
<1>18. Result
  BY <1>3, <1>15, <1>16, <1>17 DEF Progress
<1> QED
  BY <1>18 DEF Result

LEMMA EngineIsQuiet ==
    ASSUME Table, Next
    PROVE  Table' /\ scenario' = scenario /\ \A q \in RunIds : Quiet(q)
<1>1. ASSUME NEW r \in RunIds, RequestCancel(r) \/ CancelPropagates(r) PROVE Rewritten
  BY <1>1 DEF RequestCancel, CancelPropagates, Rewritten, Table, IsRow, Fields, Silent, WentOn
<1>2. ASSUME (\E s \in outbox : Dispatch(s)) \/ (\E w \in Workers : Crash(w)) \/ Tick
      PROVE  Rewritten
  <2>1. UNCHANGED <<scenario, runs>>
    BY <1>2 DEF Dispatch, Crash, Tick
  <2> QED
    BY <2>1, KeptIsRewritten
<1>3. Rewritten => Table' /\ scenario' = scenario /\ \A q \in RunIds : Quiet(q)
  BY RewrittenIsQuiet DEF Rewritten
<1> QED
  BY <1>1, <1>2, <1>3, ProgressIsQuiet DEF Next
-----------------------------------------------------------------------------
\* What an engine step records: the calls of DurableRuns, and no other.
EngineOps == {"call", "send", "deferred", "poll", "defer", "sleep", "spawn", "detach", "await"}

Records(q) ==
    \/ runs'[q].hist = runs[q].hist
    \/ \E e : e.op \in EngineOps /\ runs'[q].hist = Append(runs[q].hist, e)

\* What an engine step does to a row of the table, field by field.
Ongoing == {"ready", "running", "sleeping", "waiting", "parked"}

\* What is recorded of the call c of run r.
Recorded(r, c, e) ==
    /\ e.op = c.op
    /\ c.op \in {"call", "send", "deferred", "defer"} => e.tag = c.tag
    /\ c.op = "call" => exec[r].got # "none" /\ e.res = exec[r].got
    /\ c.op = "poll" => e.res = IF runs[r].cancel THEN "cancelled" ELSE "ok"
    /\ c.op = "await" => e.res \in {"ok", "error"}
    /\ c.op \notin {"call", "poll", "await"} => e.res = "ok"
    /\ c.op \in {"spawn", "detach"} => exec[r].child # 0 /\ e.run = exec[r].child
    /\ c.op = "await" /\ ~c.any /\ e.res = "ok" => \A k \in c.kids : runs[Latest(k)].status = "done"

Segment(q) == Executing(q) /\ runs[q].status = "running"

Keeps(q, fields) == \A f \in fields : runs'[q][f] = runs[q][f]

Spoke(q) ==
    /\ Segment(q)
    /\ Asks(q).op \in EngineOps
    /\ \E e : Recorded(q, Asks(q), e) /\ runs'[q].hist = Append(runs[q].hist, e)
    /\ runs'[q].status \in {"running", "sleeping"}
    /\ Keeps(q, {"cancel", "result"})

Returned(q) ==
    /\ Segment(q)
    /\ Asks(q).op \in {"return", "fail"}
    /\ runs'[q].status = FinalStatus(q, Asks(q))
    /\ runs'[q].result = IF Asks(q).op = "return" THEN Asks(q).outcome ELSE "none"
    /\ Keeps(q, {"hist", "cancel"})
    /\ \A k \in RunIds :
          runs[k].parent = q /\ Live(k) /\ k # q =>
             /\ runs[k].policy = "REQUEST_CANCEL" => runs'[k].cancel
             /\ runs[k].policy = "TERMINATE" => runs'[k].status = "terminated"

Continued(q) ==
    /\ Segment(q)
    /\ Asks(q).op = "continue"
    /\ runs'[q].status = "done" /\ runs'[q].result = "continued"
    /\ Keeps(q, {"hist", "cancel"})
    /\ \E n \in RunIds :
          /\ runs[n].status = "absent"
          /\ runs'[n] = Fresh(Asks(q).prog, runs[q].parent, runs[q].policy, First(q))

Swept(q) ==
    /\ runs[q].policy = "TERMINATE"
    /\ runs'[q].status = "terminated"
    /\ Keeps(q, {"hist", "cancel", "result"})

Warned(q) ==
    /\ runs'[q].cancel
    /\ q \in cancels' \/ runs[q].policy = "REQUEST_CANCEL"
    /\ Keeps(q, {"status", "hist", "result"})

Moved(q) ==
    /\ runs'[q].status \in Ongoing
    /\ Keeps(q, {"hist", "cancel", "result"})

Went(q) ==
    /\ runs[q].status \notin Terminal \cup {"absent"}
    /\ Keeps(q, {"prog", "parent", "policy", "from", "since"})
    /\ Spoke(q) \/ runs'[q].until \in {0, runs[q].until}
    /\ Spoke(q) \/ Returned(q) \/ Continued(q) \/ Swept(q) \/ Warned(q) \/ Moved(q)

BornOf(q, r) ==
    /\ r # q /\ Segment(r)
    /\ \/ /\ Asks(r).op = "spawn"
          /\ runs'[q] = Fresh(Asks(r).prog, r, Asks(r).policy, 0)
          /\ runs'[r] = runs[r]
       \/ /\ Asks(r).op = "detach"
          /\ runs'[q] = Fresh(Asks(r).prog, 0, "ABANDON", 0)
          /\ runs'[r] = runs[r]
       \/ /\ Asks(r).op = "continue"
          /\ runs'[q] = Fresh(Asks(r).prog, runs[r].parent, runs[r].policy, First(r))
          /\ runs'[r].status = "done"

Born(q) == q = NewId /\ RoomForARow /\ \E r \in RunIds : BornOf(q, r)

Evolves(q) == runs'[q] = runs[q] \/ Born(q) \/ Went(q)

LEMMA SpokeStep ==
    ASSUME Table, NEW r \in RunIds, Executing(r), Asks(r).op \in EngineOps,
           NEW e, Record(r, e), Recorded(r, Asks(r), e), NEW q \in RunIds
    PROVE  Evolves(q)
<1>1. CASE q = r
  <2>1. runs'[r] = [runs[r] EXCEPT !.hist = Append(@, e)]
    BY DEF Record, Table
  <2>2. Went(r)
    BY <2>1 DEF Record, Table, IsRow, Fields, Went, Spoke, Segment, Keeps, Terminal
  <2> QED
    BY <1>1, <2>2 DEF Evolves
<1>2. CASE q # r
  BY <1>2 DEF Record, Table, Evolves
<1> QED
  BY <1>1, <1>2

LEMMA SegmentRows ==
    ASSUME Table, NEW r \in RunIds, Executing(r), NEW c, c = Asks(r), Perform(r, c),
           NEW q \in RunIds
    PROVE  Evolves(q)
<1> USE DEF Table, IsRow, Fields
<1>1. ASSUME MakeCall(r, c) \/ RefuseCall(r, c) PROVE Evolves(q)
  BY <1>1 DEF MakeCall, RefuseCall, Evolves
<1>2. ASSUME RecordCall(r, c) PROVE Evolves(q)
  <2>1. Recorded(r, c, Answer("call", c.tag, exec[r].got, 0))
    BY <1>2 DEF RecordCall, Recorded, Answer
  <2> QED
    BY <1>2, <2>1, SpokeStep DEF RecordCall, EngineOps
<1>3. ASSUME RecordSend(r, c) PROVE Evolves(q)
  <2>1. Recorded(r, c, Answer(c.op, c.tag, "ok", 0)) /\ c.op \in EngineOps
    BY <1>3 DEF RecordSend, Recorded, Answer, EngineOps
  <2> QED
    BY <1>3, <2>1, SpokeStep DEF RecordSend
<1>4. ASSUME RecordLocal(r, c) PROVE Evolves(q)
  <2>1. CASE c.op = "poll"
    <3> DEFINE e == Answer("poll", "none", IF runs[r].cancel THEN "cancelled" ELSE "ok", 0)
    <3>1. Recorded(r, c, e) /\ c.op \in EngineOps
      BY <2>1 DEF Recorded, Answer, EngineOps
    <3>2. Record(r, e)
      BY <1>4, <2>1 DEF RecordLocal
    <3> QED
      BY <3>1, <3>2, SpokeStep
  <2>2. CASE c.op # "poll"
    <3>1. Recorded(r, c, Answer("defer", c.tag, "ok", 0)) /\ c.op \in EngineOps
      BY <1>4, <2>2 DEF RecordLocal, Recorded, Answer, EngineOps
    <3> QED
      BY <1>4, <2>2, <3>1, SpokeStep DEF RecordLocal
  <2> QED
    BY <2>1, <2>2
<1>5. ASSUME RecordChild(r, c) PROVE Evolves(q)
  <2>1. Recorded(r, c, Answer(c.op, "none", "ok", exec[r].child)) /\ c.op \in EngineOps
    BY <1>5 DEF RecordChild, Recorded, Answer, EngineOps
  <2> QED
    BY <1>5, <2>1, SpokeStep DEF RecordChild
<1>6. ASSUME AwaitAnswered(r, c) PROVE Evolves(q)
  <2>1. PICK k \in c.kids :
          LET heard == IF c.any THEN {k} ELSE c.kids
          IN Record(r, Answer("await", "none",
                              IF \A j \in heard : runs[Latest(j)].status = "done"
                              THEN "ok" ELSE "error", k))
    BY <1>6 DEF AwaitAnswered
  <2> DEFINE heard == IF c.any THEN {k} ELSE c.kids
             res == IF \A j \in heard : runs[Latest(j)].status = "done" THEN "ok" ELSE "error"
             e == Answer("await", "none", res, k)
  <2>2. Recorded(r, c, e)
    <3>1. res \in {"ok", "error"}
      OBVIOUS
    <3>2. ~c.any /\ res = "ok" => \A j \in c.kids : runs[Latest(j)].status = "done"
      OBVIOUS
    <3>3. e.op = "await" /\ e.res = res
      BY DEF Answer
    <3> HIDE DEF res, e
    <3> QED
      BY <1>6, <3>1, <3>2, <3>3 DEF AwaitAnswered, Recorded
  <2>3. Record(r, e)
    BY <2>1
  <2> HIDE DEF e
  <2> QED
    BY <1>6, <2>2, <2>3, SpokeStep DEF AwaitAnswered, EngineOps
<1>7. ASSUME SleepBegins(r, c) PROVE Evolves(q)
  <2> DEFINE e == [Answer("sleep", "none", "ok", 0) EXCEPT
                      !.at = After(DurableNow(runs[r].hist), c.length)]
  <2>1. e.op = "sleep" /\ e.res = "ok"
    BY DEF Answer
  <2> HIDE DEF e
  <2>2. /\ runs[r].status = "running" /\ c.op = "sleep"
        /\ runs' = [runs EXCEPT ![r].hist = Append(@, e), ![r].status = "sleeping",
                                ![r].until = After(now, c.length)]
    BY <1>7 DEF SleepBegins, e
  <2>3. runs'[r] = [runs[r] EXCEPT !.hist = Append(@, e), !.status = "sleeping",
                                   !.until = After(now, c.length)]
    BY <2>2
  <2>4. CASE q # r
    BY <2>2, <2>4 DEF Evolves
  <2>5. Recorded(r, c, e)
    BY <2>1, <2>2 DEF Recorded
  <2>6. Spoke(r)
    BY <2>2, <2>3, <2>5 DEF Spoke, Segment, Keeps, EngineOps
  <2>7. Went(r)
    BY <2>2, <2>3, <2>6 DEF Went, Keeps, Terminal
  <2> QED
    BY <2>4, <2>7 DEF Evolves
<1>8. ASSUME InsertChild(r, c) PROVE Evolves(q)
  <2>1. PICK n \in RunIds : n = NewId /\ runs[n].status = "absent" /\ n # r /\ RoomForARow
    BY <1>8, NewIdIsAbsent DEF InsertChild
  <2> DEFINE child == IF c.op = "spawn" THEN Fresh(c.prog, r, c.policy, 0)
                                        ELSE Fresh(c.prog, 0, "ABANDON", 0)
  <2>2. runs' = [runs EXCEPT ![n] = child]
    BY <1>8, <2>1 DEF InsertChild
  <2> HIDE DEF child
  <2>3. CASE q # n
    BY <2>2, <2>3 DEF Evolves
  <2>4. runs'[n] = child /\ runs'[r] = runs[r]
    BY <2>1, <2>2
  <2>5. Born(n)
    BY <1>8, <2>1, <2>4 DEF child, InsertChild, Born, BornOf, Segment
  <2> QED
    BY <2>3, <2>5 DEF Evolves
<1>9. ASSUME AwaitSuspends(r, c) PROVE Evolves(q)
  <2>1. CASE q = r
    BY <1>9, <2>1 DEF AwaitSuspends, Evolves, Went, Moved, Keeps, Ongoing, Terminal
  <2> QED
    BY <1>9, <2>1 DEF AwaitSuspends, Evolves
<1>10. ASSUME ContinueRun(r, c) PROVE Evolves(q)
  <2>1. PICK n \in RunIds : n = NewId /\ runs[n].status = "absent" /\ n # r /\ RoomForARow
    BY <1>10, NewIdIsAbsent DEF ContinueRun
  <2> DEFINE next == Fresh(c.prog, runs[r].parent, runs[r].policy, First(r))
  <2>2. runs' = [runs EXCEPT ![r].status = "done", ![r].result = "continued",
                             ![r].holds = FALSE, ![n] = next]
    BY <1>10, <2>1 DEF ContinueRun
  <2> HIDE DEF next
  <2>3. /\ runs'[n] = next
        /\ runs'[r] = [runs[r] EXCEPT !.status = "done", !.result = "continued", !.holds = FALSE]
        /\ q \notin {n, r} => runs'[q] = runs[q]
    BY <2>1, <2>2
  <2>4. Born(n)
    BY <1>10, <2>1, <2>3 DEF next, ContinueRun, Born, BornOf, Segment
  <2>5. Went(r)
    <3>1. runs'[r].status = "done" /\ runs'[r].result = "continued"
      BY <2>3
    <3>2. Keeps(r, {"hist", "cancel", "prog", "parent", "policy", "from", "since", "until"})
      <4>1. \A f \in {"hist", "cancel", "prog", "parent", "policy", "from", "since", "until"} :
               runs'[r][f] = runs[r][f]
        BY <2>3
      <4> QED
        BY <4>1 DEF Keeps
    <3>3. runs[r].status = "running" /\ c.op = "continue"
      BY <1>10 DEF ContinueRun
    <3>4. runs'[n] = Fresh(c.prog, runs[r].parent, runs[r].policy, First(r))
      BY <2>3 DEF next
    <3>5. PICK f : f = Fresh(c.prog, runs[r].parent, runs[r].policy, First(r))
      OBVIOUS
    <3> QED
      BY <2>1, <3>1, <3>2, <3>3, <3>4, <3>5 DEF Went, Continued, Segment, Keeps, Terminal
  <2>6. CASE q = n
    BY <2>4, <2>6 DEF Evolves
  <2>7. CASE q = r
    BY <2>5, <2>7 DEF Evolves
  <2>8. CASE q \notin {n, r}
    BY <2>3, <2>8 DEF Evolves
  <2> QED
    BY <2>6, <2>7, <2>8
<1>11. ASSUME Finish(r, c) PROVE Evolves(q)
  <2>1. ASSUME NEW k \in RunIds
        PROVE  runs'[k] =
          CASE k = r -> [runs[r] EXCEPT
                            !.status = FinalStatus(r, c),
                            !.holds  = FALSE,
                            !.result = IF c.op = "return" THEN c.outcome ELSE "none"]
            [] k # r /\ runs[k].parent = r /\ Live(k) /\ runs[k].policy = "REQUEST_CANCEL" ->
                    [runs[k] EXCEPT !.cancel = TRUE]
            [] k # r /\ runs[k].parent = r /\ Live(k) /\ runs[k].policy = "TERMINATE" ->
                    [runs[k] EXCEPT !.status = "terminated", !.holds = FALSE]
            [] OTHER -> runs[k]
    BY <1>11 DEF Finish
  <2>2. runs'[r] = [runs[r] EXCEPT !.status = FinalStatus(r, c), !.holds  = FALSE,
                            !.result = IF c.op = "return" THEN c.outcome ELSE "none"]
    BY <2>1
  <2>3. ASSUME NEW k \in RunIds, k # r, runs[k].parent = r, Live(k)
        PROVE  /\ runs[k].policy = "REQUEST_CANCEL" => runs'[k] = [runs[k] EXCEPT !.cancel = TRUE]
               /\ runs[k].policy = "TERMINATE" =>
                     runs'[k] = [runs[k] EXCEPT !.status = "terminated", !.holds = FALSE]
               /\ runs[k].policy \notin {"TERMINATE", "REQUEST_CANCEL"} => runs'[k] = runs[k]
    BY <2>1, <2>3
  <2>4. ASSUME NEW k \in RunIds, k # r, runs[k].parent # r \/ ~Live(k)
        PROVE  runs'[k] = runs[k]
    BY <2>1, <2>4
  <2>5. Returned(r)
    <3>1. Segment(r) /\ c.op \in {"return", "fail"}
      BY <1>11 DEF Finish, Segment
    <3>2. /\ runs'[r].status = FinalStatus(r, c)
          /\ runs'[r].result = IF c.op = "return" THEN c.outcome ELSE "none"
          /\ Keeps(r, {"hist", "cancel"})
      BY <2>2 DEF Keeps
    <3>3. ASSUME NEW k \in RunIds, runs[k].parent = r, Live(k), k # r
          PROVE  /\ runs[k].policy = "REQUEST_CANCEL" => runs'[k].cancel
                 /\ runs[k].policy = "TERMINATE" => runs'[k].status = "terminated"
      BY <2>3, <3>3
    <3> QED
      BY <3>1, <3>2, <3>3 DEF Returned
  <2>6. Went(r)
    <3>1. runs[r].status = "running"
      BY <1>11 DEF Finish
    <3>2. Keeps(r, {"prog", "parent", "policy", "from", "since", "until"})
      <4> PICK status, result :
             runs'[r] = [runs[r] EXCEPT !.status = status, !.holds = FALSE, !.result = result]
        BY <2>2
      <4>1. \A f \in {"prog", "parent", "policy", "from", "since", "until"} :
               runs'[r][f] = runs[r][f]
        OBVIOUS
      <4> QED
        BY <4>1 DEF Keeps
    <3> QED
      BY <2>5, <3>1, <3>2 DEF Went, Terminal, Keeps
  <2>7. ASSUME q # r, runs[q].parent = r, Live(q) PROVE Evolves(q)
    <3>1. CASE runs[q].policy = "REQUEST_CANCEL"
      <4>1. runs'[q] = [runs[q] EXCEPT !.cancel = TRUE]
        BY <2>3, <2>7, <3>1
      <4>2. Warned(q)
        BY <3>1, <4>1 DEF Warned, Keeps
      <4> QED
        BY <2>7, <4>1, <4>2 DEF Evolves, Went, Keeps, Live
    <3>2. CASE runs[q].policy = "TERMINATE"
      <4>1. runs'[q] = [runs[q] EXCEPT !.status = "terminated", !.holds = FALSE]
        BY <2>3, <2>7, <3>2
      <4>2. Swept(q)
        BY <3>2, <4>1 DEF Swept, Keeps
      <4> QED
        BY <2>7, <4>1, <4>2 DEF Evolves, Went, Keeps, Live
    <3> QED
      BY <2>3, <2>7, <3>1, <3>2 DEF Evolves
  <2> QED
    BY <2>4, <2>6, <2>7 DEF Evolves
<1> QED
  BY <1>1, <1>2, <1>3, <1>4, <1>5, <1>6, <1>7, <1>8, <1>9, <1>10, <1>11 DEF Perform

\* Every engine step does one of these to every row.
LEMMA EngineRows == ASSUME Table, Next, NEW q \in RunIds PROVE Evolves(q)
<1> USE DEF Table, IsRow, Fields
<1>1. ASSUME NEW r \in RunIds, Executing(r), \E c \in {Asks(r)} : Perform(r, c) PROVE Evolves(q)
  BY <1>1, SegmentRows
<1>2. ASSUME NEW r \in RunIds,
             (\E w \in Workers : Claim(r, w)) \/ SleepEnds(r) \/ ChildWakes(r) \/ Reap(r)
      PROVE  Evolves(q)
  <2>1. q # r => runs'[q] = runs[q]
    BY <1>2 DEF Claim, SleepEnds, ChildWakes, Reap
  <2>2. Moved(r)
    BY <1>2 DEF Claim, SleepEnds, ChildWakes, Reap, Moved, Keeps, Ongoing
  <2>3. Went(r)
    BY <1>2, <2>2 DEF Claim, SleepEnds, ChildWakes, Reap, Went, Keeps, Terminal
  <2> QED
    BY <2>1, <2>3 DEF Evolves
<1>3. ASSUME NEW r \in RunIds, RequestCancel(r) \/ CancelPropagates(r) PROVE Evolves(q)
  <2>1. q # r => runs'[q] = runs[q]
    BY <1>3 DEF RequestCancel, CancelPropagates
  <2>2. Warned(r)
    BY <1>3 DEF RequestCancel, CancelPropagates, Warned, Keeps
  <2>3. Went(r)
    BY <1>3, <2>2 DEF RequestCancel, CancelPropagates, Went, Keeps, Live
  <2> QED
    BY <2>1, <2>3 DEF Evolves
<1>4. ASSUME \/ \E r \in RunIds : FenceLost(r)
             \/ \E s \in outbox : Dispatch(s)
             \/ \E w \in Workers : Crash(w)
             \/ Tick
      PROVE  Evolves(q)
  BY <1>4 DEF FenceLost, Dispatch, Crash, Tick, Evolves
<1> QED
  BY <1>1, <1>2, <1>3, <1>4 DEF Next, Progress

LEMMA EngineRecords == ASSUME Table, Next, NEW q \in RunIds PROVE Records(q)
<1>1. CASE Born(q)
  <2>1. runs[q].hist = <<>>
    BY <1>1, NewIdIsAbsent DEF Born, Table, IsRow
  <2>2. runs'[q].hist = <<>>
    BY <1>1 DEF Born, BornOf, Fresh, Absent
  <2> QED
    BY <2>1, <2>2 DEF Records
<1>2. CASE Went(q)
  <2>1. CASE Spoke(q)
    BY <2>1 DEF Spoke, Recorded, Records
  <2>2. CASE ~Spoke(q)
    BY <1>2, <2>2 DEF Went, Returned, Continued, Swept, Warned, Moved, Keeps, Records
  <2> QED
    BY <2>1, <2>2
<1> QED
  BY <1>1, <1>2, EngineRows DEF Evolves, Records

-----------------------------------------------------------------------------
(* What the workers have in hand.                                          *)

Hands ==
    /\ exec = [r \in RunIds |-> exec[r]]
    /\ \A r \in RunIds :
          /\ {"on", "spent", "got", "child"} \subseteq DOMAIN exec[r]
          /\ exec[r].spent \in Nat
          /\ exec[r].got \in {"none", "ok", "error", "exhausted", "refused"}
          /\ Executing(r) => runs[r].status \in {"running", "terminated"}
          /\ ~Executing(r) => exec[r] = Idle

IsHand(x) ==
    /\ {"on", "spent", "got", "child"} \subseteq DOMAIN x
    /\ x.spent \in Nat
    /\ x.got \in {"none", "ok", "error", "exhausted", "refused"}
    /\ x.on = Nobody => x = Idle

\* The worker goes on with r, and leaves the other segments alone.
Holds(r, x) ==
    /\ exec' = [exec EXCEPT ![r] = x] /\ IsHand(x)
    /\ x.on # Nobody => runs'[r].status \in {"running", "terminated"}
    /\ \A q \in RunIds \ {r} :
          runs'[q].status \in {"running", "terminated"} \/ runs'[q].status = runs[q].status
             \/ runs[q].status = "absent"

LEMMA HoldsHands == ASSUME Hands, NEW r \in RunIds, NEW x, Holds(r, x) PROVE Hands'
BY DEF Hands, Holds, IsHand, Executing, Idle

LEMMA SegmentHands ==
    ASSUME Table, Hands, NEW r \in RunIds, Executing(r), NEW c, Perform(r, c)
    PROVE  Hands'
<1> USE DEF Table, IsRow, Fields
<1> DEFINE z == exec[r]
<1>1. /\ {"on", "spent", "got", "child"} \subseteq DOMAIN z /\ z.spent \in Nat /\ z.on # Nobody
      /\ z.got \in {"none", "ok", "error", "exhausted", "refused"}
      /\ runs[r].status \in {"running", "terminated"}
  BY DEF Hands, Executing
<1>2. IsHand(Idle) /\ Idle.on = Nobody /\ IsHand([Idle EXCEPT !.on = z.on])
  BY DEF IsHand, Idle
<1>3. ASSUME MakeCall(r, c) PROVE Hands'
  <2> DEFINE n == Reply(c, Received(c.tag) + 1, exec[r].spent)
  <2>1. n \in {"none", "ok", "error", "exhausted", "refused"}
    BY DEF Reply
  <2>2. exec' = [exec EXCEPT ![r].spent = @ + 1, ![r].got = n] /\ runs' = runs
    BY <1>3 DEF MakeCall
  <2> HIDE DEF n
  <2> DEFINE x == [z EXCEPT !.spent = @ + 1, !.got = n]
  <2>3. exec' = [exec EXCEPT ![r] = x]
    BY <2>2 DEF Hands
  <2>4. IsHand(x)
    BY <1>1, <2>1 DEF IsHand
  <2> HIDE DEF x
  <2>5. Holds(r, x)
    BY <1>1, <2>2, <2>3, <2>4 DEF Holds
  <2> QED
    BY <2>5, HoldsHands
<1>4. ASSUME RefuseCall(r, c) PROVE Hands'
  <2> DEFINE x == [z EXCEPT !.got = "refused"]
  <2>1. exec' = [exec EXCEPT ![r] = x] /\ runs' = runs
    BY <1>4 DEF RefuseCall, Hands
  <2>2. IsHand(x)
    BY <1>1 DEF IsHand
  <2> HIDE DEF x
  <2>3. Holds(r, x)
    BY <1>1, <2>1, <2>2 DEF Holds
  <2> QED
    BY <2>3, HoldsHands
<1>5. ASSUME NEW e, Record(r, e)
      PROVE  /\ runs[r].status = "running" /\ runs'[r].status = "running"
             /\ \A q \in RunIds \ {r} : runs'[q] = runs[q]
             /\ \A q \in RunIds : runs'[q].status = runs[q].status
  BY <1>5 DEF Record
<1>6. ASSUME RecordCall(r, c) PROVE Hands'
  <2> DEFINE x == [Idle EXCEPT !.on = z.on]
  <2>1. exec' = [exec EXCEPT ![r] = x]
    BY <1>6 DEF RecordCall
  <2>2. runs'[r].status = "running" /\ \A q \in RunIds \ {r} : runs'[q] = runs[q]
    BY <1>5, <1>6 DEF RecordCall
  <2> HIDE DEF x
  <2>3. Holds(r, x)
    BY <1>2, <2>1, <2>2 DEF Holds, x
  <2> QED
    BY <2>3, HoldsHands
<1>7. ASSUME RecordSend(r, c) \/ RecordLocal(r, c) \/ AwaitAnswered(r, c) PROVE Hands'
  <2>1. exec' = exec
    BY <1>7 DEF RecordSend, RecordLocal, AwaitAnswered
  <2>2. \A q \in RunIds : runs'[q].status = runs[q].status
    BY <1>5, <1>7 DEF RecordSend, RecordLocal, AwaitAnswered
  <2> QED
    BY <2>1, <2>2 DEF Hands, Executing
<1>8. ASSUME SleepBegins(r, c) \/ AwaitSuspends(r, c) PROVE Hands'
  <2>1. exec' = [exec EXCEPT ![r] = Idle] /\ \A q \in RunIds \ {r} : runs'[q] = runs[q]
    BY <1>8 DEF SleepBegins, AwaitSuspends
  <2>2. Holds(r, Idle)
    BY <1>2, <2>1 DEF Holds
  <2> QED
    BY <2>2, HoldsHands
<1>9. ASSUME InsertChild(r, c) PROVE Hands'
  <2>1. PICK n \in RunIds : n = NewId /\ runs[n].status = "absent" /\ n # r
    BY <1>1, <1>9, NewIdIsAbsent DEF InsertChild
  <2> DEFINE x == [z EXCEPT !.child = n]
  <2>2. exec' = [exec EXCEPT ![r] = x]
    BY <1>9, <2>1 DEF InsertChild, Hands
  <2>3. \A q \in RunIds \ {n} : runs'[q] = runs[q]
    BY <1>9, <2>1 DEF InsertChild
  <2>4. IsHand(x)
    BY <1>1 DEF IsHand
  <2>5. x.on # Nobody
    BY <1>1
  <2> HIDE DEF x
  <2>6. Holds(r, x)
    BY <1>1, <2>1, <2>2, <2>3, <2>4 DEF Holds
  <2> QED
    BY <2>6, HoldsHands
<1>10. ASSUME RecordChild(r, c) PROVE Hands'
  <2> DEFINE x == [z EXCEPT !.child = 0]
  <2>1. exec' = [exec EXCEPT ![r] = x]
    BY <1>10 DEF RecordChild, Hands
  <2>2. runs'[r].status = "running" /\ \A q \in RunIds \ {r} : runs'[q] = runs[q]
    BY <1>5, <1>10 DEF RecordChild
  <2>3. IsHand(x)
    BY <1>1 DEF IsHand
  <2> HIDE DEF x
  <2>4. Holds(r, x)
    BY <2>1, <2>2, <2>3 DEF Holds
  <2> QED
    BY <2>4, HoldsHands
<1>11. ASSUME ContinueRun(r, c) PROVE Hands'
  <2>1. PICK n \in RunIds : n = NewId /\ runs[n].status = "absent" /\ n # r
    BY <1>11, NewIdIsAbsent DEF ContinueRun
  <2>2. \A q \in RunIds \ {n, r} : runs'[q] = runs[q]
    BY <1>11, <2>1 DEF ContinueRun
  <2>3. exec' = [exec EXCEPT ![r] = Idle]
    BY <1>11 DEF ContinueRun
  <2>4. Holds(r, Idle)
    BY <1>2, <2>1, <2>2, <2>3 DEF Holds
  <2> QED
    BY <2>4, HoldsHands
<1>12. ASSUME Finish(r, c) PROVE Hands'
  <2>1. \A q \in RunIds \ {r} : runs'[q].status \in {runs[q].status, "terminated"}
    BY <1>12 DEF Finish
  <2>2. exec' = [exec EXCEPT ![r] = Idle]
    BY <1>12 DEF Finish
  <2>3. Holds(r, Idle)
    BY <1>2, <2>1, <2>2 DEF Holds
  <2> QED
    BY <2>3, HoldsHands
<1> QED
  BY <1>3, <1>4, <1>6, <1>7, <1>8, <1>9, <1>10, <1>11, <1>12 DEF Perform

\* Only a running or terminated run is executed, and an idle worker remembers nothing.
LEMMA EngineHands == ASSUME Table, Hands, Next PROVE Hands'
<1> USE DEF Table, IsRow, Fields
<1>1. ASSUME NEW r \in RunIds, Executing(r), \E c \in {Asks(r)} : Perform(r, c) PROVE Hands'
  BY <1>1, SegmentHands
<1>2. ASSUME NEW r \in RunIds, NEW w \in Workers, Claim(r, w) PROVE Hands'
  <2> DEFINE x == [Idle EXCEPT !.on = w]
  <2>1. IsHand(x)
    BY DEF IsHand, Idle
  <2>2. exec' = [exec EXCEPT ![r] = x] /\ runs'[r].status = "running"
        /\ \A q \in RunIds \ {r} : runs'[q] = runs[q]
    BY <1>2 DEF Claim
  <2> HIDE DEF x
  <2>3. Holds(r, x)
    BY <2>1, <2>2 DEF Holds
  <2> QED
    BY <2>3, HoldsHands
<1>3. ASSUME NEW r \in RunIds,
             SleepEnds(r) \/ ChildWakes(r) \/ Reap(r) \/ RequestCancel(r) \/ CancelPropagates(r)
      PROVE  Hands'
  <2>1. exec' = exec /\ \A q \in RunIds \ {r} : runs'[q] = runs[q]
    BY <1>3 DEF SleepEnds, ChildWakes, Reap, RequestCancel, CancelPropagates
  <2>2. Executing(r) => runs'[r].status = runs[r].status
    BY <1>3 DEF SleepEnds, ChildWakes, Reap, RequestCancel, CancelPropagates, Hands
  <2> QED
    BY <2>1, <2>2 DEF Hands, Executing
<1>4. ASSUME NEW r \in RunIds, FenceLost(r) PROVE Hands'
  <2>1. Holds(r, Idle)
    BY <1>4 DEF FenceLost, Holds, IsHand, Idle
  <2> QED
    BY <2>1, HoldsHands
<1>5. ASSUME NEW w \in Workers, Crash(w) PROVE Hands'
  <2>1. runs' = runs /\ exec' = [r \in RunIds |-> IF exec[r].on = w THEN Idle ELSE exec[r]]
    BY <1>5 DEF Crash, Killed
  <2> QED
    BY <2>1 DEF Hands, Executing, Idle
<1>6. ASSUME (\E s \in outbox : Dispatch(s)) \/ Tick PROVE Hands'
  BY <1>6 DEF Dispatch, Tick, Hands, Executing
<1> QED
  BY <1>1, <1>2, <1>3, <1>4, <1>5, <1>6 DEF Next, Progress

-----------------------------------------------------------------------------
(* What the fixture receives.                                              *)

LEMMA CountGrows ==
    ASSUME NEW s, IsSeq(s), NEW e, NEW t
    PROVE  /\ Count(s, t) \in Nat
           /\ Count(Append(s, e), t) = IF e = t THEN Count(s, t) + 1 ELSE Count(s, t)
<1> DEFINE S == {i \in DOMAIN s : s[i] = t}
           n == Len(s) + 1
           T == {i \in DOMAIN Append(s, e) : Append(s, e)[i] = t}
<1>1. /\ Len(s) \in Nat /\ DOMAIN s = 1..Len(s) /\ DOMAIN Append(s, e) = 1..n
      /\ \A i \in 1..Len(s) : Append(s, e)[i] = s[i]
      /\ Append(s, e)[n] = e
  BY Grows
<1>2. IsFiniteSet(S) /\ n \notin S
  <2>1. S \in SUBSET Nat /\ \A i \in S : i <= Len(s)
    BY <1>1
  <2>2. n \notin S
    BY <1>1
  <2> HIDE DEF S
  <2> QED
    BY <1>1, <2>1, <2>2, FS_BoundedSetOfNaturals
<1>3. T = IF e = t THEN S \cup {n} ELSE S
  BY <1>1
<1>4. Count(s, t) = Cardinality(S) /\ Count(Append(s, e), t) = Cardinality(T)
  BY DEF Count
<1> HIDE DEF S, T, n
<1> QED
  BY <1>2, <1>3, <1>4, FS_AddElement, FS_CardinalityType

\* The log grows by the request of a segment, or by a send that was queued.
Writes ==
    \/ log' = log
    \/ \E r \in RunIds : Executing(r) /\ MakeCall(r, Asks(r))
    \/ \E s \in outbox : log' = Append(log, s.tag)

\* A send is queued by the segment that records it.
Queues ==
    \A s \in outbox' \ outbox :
        \E r \in RunIds :
            Segment(r) /\ Asks(r).op \in {"send", "deferred"} /\ s.tag = Asks(r).tag

LEMMA EngineWrites == ASSUME Next PROVE Writes /\ Queues
<1>1. ASSUME NEW r \in RunIds, Executing(r), NEW c, c = Asks(r), Perform(r, c)
      PROVE  Writes /\ Queues
  <2>1. CASE MakeCall(r, c)
    BY <1>1, <2>1 DEF MakeCall, Writes, Queues
  <2>2. CASE RecordSend(r, c)
    BY <1>1, <2>2 DEF RecordSend, Record, Writes, Queues, Segment
  <2> QED
    BY <1>1, <2>1, <2>2
       DEF Perform, RefuseCall, RecordCall, RecordLocal, SleepBegins, InsertChild, RecordChild,
           AwaitAnswered, AwaitSuspends, ContinueRun, Finish, Writes, Queues
<1>2. ASSUME NEW r \in RunIds,
             \/ \E w \in Workers : Claim(r, w)
             \/ SleepEnds(r) \/ ChildWakes(r) \/ FenceLost(r) \/ Reap(r)
             \/ RequestCancel(r) \/ CancelPropagates(r)
      PROVE  Writes /\ Queues
  BY <1>2 DEF Claim, SleepEnds, ChildWakes, FenceLost, Reap, RequestCancel, CancelPropagates,
              Writes, Queues
<1>3. ASSUME (\E w \in Workers : Crash(w)) \/ Tick \/ \E s \in outbox : Dispatch(s)
      PROVE  Writes /\ Queues
  BY <1>3 DEF Crash, Tick, Dispatch, Writes, Queues
<1> QED
  BY <1>1, <1>2, <1>3 DEF Next, Progress

LEMMA LogGrows ==
    ASSUME IsSeq(log), Next
    PROVE  /\ IsSeq(log')
           /\ \A t : /\ Received(t) \in Nat
                    /\ \/ Received(t)' = Received(t)
                       \/ /\ Received(t)' = Received(t) + 1
                          /\ \/ \E r \in RunIds : /\ Executing(r) /\ MakeCall(r, Asks(r))
                                                 /\ Asks(r).tag = t
                             \/ \E s \in outbox : s.tag = t
<1>0. \A t : Received(t) \in Nat
  BY CountGrows DEF Received
<1>1. CASE log' = log
  BY <1>0, <1>1 DEF Received, Count
<1>2. ASSUME NEW x, log' = Append(log, x)
      PROVE  IsSeq(log') /\ \A t : Received(t)' = IF x = t THEN Received(t) + 1 ELSE Received(t)
  BY <1>2, Grows, CountGrows DEF Received
<1>3. ASSUME NEW r \in RunIds, Executing(r), MakeCall(r, Asks(r)) PROVE log' = Append(log, Asks(r).tag)
  BY <1>3 DEF MakeCall
<1> QED
  BY <1>0, <1>1, <1>2, <1>3, EngineWrites DEF Writes

-----------------------------------------------------------------------------
(* What a crash takes.                                                     *)

\* A segment leaves the others alone.
LEMMA OthersStay ==
    ASSUME Table, Hands, NEW r \in RunIds, NEW q \in RunIds, q # r, NEW c, Perform(q, c)
    PROVE  exec'[r] = exec[r] /\ (Executing(r) => runs'[r].hist = runs[r].hist)
<1> USE DEF Table, IsRow, Fields
<1>1. exec'[r] = exec[r]
  BY DEF Hands, Perform, MakeCall, RefuseCall, RecordCall, RecordSend, RecordLocal, SleepBegins,
         InsertChild, RecordChild, AwaitAnswered, AwaitSuspends, ContinueRun, Finish
<1>2. ASSUME NEW e, Record(q, e) PROVE runs'[r].hist = runs[r].hist
  BY <1>2 DEF Record
<1>3. CASE RecordCall(q, c) \/ RecordSend(q, c) \/ RecordLocal(q, c) \/ RecordChild(q, c) \/ AwaitAnswered(q, c)
  BY <1>1, <1>2, <1>3 DEF RecordCall, RecordSend, RecordLocal, RecordChild, AwaitAnswered
<1>4. CASE MakeCall(q, c) \/ RefuseCall(q, c) \/ SleepBegins(q, c) \/ AwaitSuspends(q, c)
  BY <1>1, <1>4 DEF MakeCall, RefuseCall, SleepBegins, AwaitSuspends
<1>5. CASE InsertChild(q, c) \/ ContinueRun(q, c)
  <2>1. NewId \in RunIds /\ runs[NewId].status = "absent"
    BY <1>5, NewIdIsAbsent DEF InsertChild, ContinueRun
  <2>2. ASSUME Executing(r) PROVE runs'[r] = runs[r]
    <3>1. NewId # r
      BY <2>1, <2>2 DEF Hands
    <3> QED
      BY <1>5, <2>1, <3>1 DEF InsertChild, ContinueRun
  <2> QED
    BY <1>1, <2>2
<1>6. CASE Finish(q, c)
  <2>1. runs'[r].hist = runs[r].hist
    BY <1>6 DEF Finish
  <2> QED
    BY <1>1, <2>1
<1> QED
  BY <1>3, <1>4, <1>5, <1>6 DEF Perform

\* What becomes of a segment: it goes on, the fence ends it, or a crash.
LEMMA SegmentGoesOn ==
    ASSUME Table, Hands, Next, NEW r \in RunIds, Executing(r)
    PROVE  \/ exec'[r] = exec[r] /\ runs'[r].hist = runs[r].hist
           \/ Perform(r, Asks(r))
           \/ FenceLost(r)
           \/ \E w \in Workers : Crash(w)
<1> DEFINE Result == \/ exec'[r] = exec[r] /\ runs'[r].hist = runs[r].hist
                     \/ Perform(r, Asks(r))
                     \/ FenceLost(r)
                     \/ \E w \in Workers : Crash(w)
<1>1. ASSUME NEW q \in RunIds, Executing(q), Perform(q, Asks(q)) PROVE Result
  BY <1>1, OthersStay
<1>2. ASSUME NEW q \in RunIds,
             \/ \E w \in Workers : Claim(q, w)
             \/ SleepEnds(q) \/ ChildWakes(q) \/ FenceLost(q) \/ Reap(q)
             \/ RequestCancel(q) \/ CancelPropagates(q)
      PROVE  Result
  <2>1. runs'[r].hist = runs[r].hist
    BY <1>2 DEF Table, IsRow, Fields, Claim, SleepEnds, ChildWakes, FenceLost, Reap, RequestCancel,
                CancelPropagates
  <2>2. runs[r].status \in {"running", "terminated"}
    BY DEF Hands
  <2>3. exec'[r] = exec[r] \/ (q = r /\ FenceLost(r))
    BY <1>2, <2>2 DEF Hands, Claim, SleepEnds, ChildWakes, FenceLost, Reap, RequestCancel,
                      CancelPropagates
  <2> QED
    BY <2>1, <2>3
<1>3. ASSUME (\E s \in outbox : Dispatch(s)) \/ Tick PROVE Result
  BY <1>3 DEF Dispatch, Tick
<1> QED
  BY <1>1, <1>2, <1>3 DEF Next, Progress

\* A segment with requests whose answer is not recorded.
LEMMA EngineSpends ==
    ASSUME Table, Hands, Next, NEW r \in RunIds, exec[r].spent # 0, Asks(r).op = "call"
    PROVE  \/ exec'[r] = exec[r] /\ runs'[r].hist = runs[r].hist
           \/ MakeCall(r, Asks(r)) \/ RefuseCall(r, Asks(r)) \/ RecordCall(r, Asks(r))
           \/ FenceLost(r)
           \/ \E w \in Workers : Crash(w)
<1>1. Executing(r)
  BY DEF Hands, Idle
<1>2. ASSUME Perform(r, Asks(r))
      PROVE  MakeCall(r, Asks(r)) \/ RefuseCall(r, Asks(r)) \/ RecordCall(r, Asks(r))
  BY <1>2 DEF Perform, RecordSend, RecordLocal, SleepBegins, InsertChild, RecordChild,
              AwaitAnswered, AwaitSuspends, ContinueRun, Finish
<1> QED
  BY <1>1, <1>2, SegmentGoesOn

\* Requests are made, and an answer is in hand, for a call only.
Spends == \A r \in RunIds : exec[r].spent # 0 \/ exec[r].got # "none" => Asks(r).op = "call"

LEMMA EngineSegment ==
    ASSUME Table, Hands, Spends, Next, NEW r \in RunIds
    PROVE  \/ exec'[r] = exec[r] /\ Executing(r) /\ runs'[r].hist = runs[r].hist
           \/ Executing(r) /\ (MakeCall(r, Asks(r)) \/ RefuseCall(r, Asks(r)))
           \/ exec'[r].spent = 0 /\ exec'[r].got = "none"
<1> DEFINE Result == \/ exec'[r] = exec[r] /\ Executing(r) /\ runs'[r].hist = runs[r].hist
                     \/ Executing(r) /\ (MakeCall(r, Asks(r)) \/ RefuseCall(r, Asks(r)))
                     \/ exec'[r].spent = 0 /\ exec'[r].got = "none"
<1>1. ASSUME exec'[r] = exec[r], Executing(r) => runs'[r].hist = runs[r].hist PROVE Result
  BY <1>1 DEF Hands, Idle
<1>2. ASSUME exec'[r] = Idle \/ \E w : exec'[r] = [Idle EXCEPT !.on = w] PROVE Result
  <2>1. Idle.spent = 0 /\ Idle.got = "none"
    BY DEF Idle
  <2>2. \A w : [Idle EXCEPT !.on = w].spent = 0 /\ [Idle EXCEPT !.on = w].got = "none"
    BY DEF Idle
  <2> QED
    BY <1>2, <2>1, <2>2
<1>3. ASSUME Asks(r).op # "call",
             \/ exec'[r] = exec[r]
             \/ \E n : exec'[r] = [exec[r] EXCEPT !.child = n]
      PROVE  Result
  <2>1. exec[r].spent = 0 /\ exec[r].got = "none"
    BY <1>3 DEF Spends
  <2> QED
    BY <1>3, <2>1 DEF Hands
<1> HIDE DEF Result
<1>4. ASSUME NEW q \in RunIds, Executing(q), Perform(q, Asks(q)) PROVE Result
  <2>1. CASE q # r
    BY <1>1, <1>4, <2>1, OthersStay
  <2>2. ASSUME q = r, RecordSend(r, Asks(r)) \/ RecordLocal(r, Asks(r)) \/ AwaitAnswered(r, Asks(r))
        PROVE  Result
    BY <1>3, <2>2 DEF RecordSend, RecordLocal, AwaitAnswered
  <2>3. ASSUME q = r, InsertChild(r, Asks(r)) \/ RecordChild(r, Asks(r)) PROVE Result
    <3>1. Asks(r).op # "call" /\ \E n : exec' = [exec EXCEPT ![r].child = n]
      BY <2>3 DEF InsertChild, RecordChild
    <3>2. \E n : exec'[r] = [exec[r] EXCEPT !.child = n]
      BY <3>1 DEF Hands
    <3> QED
      BY <1>3, <3>1, <3>2
  <2>4. ASSUME q = r, \/ SleepBegins(r, Asks(r)) \/ AwaitSuspends(r, Asks(r))
                      \/ ContinueRun(r, Asks(r)) \/ Finish(r, Asks(r))
        PROVE  Result
    <3>1. exec' = [exec EXCEPT ![r] = Idle]
      BY <2>4 DEF SleepBegins, AwaitSuspends, ContinueRun, Finish
    <3>2. exec'[r] = Idle
      BY <3>1 DEF Hands
    <3> QED
      BY <1>2, <3>2
  <2>5. ASSUME q = r, RecordCall(r, Asks(r)) PROVE Result
    <3>1. exec'[r] = [Idle EXCEPT !.on = exec[r].on]
      BY <2>5 DEF RecordCall, Hands
    <3> QED
      BY <1>2, <3>1
  <2>6. ASSUME q = r, MakeCall(r, Asks(r)) \/ RefuseCall(r, Asks(r)) PROVE Result
    BY <1>4, <2>6 DEF Result
  <2> QED
    BY <1>4, <2>1, <2>2, <2>3, <2>4, <2>5, <2>6 DEF Perform
<1>5. ASSUME NEW q \in RunIds, NEW w \in Workers, Claim(q, w) PROVE Result
  <2>1. CASE q = r
    <3>1. exec'[r] = [Idle EXCEPT !.on = w]
      BY <1>5, <2>1 DEF Claim, Hands
    <3> QED
      BY <1>2, <3>1
  <2>2. CASE q # r
    BY <1>1, <1>5, <2>2 DEF Claim, Hands, Table, IsRow, Fields
  <2> QED
    BY <2>1, <2>2
<1>6. ASSUME NEW q \in RunIds, SleepEnds(q) \/ ChildWakes(q) \/ Reap(q) \/ RequestCancel(q) \/ CancelPropagates(q)
      PROVE  Result
  BY <1>1, <1>6 DEF Table, IsRow, Fields, SleepEnds, ChildWakes, Reap, RequestCancel, CancelPropagates
<1>7. ASSUME NEW q \in RunIds, FenceLost(q) PROVE Result
  <2>1. CASE q = r
    BY <1>2, <1>7, <2>1 DEF FenceLost, Hands
  <2>2. CASE q # r
    BY <1>1, <1>7, <2>2 DEF FenceLost, Hands
  <2> QED
    BY <2>1, <2>2
<1>8. ASSUME NEW w \in Workers, Crash(w) PROVE Result
  <2>1. runs' = runs /\ (exec'[r] = exec[r] \/ exec'[r] = Idle)
    BY <1>8 DEF Crash, Killed
  <2> QED
    BY <1>1, <1>2, <2>1
<1>9. ASSUME (\E s \in outbox : Dispatch(s)) \/ Tick PROVE Result
  BY <1>1, <1>9 DEF Dispatch, Tick
<1> QED
  BY <1>4, <1>5, <1>6, <1>7, <1>8, <1>9 DEF Next, Progress, Result

LEMMA SpendsStep == ASSUME Table, Hands, Spends, Next PROVE Spends'
<1> SUFFICES ASSUME NEW r \in RunIds, exec'[r].spent # 0 \/ exec'[r].got # "none"
             PROVE  Asks(r)'.op = "call"
  BY DEF Spends
<1>1. CASE exec'[r] = exec[r] /\ Executing(r) /\ runs'[r].hist = runs[r].hist
  <2>1. runs[r].status # "absent"
    BY <1>1 DEF Hands
  <2>2. runs'[r].prog = runs[r].prog
    BY <2>1, EngineRows, NewIdIsAbsent DEF Evolves, Born, Went, Keeps
  <2> QED
    BY <1>1, <2>2 DEF Spends, Asks
<1>2. CASE Executing(r) /\ (MakeCall(r, Asks(r)) \/ RefuseCall(r, Asks(r)))
  BY <1>2 DEF MakeCall, RefuseCall, Asks
<1> QED
  BY <1>1, <1>2, EngineSegment

\* The ghost of the crashes: finite, and dated.
Losses ==
    /\ IsFiniteSet(lost) /\ crashes \in Nat
    /\ \A x \in lost : x.crash \in Nat /\ x.crash <= crashes

LEMMA LossesKept == ASSUME Next, ~\E w \in Workers : Crash(w) PROVE UNCHANGED <<lost, crashes>>
<1>1. ASSUME NEW r \in RunIds, NEW c, Perform(r, c) PROVE UNCHANGED <<lost, crashes>>
  BY <1>1 DEF Perform, MakeCall, RefuseCall, RecordCall, RecordSend, RecordLocal, SleepBegins,
              InsertChild, RecordChild, AwaitAnswered, AwaitSuspends, ContinueRun, Finish
<1> QED
  BY <1>1 DEF Next, Progress, Claim, SleepEnds, ChildWakes, FenceLost, Reap, RequestCancel,
              CancelPropagates, Dispatch, Tick

LEMMA ImageIsFinite ==
    ASSUME NEW S, IsFiniteSet(S), NEW f, f = [x \in S |-> f[x]]
    PROVE  LET T == {f[x] : x \in S} IN IsFiniteSet(T) /\ Cardinality(T) <= Cardinality(S)
<1> DEFINE T == {f[x] : x \in S}
<1>1. f \in Surjection(S, T)
  BY DEF Surjection
<1> QED
  BY <1>1, FS_Surjection

\* A crash leaves a receipt without its event for every request its segments had made.
LEMMA CrashLosesAll ==
    ASSUME Table, Hands, Losses, NEW w \in Workers, Crash(w), NEW t, NEW D \in SUBSET (RunIds \X Nat),
           \A x \in D : /\ exec[x[1]].on = w /\ Asks(x[1]).tag = t
                       /\ x[2] \in 1..exec[x[1]].spent
    PROVE  /\ Losses' /\ IsFiniteSet(D) /\ Tagged(lost, t) \in Nat /\ Tagged(lost', t) \in Nat
           /\ Tagged(lost', t) >= Tagged(lost, t) + Cardinality(D)
<1> DEFINE mine == {r \in RunIds : exec[r].on = w}
           one(r, n) == [crash |-> crashes + 1, run |-> r, nth |-> n, tag |-> Asks(r).tag]
           Unheard(r) == {one(r, n) : n \in 1..exec[r].spent}
           new == UNION {Unheard(r) : r \in mine}
<1>1. lost' = lost \cup new /\ crashes' = crashes + 1 /\ runs' = runs
  BY DEF Crash
<1>2. IsFiniteSet(mine)
  BY RunIdsAreNumbers, FS_Subset
<1>3. ASSUME NEW r \in RunIds PROVE IsFiniteSet(Unheard(r))
  <2> DEFINE N == 1..exec[r].spent
             f == [n \in N |-> one(r, n)]
  <2>1. IsFiniteSet(N)
    <3>1. N \in SUBSET Nat /\ exec[r].spent \in Nat /\ \A n \in N : n <= exec[r].spent
      BY DEF Hands
    <3> QED
      BY <3>1, FS_BoundedSetOfNaturals
  <2>2. Unheard(r) = {f[n] : n \in N} /\ f = [n \in N |-> f[n]]
    OBVIOUS
  <2> HIDE DEF N, f, Unheard
  <2> QED
    BY <2>1, <2>2, ImageIsFinite
<1>4. IsFiniteSet(new)
  <2> DEFINE f == [r \in mine |-> Unheard(r)]
             F == {f[r] : r \in mine}
  <2>1. F = {Unheard(r) : r \in mine} /\ \A T \in F : IsFiniteSet(T)
    BY <1>3
  <2>2. IsFiniteSet(F)
    <3> HIDE DEF mine, Unheard
    <3> QED
      BY <1>2, ImageIsFinite
  <2>3. new = UNION F
    BY <2>1
  <2> HIDE DEF F, new
  <2> QED
    BY <2>1, <2>2, <2>3, FS_UNION
<1>5. IsFiniteSet(lost')
  <2> HIDE DEF new
  <2> QED
    BY <1>1, <1>4, FS_Union DEF Losses
<1>6. Losses'
  <2>1. \A x \in new : x.crash = crashes + 1
    OBVIOUS
  <2> HIDE DEF new
  <2> QED
    BY <1>1, <1>5, <2>1 DEF Losses
<1> DEFINE A == {x \in lost : x.tag = t}
           B == {one(x[1], x[2]) : x \in D}
           C == {x \in lost' : x.tag = t}
<1>7. B \subseteq new
  <2>1. ASSUME NEW x \in D PROVE one(x[1], x[2]) \in Unheard(x[1])
    OBVIOUS
  <2>2. \A x \in D : x[1] \in mine
    OBVIOUS
  <2> HIDE DEF Unheard, one, mine
  <2> QED
    BY <2>1, <2>2
<1>8. \A y \in B : y.tag = t /\ y.crash = crashes + 1 /\ <<y.run, y.nth>> \in D
  <2>1. ASSUME NEW x \in D
        PROVE  LET y == one(x[1], x[2])
               IN  y.tag = t /\ y.crash = crashes + 1 /\ <<y.run, y.nth>> = x
    OBVIOUS
  <2> QED
    BY <2>1
<1>9. A \cup B \subseteq C /\ A \cap B = {}
  <2>1. \A x \in lost : x.crash # crashes + 1
    BY DEF Losses
  <2> HIDE DEF B, new
  <2> QED
    BY <1>1, <1>7, <1>8, <2>1
<1>10. IsFiniteSet(A) /\ IsFiniteSet(C) /\ IsFiniteSet(B)
  <2>1. A \subseteq lost /\ C \subseteq lost' /\ B \subseteq C
    BY <1>9
  <2>2. IsFiniteSet(lost)
    BY DEF Losses
  <2> HIDE DEF A, B, C, new
  <2> QED
    BY <1>5, <2>1, <2>2, FS_Subset
<1>11. IsFiniteSet(D) /\ Cardinality(D) <= Cardinality(B)
  <2> DEFINE f == [y \in B |-> <<y.run, y.nth>>]
             T == {f[y] : y \in B}
  <2>1. T = D
    <3>1. ASSUME NEW x \in D
          PROVE  one(x[1], x[2]) \in B /\ <<one(x[1], x[2]).run, one(x[1], x[2]).nth>> = x
      <4>1. x = <<x[1], x[2]>>
        OBVIOUS
      <4>2. one(x[1], x[2]).run = x[1] /\ one(x[1], x[2]).nth = x[2]
        OBVIOUS
      <4>3. one(x[1], x[2]) \in B
        OBVIOUS
      <4> HIDE DEF one, B
      <4> QED
        BY <4>1, <4>2, <4>3
    <3>2. \A x \in D : x \in T
      BY <3>1
    <3>3. \A x \in T : x \in D
      BY <1>8
    <3> QED
      BY <3>2, <3>3
  <2>2. IsFiniteSet(T) /\ Cardinality(T) <= Cardinality(B)
    <3> HIDE DEF B
    <3> QED
      BY <1>10, ImageIsFinite
  <2> QED
    BY <2>1, <2>2
<1>12. Tagged(lost, t) = Cardinality(A) /\ Tagged(lost', t) = Cardinality(C)
  BY DEF Tagged
<1> HIDE DEF A, B, C
<1>13. Cardinality(A) + Cardinality(B) = Cardinality(A \cup B)
  <2>1. Cardinality(A \cap B) = 0
    BY <1>9, FS_EmptySet
  <2>2. Cardinality(A \cup B) = Cardinality(A) + Cardinality(B) - Cardinality(A \cap B)
    BY <1>10, FS_Union
  <2>3. Cardinality(A) \in Nat /\ Cardinality(B) \in Nat
    BY <1>10, FS_CardinalityType
  <2> QED
    BY <2>1, <2>2, <2>3
<1>14. Cardinality(A \cup B) <= Cardinality(C)
  BY <1>9, <1>10, FS_Subset
<1>15. /\ Cardinality(A) \in Nat /\ Cardinality(B) \in Nat /\ Cardinality(C) \in Nat
       /\ Cardinality(D) \in Nat
  BY <1>10, <1>11, FS_CardinalityType
<1> QED
  BY <1>6, <1>11, <1>12, <1>13, <1>14, <1>15

LEMMA CrashLoses ==
    ASSUME Table, Hands, Losses, NEW w \in Workers, Crash(w), NEW t, NEW D \in SUBSET RunIds,
           \A r \in D : exec[r].on = w /\ exec[r].spent # 0 /\ Asks(r).tag = t
    PROVE  Losses' /\ Tagged(lost', t) >= Tagged(lost, t) + Cardinality(D)
<1> DEFINE P == D \X {1}
<1>1. P \in SUBSET (RunIds \X Nat) /\ \A x \in P : x[1] \in D /\ x[2] = 1
  OBVIOUS
<1>2. ASSUME NEW x \in P PROVE exec[x[1]].on = w /\ Asks(x[1]).tag = t /\ x[2] \in 1..exec[x[1]].spent
  <2>1. exec[x[1]].spent \in Nat /\ exec[x[1]].spent # 0
    BY <1>1 DEF Hands
  <2> QED
    BY <1>1, <2>1
<1>3. IsFiniteSet(D) /\ Cardinality(P) = Cardinality(D)
  <2>1. IsFiniteSet(D) /\ IsFiniteSet({1}) /\ Cardinality({1}) = 1
    BY RunIdsAreNumbers, FS_Subset, FS_Singleton
  <2>2. Cardinality(P) = Cardinality(D) * 1 /\ Cardinality(D) \in Nat
    BY <2>1, FS_Product, FS_CardinalityType
  <2> QED
    BY <2>1, <2>2
<1> HIDE DEF P
<1> QED
  BY <1>1, <1>2, <1>3, CrashLosesAll

\* Cancel requests are not taken back.
LEMMA CancelsGrow == ASSUME Next PROVE cancels \subseteq cancels'
<1>1. ASSUME NEW r \in RunIds, NEW c, Perform(r, c) PROVE cancels' = cancels
  BY <1>1 DEF Perform, MakeCall, RefuseCall, RecordCall, RecordSend, RecordLocal, SleepBegins,
              InsertChild, RecordChild, AwaitAnswered, AwaitSuspends, ContinueRun, Finish
<1> QED
  BY <1>1 DEF Next, Progress, Claim, SleepEnds, ChildWakes, FenceLost, Reap, RequestCancel,
              CancelPropagates, Dispatch, Tick, Crash

-----------------------------------------------------------------------------
(* What a segment has started.                                             *)

\* A segment has a child in hand from its insertion until the parent's event.
LEMMA EngineChild ==
    ASSUME Table, Hands, Next, NEW r \in RunIds
    PROVE  \/ exec'[r].child = 0
           \/ /\ exec'[r].child = exec[r].child
              /\ Asks(r).op \in {"spawn", "detach"} => runs'[r].hist = runs[r].hist
           \/ Executing(r) /\ InsertChild(r, Asks(r))
<1> DEFINE Result == \/ exec'[r].child = 0
                     \/ /\ exec'[r].child = exec[r].child
                        /\ Asks(r).op \in {"spawn", "detach"} => runs'[r].hist = runs[r].hist
                     \/ Executing(r) /\ InsertChild(r, Asks(r))
<1>1. ASSUME exec'[r] = exec[r], Executing(r) => runs'[r].hist = runs[r].hist PROVE Result
  BY <1>1 DEF Hands, Idle
<1>2. ASSUME exec'[r] = Idle \/ \E w : exec'[r] = [Idle EXCEPT !.on = w] PROVE Result
  <2>1. Idle.child = 0 /\ \A w : [Idle EXCEPT !.on = w].child = 0
    BY DEF Idle
  <2> QED
    BY <1>2, <2>1
<1> USE DEF Table, IsRow, Fields, Hands
<1>3. ASSUME NEW q \in RunIds, Executing(q), Perform(q, Asks(q)) PROVE Result
  <2>1. CASE q # r
    BY <1>1, <1>3, <2>1, OthersStay
  <2>2. ASSUME q = r, RecordSend(r, Asks(r)) \/ RecordLocal(r, Asks(r)) \/ AwaitAnswered(r, Asks(r))
        PROVE  Result
    <3>1. exec' = exec /\ Asks(r).op \notin {"spawn", "detach"}
      BY <2>2 DEF RecordSend, RecordLocal, AwaitAnswered
    <3> QED
      BY <3>1
  <2>3. ASSUME q = r, MakeCall(r, Asks(r)) \/ RefuseCall(r, Asks(r)) PROVE Result
    <3>1. runs' = runs /\ exec'[r].child = exec[r].child
      BY <2>3 DEF MakeCall, RefuseCall
    <3> QED
      BY <3>1
  <2>4. ASSUME q = r, \/ SleepBegins(r, Asks(r)) \/ AwaitSuspends(r, Asks(r))
                      \/ ContinueRun(r, Asks(r)) \/ Finish(r, Asks(r))
        PROVE  Result
    <3>1. exec' = [exec EXCEPT ![r] = Idle]
      BY <2>4 DEF SleepBegins, AwaitSuspends, ContinueRun, Finish
    <3>2. exec'[r] = Idle
      BY <3>1
    <3> QED
      BY <1>2, <3>2
  <2>5. ASSUME q = r, RecordCall(r, Asks(r)) PROVE Result
    <3>1. exec'[r] = [Idle EXCEPT !.on = exec[r].on]
      BY <2>5 DEF RecordCall
    <3> QED
      BY <1>2, <3>1
  <2>6. ASSUME q = r, RecordChild(r, Asks(r)) PROVE Result
    BY <2>6 DEF RecordChild
  <2>7. ASSUME q = r, InsertChild(r, Asks(r)) PROVE Result
    BY <1>3, <2>7
  <2> QED
    BY <1>3, <2>1, <2>2, <2>3, <2>4, <2>5, <2>6, <2>7 DEF Perform
<1>4. ASSUME NEW q \in RunIds, NEW w \in Workers, Claim(q, w) PROVE Result
  <2>1. CASE q = r
    <3>1. exec'[r] = [Idle EXCEPT !.on = w]
      BY <1>4, <2>1 DEF Claim
    <3> QED
      BY <1>2, <3>1
  <2>2. CASE q # r
    BY <1>1, <1>4, <2>2 DEF Claim
  <2> QED
    BY <2>1, <2>2
<1>5. ASSUME NEW q \in RunIds, SleepEnds(q) \/ ChildWakes(q) \/ Reap(q) \/ RequestCancel(q) \/ CancelPropagates(q)
      PROVE  Result
  BY <1>1, <1>5 DEF SleepEnds, ChildWakes, Reap, RequestCancel, CancelPropagates
<1>6. ASSUME NEW q \in RunIds, FenceLost(q) PROVE Result
  <2>1. CASE q = r
    BY <1>2, <1>6, <2>1 DEF FenceLost
  <2>2. CASE q # r
    BY <1>1, <1>6, <2>2 DEF FenceLost
  <2> QED
    BY <2>1, <2>2
<1>7. ASSUME NEW w \in Workers, Crash(w) PROVE Result
  <2>1. runs' = runs /\ (exec'[r] = exec[r] \/ exec'[r] = Idle)
    BY <1>7 DEF Crash, Killed
  <2> QED
    BY <1>1, <1>2, <2>1
<1>8. ASSUME (\E s \in outbox : Dispatch(s)) \/ Tick PROVE Result
  BY <1>1, <1>8 DEF Dispatch, Tick
<1> QED
  BY <1>3, <1>4, <1>5, <1>6, <1>7, <1>8 DEF Next, Progress

-----------------------------------------------------------------------------
(* Sequences.                                                              *)

LEMMA Joins ==
    ASSUME NEW s, IsSeq(s), NEW t, IsSeq(t)
    PROVE  /\ IsSeq(s \o t)
           /\ Len(s) \in Nat /\ Len(t) \in Nat /\ Len(s \o t) = Len(s) + Len(t)
           /\ \A i \in 1..Len(s \o t) :
                 (s \o t)[i] = IF i <= Len(s) THEN s[i] ELSE t[i - Len(s)]
<1> DEFINE T == Range(s) \cup Range(t)
<1>1. Range(s) \subseteq T /\ Range(t) \subseteq T
  OBVIOUS
<1>2. s \in Seq(Range(s)) /\ t \in Seq(Range(t))
  BY DEF IsSeq
<1> HIDE DEF T
<1>3. s \in Seq(T) /\ t \in Seq(T)
  BY <1>1, <1>2, SeqMonotonic
<1>4. s \o t \in Seq(T) /\ Len(s) \in Nat /\ Len(t) \in Nat /\ Len(s \o t) = Len(s) + Len(t)
      /\ \A i \in 1..Len(s) + Len(t) : (s \o t)[i] = IF i <= Len(s) THEN s[i] ELSE t[i - Len(s)]
  BY <1>3, ConcatProperties, LenProperties
<1>5. IsSeq(s \o t)
  BY <1>4, SeqOfRange DEF IsSeq
<1> QED
  BY <1>4, <1>5

\* A script given as a function.
LEMMA Tabulated ==
    ASSUME NEW n \in Nat, NEW s, s = [i \in 1..n |-> s[i]]
    PROVE  IsSeq(s) /\ Len(s) = n
BY SeqDef, LenProperties DEF IsSeq, Range
=============================================================================
