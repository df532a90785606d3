------------------------- MODULE GuestEffectProofs -------------------------
(***************************************************************************)
(* Durable execution answers a request from history once its event is      *)
(* durable: no guest's effect happens more often than the tests allow, for *)
(* every registry of the ports, any tests, runs, workers and crashes.      *)
(*                                                                         *)
(* The argument counts, under each tag, what every run has made, and what  *)
(* it may still make: its share by the script of its guest, and what it    *)
(* hands on to the child it starts or the run it goes on as.  What is made *)
(* is within what is due; what is due grows only where a crash orphans a   *)
(* child; and what the fixture received beyond what was made was lost with *)
(* its event.  That the requests come in the order of the script follows   *)
(* from the same facts about one guest.                                    *)
(***************************************************************************)
EXTENDS GuestRunsProofs

\* The calls that reach the fixture.
Requesting == {"call", "send", "deferred"}

\* The guests that go on as new runs; they start no others.
Continuing == {"continueasnew", "casnchild"}

\* The place of a request in the script of its guest; a saga has none.
Place(p, t) ==
    CASE t \in {"after", "late", "finished"} -> 3
      [] t = "work" /\ p.w = "deferdeadletter" -> 3
      [] t = "two" -> 2 * p.slices + 2
      [] OTHER -> 1

\* What holds of c, the n-th host call of a guest given p.
Fits(p, n, c) ==
    /\ c.op = "call" => c.permanent \in BOOLEAN /\ c.tries \in Nat \ {0} /\ c.fails \in Nat
    /\ c.op \in {"call", "send"} /\ p.w # "saga" => n = Place(p, c.tag) /\ Share(p, c.tag) >= 1
    /\ c.op = "call" /\ p.w # "saga" =>
          \A k \in Nat : k <= c.tries /\ k <= c.fails + 1 => k <= Share(p, c.tag)
    /\ c.op = "defer" => n = 2
    /\ c.op \in {"spawn", "detach", "continue"} => \A t : Worth(c.prog, t) <= Legacy(p, t)
    /\ c.op \in {"spawn", "detach"} =>
          p.w \notin Continuing /\ (n = 1 \/ p.w = "cancelchild" \/ \A t : Legacy(p, t) = 0)

\* What was recorded of them.
Followed(p, h) ==
    \A i \in DOMAIN h :
        /\ h[i].op \in {"call", "send"} => h[i].tag # "cleanup"
        /\ h[i].op \in {"call", "send"} /\ p.w # "saga" => i = Place(p, h[i].tag)
        /\ h[i].op = "defer" => i = 2
        /\ h[i].op \in {"spawn", "detach"} =>
              /\ p.w \notin Continuing
              /\ \/ i = 1 /\ p.w # "cancelchild"
                 \/ p.w = "cancelchild" /\ \E j \in 1..i - 1 : h[j].res = "cancelled"
                 \/ \A t : Legacy(p, t) = 0

FirstBroken(h, b) == b \in DOMAIN h /\ h[b].res # "ok" /\ \A j \in 1..b - 1 : h[j].res = "ok"

\* A saga goes forward up to the step that fails, and from there backward.
SagaHeard(p, h) ==
    /\ \A i \in DOMAIN h : (\A j \in 1..i - 1 : h[j].res = "ok") =>
          /\ i \in 1..3
          /\ h[i].tag = SagaForward[i]
          /\ h[i].res = "ok" => SagaForward[i] # p.failAt
          /\ h[i].res \notin {"ok", "refused"} => SagaForward[i] = p.failAt
    /\ \A b \in 1..3 : FirstBroken(h, b) =>
          \A i \in DOMAIN h : i > b => 2 * b - i \in 1..2 /\ h[i].tag = SagaUndo[2 * b - i]

Refused(r) == \E i \in DOMAIN runs[r].hist : runs[r].hist[i].res = "refused"

\* The requests made of the call a run asks for, and their answer.
Replied(r) ==
    LET c == Asks(r)
        n == exec[r].spent
    IN c.op = "call" =>
          /\ n > 0 => n <= Received(c.tag) /\ ~Refused(r)
          /\ n > 0 => n <= c.tries /\ n <= c.fails + 1 /\ (c.permanent => n <= 1)
          /\ n > 0 /\ exec[r].got = "none" => ~c.permanent /\ n < c.tries /\ n <= c.fails
          /\ exec[r].got = "ok" => ~c.permanent
          /\ exec[r].got = "error" => c.permanent
          /\ exec[r].got = "exhausted" => ~c.permanent /\ c.fails >= 1
          /\ exec[r].got = "refused" => runs[r].cancel

Consistent(r) ==
    /\ Followed(runs[r].prog, runs[r].hist)
    /\ runs[r].prog.w = "saga" => SagaHeard(runs[r].prog, runs[r].hist)

Works(r) ==
    /\ Consistent(r)
    /\ Refused(r) => runs[r].cancel
    /\ Replied(r)

Working == \A r \in RunIds : runs[r].status # "absent" => Works(r)

\* Pairs of a run and a number up to f[r].
Pairs(f) == {x \in RunIds \X Nat : 1 <= x[2] /\ x[2] <= f[x[1]]}

Told(r, t) == \E i \in DOMAIN runs[r].hist : runs[r].hist[i].op \in Requesting /\ runs[r].hist[i].tag = t

Past(r) == runs[r].status \in Terminal /\ ~Executing(r)

\* The requests under t of the run r that are in its history or in the memory of its worker;
\* all it could make, once it can make no more.
Made(r, t) ==
    IF runs[r].status = "absent" THEN 0
    ELSE IF Told(r, t) \/ Past(r) THEN Share(runs[r].prog, t)
    ELSE IF Asks(r).op = "call" /\ Asks(r).tag = t THEN exec[r].spent ELSE 0

MadeBy(t) == [r \in RunIds |-> Made(r, t)]

ReceiptsAreKnown ==
    /\ IsFiniteSet(outbox)
    /\ \A t : Received(t) + Tagged(outbox, t) <= Cardinality(Pairs(MadeBy(t))) + Tagged(lost, t)

\* The run has started its child, or never will.
Bequeathed(r) ==
    \/ exec[r].child # 0
    \/ \E i \in DOMAIN runs[r].hist : runs[r].hist[i].op \in {"spawn", "detach"}
    \/ runs[r].status \in Terminal

\* The requests under t the run r has made or may make, by itself or by runs it may yet start.
Dues(r, t) ==
    IF runs[r].status = "absent" THEN 0
    ELSE Share(runs[r].prog, t) + IF Bequeathed(r) THEN 0 ELSE Legacy(runs[r].prog, t)

DueOf(t) == [r \in RunIds |-> Dues(r, t)]

Allowed(t) == Expected(t, scenario.allows)

DuesAreAllowed ==
    /\ orphans \in Nat
    /\ \A t : /\ Cardinality(Pairs(DueOf(t))) <= Allowed(t) * (1 + orphans)
              /\ \A r \in RunIds : runs[r].status # "absent" => Worth(runs[r].prog, t) <= Allowed(t)

-----------------------------------------------------------------------------
LEMMA SharesAreCounts ==
    ASSUME NEW p, IsInput(p), NEW t PROVE Share(p, t) \in Nat /\ Legacy(p, t) \in Nat
<1>1. Attempts(p) \in Nat
  BY DEF Attempts, IsInput, IsRetry
<1>2. \A n \in Nat : Later(n) \in Nat
  BY DEF Later
<1>3. Share(p, t) \in Nat
  BY <1>1 DEF Share
<1>4. CASE p.w \in {"recoveryparent", "cancelchild", "detached"}
  <2>1. Attempts(p.child) \in Nat
    BY <1>4 DEF Attempts, IsInput, IsRetry
  <2>2. Share(p.child, t) \in Nat
    BY <2>1 DEF Share
  <2>3. Legacy(p, t) = Share(p.child, t)
    BY <1>4 DEF Legacy
  <2> QED
    BY <1>3, <2>2, <2>3
<1>5. CASE p.w = "childparent"
  <2>1. Legacy(p, t) = Share([w |-> "childsleeper"], t)
    BY <1>5 DEF Legacy
  <2>2. PICK x : x = [w |-> "childsleeper"]
    OBVIOUS
  <2>3. Attempts(x) = 0
    BY <2>2 DEF Attempts
  <2>4. Share(x, t) \in Nat
    BY <2>3 DEF Share
  <2> QED
    BY <1>3, <2>1, <2>2, <2>4
<1>6. CASE p.w = "casnparent"
  <2>1. p.child.iterations \in Nat
    BY <1>6 DEF IsInput
  <2>2. Legacy(p, t) = IF t = "Iteration" THEN 1 + Later(p.child.iterations) ELSE 0
    BY <1>6 DEF Legacy
  <2> QED
    BY <1>2, <1>3, <2>1, <2>2
<1>7. CASE p.w = "casnchild"
  <2>1. p.iterations \in Nat
    BY <1>7 DEF IsInput
  <2>2. Legacy(p, t) = IF t = "Iteration" THEN Later(p.iterations) ELSE 0
    BY <1>7 DEF Legacy
  <2> QED
    BY <1>2, <1>3, <2>1, <2>2
<1>8. CASE p.w = "continueasnew"
  <2>1. p.remaining \in Nat
    BY <1>8 DEF IsInput
  <2>2. Legacy(p, t) = IF t = "iteration" THEN Later(p.remaining) ELSE 0
    BY <1>8 DEF Legacy
  <2> QED
    BY <1>2, <1>3, <2>1, <2>2
<1>9. CASE p.w \notin {"recoveryparent", "cancelchild", "detached", "childparent", "casnparent",
                      "casnchild", "continueasnew"}
  <2>1. Legacy(p, t) = 0
    BY <1>9 DEF Legacy
  <2> QED
    BY <1>3, <2>1
<1> QED
  BY <1>4, <1>5, <1>6, <1>7, <1>8, <1>9

\* Guests that ask the fixture for nothing and start nothing.
LEMMA IdleGuests ==
    ASSUME NEW p, p.w \in {"childleaf", "failingchild", "terminateleaf", "cancellable"}, NEW t
    PROVE  Worth(p, t) = 0
<1>1. Attempts(p) = 0 /\ OnceTags(p) = {} /\ Legacy(p, t) = 0
  BY DEF Attempts, OnceTags, Legacy
<1> QED
  BY <1>1 DEF Worth, Share

AllFit(p, calls) == IsSeq(calls) /\ \A i \in 1..Len(calls) : Fits(p, i, calls[i])

LEMMA LocalsFit ==
    ASSUME NEW p, NEW n, NEW c, c.op \in {"sleep", "poll", "await", "return", "fail"}
    PROVE  Fits(p, n, c)
BY DEF Fits

LEMMA Locals ==
    /\ Sleep.op = "sleep" /\ Poll.op = "poll" /\ Wrapped.op = "fail" /\ OwnWords.op = "fail"
    /\ \A outcome : Return(outcome).op = "return"
    /\ \A kids : AwaitAll(kids).op = "await" /\ AwaitAny(kids).op = "await"
    /\ \A k : Await(k).op = "await"
BY DEF Sleep, SleepFor, Poll, Wrapped, OwnWords, Return, AwaitAll, AwaitAny, Await

LEMMA ScriptFits ==
    ASSUME NEW p, NEW h, IsSeq(h), NEW calls, AllFit(p, calls),
           NEW end, end.op \in {"return", "fail"}
    PROVE  Fits(p, Len(h) + 1, Script(calls, end, h))
BY ScriptFollows, LocalsFit DEF AllFit

LEMMA PropagatingFits ==
    ASSUME NEW p, NEW h, IsSeq(h), NEW calls, AllFit(p, calls)
    PROVE  Fits(p, Len(h) + 1, Propagating(calls, h))
<1>1. Fits(p, Len(h) + 1, Wrapped)
  BY Locals, LocalsFit
<1>2. Fits(p, Len(h) + 1, Script(calls, Return("completed"), h))
  BY Locals, ScriptFits
<1> QED
  BY <1>1, <1>2 DEF Propagating

LEMMA TuplesFit ==
    ASSUME NEW p, NEW a, Fits(p, 1, a), NEW b, Fits(p, 2, b), NEW c, Fits(p, 3, c)
    PROVE  AllFit(p, <<a>>) /\ AllFit(p, <<a, b>>) /\ AllFit(p, <<a, b, c>>)
<1>1. /\ \A i \in 1..1 : Fits(p, i, <<a>>[i])
      /\ \A i \in 1..2 : Fits(p, i, <<a, b>>[i])
      /\ \A i \in 1..3 : Fits(p, i, <<a, b, c>>[i])
  OBVIOUS
<1> QED
  BY <1>1, Tuples DEF AllFit

LEMMA OnceFits ==
    ASSUME NEW p, NEW n, NEW t, t # "work", t \in OnceTags(p), n = Place(p, t)
    PROVE  Fits(p, n, Call(t)) /\ Fits(p, n, Send(t))
<1>1. Share(p, t) = 1
  BY DEF Share
<1> QED
  BY <1>1 DEF Fits, Call, CallRetrying, Send

LEMMA Places ==
    ASSUME NEW p
    PROVE  /\ \A t \in {"before", "early", "body", "iteration", "Iteration", "one", "started"} :
                 Place(p, t) = 1
           /\ \A t \in {"after", "late", "finished"} : Place(p, t) = 3
           /\ Place(p, "two") = 2 * p.slices + 2
           /\ Place(p, "work") = IF p.w = "deferdeadletter" THEN 3 ELSE 1
BY DEF Place

\* The attempts at `work` stay within the budget, and stop when the fixture no longer fails.
LEMMA WorkFits ==
    ASSUME NEW p, NEW n, n = Place(p, "work"), NEW fails \in Nat, p.attempts \in Nat \ {0},
           p.w \in {"retry", "deadletter", "deadletteropaque", "deferdeadletter"},
           p.w = "retry" => fails = p.failTimes
    PROVE  Fits(p, n, CallRetrying("work", p.attempts, fails))
<1>1. Attempts(p) = IF p.w = "retry" /\ p.failTimes < p.attempts THEN p.failTimes + 1 ELSE p.attempts
  BY DEF Attempts
<1>2. Share(p, "work") = Attempts(p)
  BY DEF Share
<1> DEFINE c == CallRetrying("work", p.attempts, fails)
<1>3. /\ c.op = "call" /\ c.tag = "work" /\ c.permanent \in BOOLEAN
      /\ c.tries = p.attempts /\ c.fails = fails
  BY DEF CallRetrying
<1>4. Attempts(p) >= 1 /\ \A k \in Nat : k <= p.attempts /\ k <= fails + 1 => k <= Attempts(p)
  BY <1>1
<1>5. Share(p, c.tag) = Attempts(p) /\ n = Place(p, c.tag) /\ c.tries \in Nat \ {0} /\ c.fails \in Nat
  BY <1>2, <1>3
<1>6. Fits(p, n, c)
  <2> HIDE DEF c
  <2> QED
    BY <1>3, <1>4, <1>5 DEF Fits
<1> QED
  BY <1>6

LEMMA ChildrenFit ==
    ASSUME NEW p, NEW n, NEW child, NEW policy, \A t : Worth(child, t) <= Legacy(p, t),
           p.w \notin Continuing, n = 1 \/ p.w = "cancelchild" \/ \A t : Legacy(p, t) = 0
    PROVE  Fits(p, n, ChildUnder(child, policy)) /\ Fits(p, n, Detach(child))
BY DEF Fits, ChildUnder, Detach

\* What a run starts asks for no more than is bequeathed to it.
LEMMA Bequests ==
    ASSUME NEW p, IsInput(p), NEW t
    PROVE  /\ p.w \in {"recoveryparent", "cancelchild", "detached", "casnparent"} =>
                 Worth(p.child, t) <= Legacy(p, t)
           /\ p.w = "childparent" => Worth([w |-> "childsleeper"], t) <= Legacy(p, t)
           /\ p.w = "casnchild" /\ p.iterations > 1 =>
                 Worth([p EXCEPT !.iterations = @ - 1], t) <= Legacy(p, t)
           /\ p.w = "continueasnew" /\ p.remaining > 1 =>
                 Worth([p EXCEPT !.remaining = @ - 1], t) <= Legacy(p, t)
<1>1. ASSUME p.w \in {"recoveryparent", "cancelchild", "detached"}
      PROVE  Worth(p.child, t) <= Legacy(p, t)
  <2>1. Legacy(p.child, t) = 0 /\ IsInput(p.child)
    BY <1>1 DEF IsInput, Legacy
  <2>2. Share(p.child, t) \in Nat
    BY <2>1, SharesAreCounts
  <2>3. Legacy(p, t) = Share(p.child, t)
    BY <1>1 DEF Legacy
  <2> QED
    BY <2>1, <2>2, <2>3 DEF Worth
<1>2. ASSUME p.w = "childparent" PROVE Worth([w |-> "childsleeper"], t) <= Legacy(p, t)
  <2>1. PICK x : x = [w |-> "childsleeper"]
    OBVIOUS
  <2>2. Legacy(x, t) = 0 /\ IsInput(x)
    BY <2>1 DEF IsInput, Legacy
  <2>3. Share(x, t) \in Nat
    BY <2>2, SharesAreCounts
  <2>4. Legacy(p, t) = Share(x, t)
    BY <1>2, <2>1 DEF Legacy
  <2> QED
    BY <2>1, <2>2, <2>3, <2>4 DEF Worth
<1>3. ASSUME NEW x, x.w = "casnchild", x.iterations \in Nat
      PROVE  Worth(x, t) = IF t = "Iteration" THEN 1 + Later(x.iterations) ELSE 0
  <2>1. Share(x, t) = IF t = "Iteration" THEN 1 ELSE 0
    BY <1>3 DEF Share, Attempts, OnceTags
  <2>2. Legacy(x, t) = IF t = "Iteration" THEN Later(x.iterations) ELSE 0
    BY <1>3 DEF Legacy
  <2>3. Later(x.iterations) \in Nat
    BY <1>3 DEF Later
  <2> QED
    BY <2>1, <2>2, <2>3 DEF Worth
<1>4. ASSUME NEW x, x.w = "continueasnew", x.remaining \in Nat
      PROVE  Worth(x, t) = IF t = "iteration" THEN 1 + Later(x.remaining) ELSE 0
  <2>1. Share(x, t) = IF t = "iteration" THEN 1 ELSE 0
    BY <1>4 DEF Share, Attempts, OnceTags
  <2>2. Legacy(x, t) = IF t = "iteration" THEN Later(x.remaining) ELSE 0
    BY <1>4 DEF Legacy
  <2>3. Later(x.remaining) \in Nat
    BY <1>4 DEF Later
  <2> QED
    BY <2>1, <2>2, <2>3 DEF Worth
<1>5. \A n \in Nat : n > 1 => 1 + Later(n - 1) = Later(n)
  BY DEF Later
<1>6. ASSUME p.w = "casnparent" PROVE Worth(p.child, t) <= Legacy(p, t)
  <2>1. p.child.w = "casnchild" /\ p.child.iterations \in Nat
    BY <1>6 DEF IsInput
  <2>2. Legacy(p, t) = IF t = "Iteration" THEN 1 + Later(p.child.iterations) ELSE 0
    BY <1>6 DEF Legacy
  <2>3. Later(p.child.iterations) \in Nat
    BY <2>1 DEF Later
  <2> QED
    BY <1>3, <2>1, <2>2, <2>3
<1>7. ASSUME p.w = "casnchild", p.iterations > 1
      PROVE  Worth([p EXCEPT !.iterations = @ - 1], t) <= Legacy(p, t)
  <2>1. PICK x : x = [p EXCEPT !.iterations = @ - 1]
    OBVIOUS
  <2>2. x.w = "casnchild" /\ x.iterations = p.iterations - 1 /\ p.iterations \in Nat
    BY <1>7, <2>1 DEF IsInput
  <2>3. Worth(x, t) = IF t = "Iteration" THEN Later(p.iterations) ELSE 0
    BY <1>3, <1>5, <1>7, <2>2
  <2>4. Legacy(p, t) = IF t = "Iteration" THEN Later(p.iterations) ELSE 0
    BY <1>7 DEF Legacy
  <2>5. Later(p.iterations) \in Nat
    BY <2>2 DEF Later
  <2> QED
    BY <2>1, <2>3, <2>4, <2>5
<1>8. ASSUME p.w = "continueasnew", p.remaining > 1
      PROVE  Worth([p EXCEPT !.remaining = @ - 1], t) <= Legacy(p, t)
  <2>1. PICK x : x = [p EXCEPT !.remaining = @ - 1]
    OBVIOUS
  <2>2. x.w = "continueasnew" /\ x.remaining = p.remaining - 1 /\ p.remaining \in Nat
    BY <1>8, <2>1 DEF IsInput
  <2>3. Worth(x, t) = IF t = "iteration" THEN Later(p.remaining) ELSE 0
    BY <1>4, <1>5, <1>8, <2>2
  <2>4. Legacy(p, t) = IF t = "iteration" THEN Later(p.remaining) ELSE 0
    BY <1>8 DEF Legacy
  <2>5. Later(p.remaining) \in Nat
    BY <2>2 DEF Later
  <2> QED
    BY <2>1, <2>3, <2>4, <2>5
<1> QED
  BY <1>1, <1>2, <1>6, <1>7, <1>8
LEMMA JoinsFit ==
    ASSUME NEW p, NEW s, AllFit(p, s), NEW t, IsSeq(t),
           \A i \in 1..Len(t) : Fits(p, Len(s) + i, t[i])
    PROVE  AllFit(p, s \o t)
<1>1. /\ IsSeq(s \o t)
      /\ Len(s) \in Nat /\ Len(t) \in Nat /\ Len(s \o t) = Len(s) + Len(t)
      /\ \A i \in 1..Len(s \o t) :
            (s \o t)[i] = IF i <= Len(s) THEN s[i] ELSE t[i - Len(s)]
  BY Joins DEF AllFit
<1>2. ASSUME NEW i \in 1..Len(s \o t) PROVE Fits(p, i, (s \o t)[i])
  <2>1. CASE i <= Len(s)
    BY <1>1, <2>1 DEF AllFit
  <2>2. CASE ~(i <= Len(s))
    <3>1. /\ i - Len(s) \in 1..Len(t) /\ (s \o t)[i] = t[i - Len(s)]
          /\ Len(s) + (i - Len(s)) = i
      BY <1>1, <2>2
    <3>2. Fits(p, Len(s) + (i - Len(s)), t[i - Len(s)])
      BY <3>1
    <3> QED
      BY <3>1, <3>2
  <2> QED
    BY <2>1, <2>2
<1> QED
  BY <1>1, <1>2 DEF AllFit

\* A script of one call and then another, or none.
LEMMA OneOrTwoFit ==
    ASSUME NEW p, NEW a, Fits(p, 1, a), NEW d, NEW b, d => Fits(p, 2, b)
    PROVE  AllFit(p, <<a>> \o (IF d THEN <<b>> ELSE <<>>))
<1>1. AllFit(p, <<a>>) /\ Len(<<a>>) = 1 /\ IsSeq(<<b>>) /\ Len(<<b>>) = 1 /\ IsSeq(<<>>) /\ Len(<<>>) = 0
  <2>1. \A i \in 1..1 : <<a>>[i] = a /\ i = 1
    OBVIOUS
  <2> QED
    BY <2>1, Tuples DEF AllFit
<1>2. CASE d
  <2>1. \A i \in 1..1 : <<b>>[i] = b /\ 1 + i = 2
    OBVIOUS
  <2>2. AllFit(p, <<a>> \o <<b>>)
    BY <1>1, <1>2, <2>1, JoinsFit
  <2> QED
    BY <1>2, <2>2
<1>3. CASE ~d
  <2>1. \A i \in 1..0 : Fits(p, 1 + i, <<>>[i])
    OBVIOUS
  <2>2. AllFit(p, <<a>> \o <<>>)
    BY <1>1, <2>1, JoinsFit
  <2> QED
    BY <1>3, <2>2
<1> QED
  BY <1>2, <1>3

LEMMA PollLoopFits ==
    ASSUME NEW p, NEW n \in Nat
    PROVE  /\ AllFit(p, PollLoop(n)) /\ Len(PollLoop(n)) = 2 * n
           /\ \A i \in 1..2 * n : PollLoop(n)[i].op \in {"poll", "sleep"}
<1>1. /\ IsSeq(PollLoop(n)) /\ Len(PollLoop(n)) = 2 * n
      /\ \A i \in 1..2 * n : PollLoop(n)[i] \in {Poll, Sleep}
  BY PollLoopSpeaks DEF AllSpeak
<1> QED
  BY <1>1, Locals, LocalsFit DEF AllFit

\* The child is started by the call after the first poll that saw the cancellation.
LEMMA CancelChildStarts ==
    ASSUME NEW p, IsInput(p), p.w = "cancelchild", NEW h, IsSeq(h)
    PROVE  \/ CancelChild(p, h).op \in {"poll", "sleep", "return"}
           \/ /\ CancelChild(p, h) = Child(p.child)
              /\ Len(h) \in Nat \ {0} /\ h[Len(h)].res = "cancelled"
              /\ \A j \in 1..Len(h) - 1 : h[j].res # "cancelled"
<1> DEFINE I    == {i \in 1..Len(h) : h[i].res = "cancelled"}
           seen == IF I # {} THEN Min(I) ELSE 0
           rest == SubSeq(h, seen + 1, Len(h))
<1>1. Len(h) \in Nat /\ DOMAIN h = 1..Len(h) /\ h \in Seq(Range(h)) /\ \A i \in 1..Len(h) : h[i] \in Range(h)
  BY LenProperties, ElementOfSeq DEF IsSeq
<1>2. CancelChild(p, h) =
         IF seen = 0 THEN Script(PollLoop(p.slices), Return("never-observed"), h)
                     ELSE Script(<<Child(p.child)>>, Return("child-started"), rest)
  BY DEF CancelChild, SelectInSeq
<1>3. CASE seen = 0
  <2>1. /\ IsSeq(PollLoop(p.slices))
        /\ \A i \in 1..Len(PollLoop(p.slices)) : PollLoop(p.slices)[i].op \in {"poll", "sleep"}
    BY PollLoopFits DEF IsInput, AllFit
  <2> HIDE DEF seen
  <2>2. CancelChild(p, h) = Script(PollLoop(p.slices), Return("never-observed"), h)
    BY <1>2, <1>3
  <2> QED
    BY <2>1, <2>2, Locals, ScriptFollows
<1>4. CASE seen # 0
  <2>1. seen \in I /\ \A i \in I : seen <= i
    <3>1. I \in SUBSET Nat
      BY <1>1
    <3> QED
      BY <1>4, <3>1, LeastExists
  <2> HIDE DEF seen
  <2>2. seen \in 1..Len(h)
    BY <2>1
  <2>3. IsSeq(rest) /\ Len(rest) = Len(h) - seen
    <3>1. seen + 1 \in 1..Len(h) + 1 /\ \A i \in seen + 1..Len(h) : h[i] \in Range(h)
      BY <1>1, <2>2
    <3>2. rest \in Seq(Range(h)) /\ Len(rest) = IF seen + 1 <= Len(h) THEN Len(h) - (seen + 1) + 1 ELSE 0
      BY <1>1, <3>1, SubSeqProperties
    <3>3. Len(rest) = Len(h) - seen
      <4> HIDE DEF rest
      <4>1. PICK n \in Nat : n = Len(h)
        BY <1>1
      <4>2. \A k \in 1..n : (IF k + 1 <= n THEN n - (k + 1) + 1 ELSE 0) = n - k
        OBVIOUS
      <4> QED
        BY <2>2, <3>2, <4>1, <4>2
    <3> QED
      BY <3>2, <3>3, SeqOfRange DEF IsSeq
  <2>4. IsSeq(<<Child(p.child)>>) /\ Len(<<Child(p.child)>>) = 1
    BY Tuples
  <2> HIDE DEF rest
  <2>5. CancelChild(p, h) = Script(<<Child(p.child)>>, Return("child-started"), rest)
    BY <1>2, <1>4 DEF rest
  <2>6. CASE CancelChild(p, h) = Return("child-started")
    BY <2>6, Locals
  <2>7. CASE CancelChild(p, h) # Return("child-started")
    <3>1. Len(rest) + 1 \in 1..1 /\ CancelChild(p, h) = <<Child(p.child)>>[Len(rest) + 1]
      BY <2>3, <2>4, <2>5, <2>7, ScriptFollows
    <3>2. Len(rest) = 0 /\ seen = Len(h)
      <4>1. PICK n \in Nat : n = Len(h)
        BY <1>1
      <4>2. \A k \in 1..n : (n - k) + 1 \in 1..1 => n - k = 0 /\ k = n
        OBVIOUS
      <4> QED
        BY <2>2, <2>3, <3>1, <4>1, <4>2
    <3>4. /\ Len(h) \in Nat \ {0} /\ h[Len(h)].res = "cancelled"
          /\ \A j \in 1..Len(h) - 1 : h[j].res # "cancelled"
      BY <1>1, <2>1, <2>2, <3>2
    <3> QED
      BY <1>1, <3>1, <3>2, <3>4
  <2> QED
    BY <2>6, <2>7
<1> QED
  BY <1>3, <1>4

LEMMA BulkCancelFits ==
    ASSUME NEW p, IsInput(p), p.w = "bulkcancel", NEW h, IsSeq(h)
    PROVE  Fits(p, Len(h) + 1, BulkCancel(p, h))
<1> DEFINE loop  == PollLoop(p.slices)
           calls == <<Call("one")>> \o loop \o <<Call("two")>>
<1>1. p.slices \in Nat /\ OnceTags(p) = {"one", "two"}
  BY DEF IsInput, OnceTags
<1>2. Fits(p, 1, Call("one")) /\ Fits(p, 2 * p.slices + 2, Call("two"))
  BY <1>1, OnceFits, Places
<1>3. /\ IsSeq(loop) /\ Len(loop) = 2 * p.slices
      /\ \A i \in 1..2 * p.slices : loop[i].op \in {"poll", "sleep"}
  BY <1>1, PollLoopFits DEF AllFit
<1>4. AllFit(p, <<Call("one")>>) /\ Len(<<Call("one")>>) = 1 /\ IsSeq(<<Call("one")>>)
  <2>1. \A i : Fits(p, i, Sleep)
    BY LocalsFit, Locals
  <2> QED
    BY <1>2, <2>1, TuplesFit, Tuples
<1> HIDE DEF loop
<1>5. AllFit(p, <<Call("one")>> \o loop) /\ Len(<<Call("one")>> \o loop) = 1 + 2 * p.slices
  <2>1. \A i \in 1..Len(loop) : Fits(p, Len(<<Call("one")>>) + i, loop[i])
    BY <1>3, LocalsFit
  <2>2. AllFit(p, <<Call("one")>> \o loop)
    BY <1>3, <1>4, <2>1, JoinsFit
  <2>3. Len(<<Call("one")>> \o loop) = Len(<<Call("one")>>) + Len(loop)
    BY <1>3, <1>4, Joins
  <2> QED
    BY <1>3, <1>4, <2>2, <2>3
<1>6. AllFit(p, calls)
  <2>1. IsSeq(<<Call("two")>>) /\ Len(<<Call("two")>>) = 1
    BY Tuples
  <2>2. \A i \in 1..1 : <<Call("two")>>[i] = Call("two") /\ 1 + 2 * p.slices + i = 2 * p.slices + 2
    BY <1>1
  <2> QED
    BY <1>2, <1>5, <2>1, <2>2, JoinsFit
<1> HIDE DEF calls
<1>7. Fits(p, Len(h) + 1, Script(calls, Return("completed"), h))
  BY <1>6, Locals, ScriptFits
<1>8. Fits(p, Len(h) + 1, Return("cancelled")) /\ Fits(p, Len(h) + 1, Return("step_failed"))
  BY Locals, LocalsFit
<1> QED
  BY <1>7, <1>8 DEF BulkCancel, calls, loop

LEMMA BodyFits ==
    ASSUME NEW p, IsInput(p), p.w # "saga", NEW h, IsSeq(h)
    PROVE  Fits(p, Len(h) + 1, Body(p, h))
<1> DEFINE n == Len(h) + 1
<1>0. /\ \A i : Fits(p, i, Sleep) /\ Fits(p, i, Poll)
      /\ \A i, k : Fits(p, i, Await(k)) /\ Fits(p, i, AwaitAll(k)) /\ Fits(p, i, AwaitAny(k))
      /\ \A i, x : Fits(p, i, Return(x))
      /\ \A i : Fits(p, i, Wrapped) /\ Fits(p, i, OwnWords)
      /\ \A x : Fits(p, 2, Defer(x))
  <2>1. \A x : Fits(p, 2, Defer(x))
    BY DEF Fits, Defer
  <2> QED
    BY <2>1, Locals, LocalsFit
<1>1. CASE p.w = "recovery"
  <2>1. OnceTags(p) = {"before", "after"}
    BY <1>1 DEF OnceTags
  <2>2. Fits(p, 1, Call("before")) /\ Fits(p, 3, Call("after"))
    BY <2>1, OnceFits, Places
  <2>3. AllFit(p, <<Call("before"), Sleep, Call("after")>>)
    BY <1>0, <2>2, TuplesFit
  <2> QED
    BY <1>1, <2>3, PropagatingFits DEF Body, Recovery
<1>2. CASE p.w = "deadletter"
  <2>1. PICK x : x = CallRetrying("work", p.attempts, 999)
    OBVIOUS
  <2>2. Fits(p, 1, x)
    BY <1>2, <2>1, WorkFits, Places DEF IsInput
  <2>3. AllFit(p, <<x>>)
    BY <1>0, <2>2, TuplesFit
  <2>4. Fits(p, n, Propagating(<<x>>, h))
    BY <2>3, PropagatingFits
  <2> QED
    BY <1>2, <2>1, <2>4 DEF Body, DeadLetter
<1>3. CASE p.w = "send"
  <2>1. OnceTags(p) = {"early"}
    BY <1>3 DEF OnceTags
  <2>2. Fits(p, 1, Send("early"))
    BY <2>1, OnceFits, Places
  <2>3. AllFit(p, <<Send("early"), Sleep>>)
    BY <1>0, <2>2, TuplesFit
  <2> QED
    BY <1>3, <2>3, PropagatingFits DEF Body, SendOnce
<1>4. CASE p.w = "sendaftersleep"
  <2>1. OnceTags(p) = {"early", "late"}
    BY <1>4 DEF OnceTags
  <2>2. Fits(p, 1, Send("early")) /\ Fits(p, 3, Send("late"))
    BY <2>1, OnceFits, Places
  <2>3. AllFit(p, <<Send("early"), Sleep, Send("late")>>)
    BY <1>0, <2>2, TuplesFit
  <2> QED
    BY <1>4, <2>3, PropagatingFits DEF Body, SendAfterSleep
<1>5. CASE p.w = "defercleanup"
  <2>1. OnceTags(p) = {"body", "cleanup"}
    BY <1>5 DEF OnceTags
  <2>2. Fits(p, 1, Send("body"))
    BY <2>1, OnceFits, Places
  <2>3. AllFit(p, <<Send("body"), Defer("cleanup"), Sleep>>)
    BY <1>0, <2>2, TuplesFit
  <2> QED
    BY <1>5, <2>3, PropagatingFits DEF Body, DeferCleanup
<1>6. CASE p.w = "deferdeadletter"
  <2>1. OnceTags(p) = {"body", "cleanup"}
    BY <1>6 DEF OnceTags
  <2>2. Fits(p, 1, Send("body"))
    BY <2>1, OnceFits, Places
  <2>3. PICK x : x = CallRetrying("work", p.attempts, 999)
    OBVIOUS
  <2>4. Fits(p, 3, x)
    BY <1>6, <2>3, WorkFits, Places DEF IsInput
  <2>5. AllFit(p, <<Send("body"), Defer("cleanup"), x>>)
    BY <1>0, <2>2, <2>4, TuplesFit
  <2>6. Fits(p, n, Propagating(<<Send("body"), Defer("cleanup"), x>>, h))
    BY <2>5, PropagatingFits
  <2> QED
    BY <1>6, <2>3, <2>6 DEF Body, DeferDeadLetter
<1>7. CASE p.w = "childsleeper"
  <2>1. OnceTags(p) = {"started", "finished"}
    BY <1>7 DEF OnceTags
  <2>2. Fits(p, 1, Call("started")) /\ Fits(p, 3, Call("finished"))
    BY <2>1, OnceFits, Places
  <2>3. AllFit(p, <<Call("started"), Sleep, Call("finished")>>)
    BY <1>0, <2>2, TuplesFit
  <2> QED
    BY <1>7, <2>3, PropagatingFits DEF Body, ChildSleeper
<1>8. CASE p.w \in {"recoveryparent", "casnparent", "detached"}
  <2>1. \A t : Worth(p.child, t) <= Legacy(p, t)
    BY <1>8, Bequests
  <2>2. Fits(p, 1, Child(p.child)) /\ Fits(p, 1, Detach(p.child))
    BY <1>8, <2>1, ChildrenFit DEF Child, Continuing
  <2>3. /\ AllFit(p, <<Child(p.child), Sleep, Await(Kid(h, 1))>>)
        /\ AllFit(p, <<Child(p.child), Await(Kid(h, 1))>>)
        /\ AllFit(p, <<Detach(p.child)>>)
    BY <1>0, <2>2, TuplesFit
  <2>4. /\ Fits(p, n, Propagating(<<Child(p.child), Sleep, Await(Kid(h, 1))>>, h))
        /\ Fits(p, n, Propagating(<<Child(p.child), Await(Kid(h, 1))>>, h))
        /\ Fits(p, n, Propagating(<<Detach(p.child)>>, h))
    BY <2>3, PropagatingFits
  <2> QED
    BY <1>8, <2>4 DEF Body, RecoveryParent, CasnParent, Detached
<1>9. CASE p.w \in {"awaitonechild", "failparent"}
  <2> DEFINE leaf(w) == Child([w |-> w])
  <2>1. ASSUME NEW w \in {"childleaf", "failingchild"} PROVE Fits(p, 1, leaf(w))
    <3>1. PICK x : x = [w |-> w]
      OBVIOUS
    <3>2. \A t : Worth(x, t) = 0 /\ Legacy(p, t) = 0
      BY <1>9, <3>1, IdleGuests DEF Legacy
    <3> QED
      BY <1>9, <3>1, <3>2, ChildrenFit DEF Child, Continuing
  <2> HIDE DEF leaf
  <2>2. \A w \in {"childleaf", "failingchild"} : AllFit(p, <<leaf(w), Await(Kid(h, 1))>>)
    BY <1>0, <2>1, TuplesFit
  <2>3. \A w \in {"childleaf", "failingchild"} : Fits(p, n, Propagating(<<leaf(w), Await(Kid(h, 1))>>, h))
    BY <2>2, PropagatingFits
  <2> QED
    BY <1>9, <2>3 DEF Body, AwaitOneChild, FailParent, leaf
<1>10. CASE p.w = "retry"
  <2>1. Fits(p, 1, CallRetrying("work", p.attempts, p.failTimes))
    BY <1>10, WorkFits, Places DEF IsInput, IsRetry
  <2>2. AllFit(p, <<CallRetrying("work", p.attempts, p.failTimes)>>)
    BY <1>0, <2>1, TuplesFit
  <2>3. Fits(p, n, Script(<<CallRetrying("work", p.attempts, p.failTimes)>>, Return("succeeded"), h))
    BY <2>2, Locals, ScriptFits
  <2> QED
    BY <1>0, <1>10, <2>3 DEF Body, RetryCall
<1>11. CASE p.w = "deadletteropaque"
  <2>1. PICK x : x = CallRetrying("work", p.attempts, 999)
    OBVIOUS
  <2>2. Fits(p, 1, x)
    BY <1>11, <2>1, WorkFits, Places DEF IsInput
  <2>3. AllFit(p, <<x>>)
    BY <1>0, <2>2, TuplesFit
  <2>4. Fits(p, n, Script(<<x>>, Return("completed"), h))
    BY <2>3, Locals, ScriptFits
  <2> QED
    BY <1>0, <1>11, <2>1, <2>4 DEF Body, DeadLetterOpaque
<1>12. CASE p.w = "continueasnew"
  <2> DEFINE next == Continue([p EXCEPT !.remaining = @ - 1])
  <2>1. OnceTags(p) = {"iteration"}
    BY <1>12 DEF OnceTags
  <2>2. Fits(p, 1, Call("iteration"))
    BY <2>1, OnceFits, Places
  <2>3. p.remaining > 1 => Fits(p, 2, next)
    <3>1. PICK x : x = [p EXCEPT !.remaining = @ - 1]
      OBVIOUS
    <3>2. p.remaining > 1 => \A t : Worth(x, t) <= Legacy(p, t)
      BY <1>12, <3>1, Bequests
    <3> QED
      BY <3>1, <3>2 DEF Fits, Continue
  <2> HIDE DEF next
  <2>4. AllFit(p, <<Call("iteration")>> \o (IF p.remaining > 1 THEN <<next>> ELSE <<>>))
    BY <2>2, <2>3, OneOrTwoFit
  <2> QED
    BY <1>12, <2>4, PropagatingFits DEF Body, ContinueAsNew, next
<1>13. CASE p.w = "casnchild"
  <2> DEFINE next == Continue([p EXCEPT !.iterations = @ - 1])
  <2>1. OnceTags(p) = {"Iteration"}
    BY <1>13 DEF OnceTags
  <2>2. Fits(p, 1, Call("Iteration"))
    BY <2>1, OnceFits, Places
  <2>3. p.iterations > 1 => Fits(p, 2, next)
    <3>1. PICK x : x = [p EXCEPT !.iterations = @ - 1]
      OBVIOUS
    <3>2. p.iterations > 1 => \A t : Worth(x, t) <= Legacy(p, t)
      BY <1>13, <3>1, Bequests
    <3> QED
      BY <3>1, <3>2 DEF Fits, Continue
  <2> HIDE DEF next
  <2>4. AllFit(p, <<Call("Iteration")>> \o (IF p.iterations > 1 THEN <<next>> ELSE <<>>))
    BY <2>2, <2>3, OneOrTwoFit
  <2> QED
    BY <1>13, <2>4, PropagatingFits DEF Body, CasnChild, next
<1>14. CASE p.w = "cancellable"
  <2> DEFINE calls == IF p.poll THEN PollLoop(p.slices) ELSE [i \in 1..p.slices |-> Sleep]
  <2>1. AllFit(p, calls)
    <3>1. p.slices \in Nat
      BY <1>14 DEF IsInput
    <3>2. AllFit(p, [i \in 1..p.slices |-> Sleep])
      BY <1>0, <3>1, Tabulated DEF AllFit
    <3> QED
      BY <3>1, <3>2, PollLoopFits
  <2> HIDE DEF calls
  <2>2. Fits(p, n, Script(calls, Return("completed"), h))
    BY <2>1, Locals, ScriptFits
  <2> QED
    BY <1>0, <1>14, <2>2 DEF Body, Cancellable, calls
<1>15. CASE p.w = "bulkcancel"
  BY <1>15, BulkCancelFits DEF Body
<1>16. CASE p.w = "cancelchild"
  <2>1. \A t : Worth(p.child, t) <= Legacy(p, t)
    BY <1>16, Bequests
  <2>2. Fits(p, n, Child(p.child))
    BY <1>16, <2>1, ChildrenFit DEF Child, Continuing
  <2>3. Fits(p, n, CancelChild(p, h))
    BY <1>16, <2>2, CancelChildStarts, LocalsFit
  <2> QED
    BY <1>16, <2>3 DEF Body
<1>17. CASE p.w \in {"childleaf", "terminateleaf"}
  <2>1. AllFit(p, <<Sleep>>)
    BY <1>0, TuplesFit
  <2>2. Fits(p, n, Script(<<Sleep>>, Return("completed"), h))
    BY <2>1, Locals, ScriptFits
  <2> QED
    BY <1>17, <2>2 DEF Body, ChildLeaf, TerminateLeaf
<1>18. CASE p.w = "failingchild"
  BY <1>0, <1>18 DEF Body, FailingChild
<1>19. CASE p.w \in {"parentfanout", "terminateroot", "cancelawaitingparent", "abandonvariant"}
  <2>1. ASSUME NEW child, child.w \in {"childleaf", "terminateleaf", "cancellable"}, NEW policy, NEW i
        PROVE  Fits(p, i, ChildUnder(child, policy))
    <3>1. \A t : Worth(child, t) = 0 /\ Legacy(p, t) = 0
      BY <1>19, <2>1, IdleGuests DEF Legacy
    <3> QED
      BY <1>19, <3>1, ChildrenFit DEF Continuing
  <2>2. CASE p.w = "parentfanout"
    <3> DEFINE kid  == Child([w |-> "childleaf"])
               wait == IF p.any THEN AwaitAny(Kids(h)) ELSE AwaitAll(Kids(h))
    <3>1. PICK x : x = [w |-> "childleaf"]
      OBVIOUS
    <3>2. \A i : Fits(p, i, kid) /\ Fits(p, i, wait)
      BY <1>0, <2>1, <3>1 DEF Child
    <3> HIDE DEF kid, wait
    <3>3. AllFit(p, [i \in 1..p.n |-> kid])
      <4>1. p.n \in Nat
        BY <2>2 DEF IsInput
      <4> QED
        BY <3>2, <4>1, Tabulated DEF AllFit
    <3>4. IsSeq(<<wait>>) /\ Len(<<wait>>) = 1
      BY Tuples
    <3>5. \A i \in 1..1 : <<wait>>[i] = wait
      OBVIOUS
    <3>6. AllFit(p, [i \in 1..p.n |-> kid] \o <<wait>>)
      BY <3>2, <3>3, <3>4, <3>5, JoinsFit
    <3> QED
      BY <2>2, <3>6, PropagatingFits DEF Body, ParentFanout, kid, wait
  <2>3. CASE p.w = "terminateroot"
    <3> DEFINE kid == ChildUnder([w |-> "terminateleaf"], "TERMINATE")
    <3>1. PICK x : x = [w |-> "terminateleaf"]
      OBVIOUS
    <3>2. \A i : Fits(p, i, kid)
      BY <2>1, <3>1
    <3> HIDE DEF kid
    <3>3. AllFit(p, <<kid, kid, Await(Kid(h, 2))>>)
      BY <1>0, <3>2, TuplesFit
    <3> QED
      BY <2>3, <3>3, PropagatingFits DEF Body, TerminateRoot, kid
  <2>4. ASSUME NEW policy PROVE Fits(p, n, LongAndShort(p, policy, h))
    <3> DEFINE long  == ChildUnder([w |-> "cancellable", poll |-> TRUE, slices |-> p.slices], policy)
               short == ChildUnder([w |-> "childleaf"], "REQUEST_CANCEL")
               calls == <<long, short, Await(Kid(h, 2))>>
    <3>1. PICK x : x = [w |-> "cancellable", poll |-> TRUE, slices |-> p.slices]
      OBVIOUS
    <3>2. PICK y : y = [w |-> "childleaf"]
      OBVIOUS
    <3>3. \A i : Fits(p, i, long) /\ Fits(p, i, short)
      BY <2>1, <3>1, <3>2
    <3> HIDE DEF long, short
    <3>4. AllFit(p, calls)
      BY <1>0, <3>3, TuplesFit
    <3>5. Fits(p, n, Propagating(calls, h))
      BY <3>4, PropagatingFits
    <3> QED
      BY <1>0, <3>5 DEF LongAndShort, long, short
  <2> QED
    BY <1>19, <2>2, <2>3, <2>4 DEF Body, CancelAwaitingParent, AbandonVariant
<1>20. CASE p.w = "childparent"
  <2> DEFINE kid == ChildUnder([w |-> "childsleeper"], p.policy)
  <2>1. PICK x : x = [w |-> "childsleeper"]
    OBVIOUS
  <2>2. \A t : Worth(x, t) <= Legacy(p, t)
    BY <1>20, <2>1, Bequests
  <2>3. Fits(p, 1, kid)
    BY <1>20, <2>1, <2>2, ChildrenFit DEF Continuing
  <2> HIDE DEF kid
  <2>4. AllFit(p, <<kid>> \o (IF p.sleeps THEN <<Sleep>> ELSE <<>>))
    BY <1>0, <2>3, OneOrTwoFit
  <2> QED
    BY <1>20, <2>4, PropagatingFits DEF Body, ChildParent, kid
<1> QED
  BY <1>1, <1>2, <1>3, <1>4, <1>5, <1>6, <1>7, <1>8, <1>9, <1>10, <1>11, <1>12, <1>13, <1>14,
     <1>15, <1>16, <1>17, <1>18, <1>19, <1>20 DEF IsInput

-----------------------------------------------------------------------------
(* A saga, which has no script.                                            *)

SagaNext(p, h, c) ==
    \/ c.op \in {"return", "fail"}
    \/ /\ c.op = "call" /\ c.tries = 1 /\ c.fails = 0 /\ c.permanent \in BOOLEAN
       /\ \/ /\ \A j \in DOMAIN h : h[j].res = "ok"
             /\ Len(h) + 1 \in 1..3 /\ c.tag = SagaForward[Len(h) + 1]
             /\ c.permanent <=> SagaForward[Len(h) + 1] = p.failAt
          \/ \E b \in 1..3 : /\ FirstBroken(h, b)
                             /\ 2 * b - (Len(h) + 1) \in 1..2
                             /\ c.tag = SagaUndo[2 * b - (Len(h) + 1)]

LEMMA SagaAsks ==
    ASSUME NEW p, p.w = "saga", NEW h, IsSeq(h), SagaHeard(p, h)
    PROVE  SagaNext(p, h, Saga(p, h))
<1> DEFINE Forward(i) == CallFailing(SagaForward[i], SagaForward[i] = p.failAt)
           Undo(i)    == CallFailing(SagaUndo[i], SagaUndo[i] = p.failCompensationAt)
           I          == {i \in 1..Len(h) : h[i].res # "ok"}
           broken     == IF I # {} THEN Min(I) ELSE 0
           there      == [i \in 1..3 |-> Forward(i)]
           back       == [i \in 1..(broken - 1) |-> Undo(broken - i)]
           rest       == SubSeq(h, broken + 1, Len(h))
<1>1. Len(h) \in Nat /\ DOMAIN h = 1..Len(h) /\ h \in Seq(Range(h)) /\ \A i \in 1..Len(h) : h[i] \in Range(h)
  BY LenProperties, ElementOfSeq DEF IsSeq
<1>2. /\ \A i : /\ Forward(i).op = "call" /\ Forward(i).tries = 1 /\ Forward(i).fails = 0
                /\ Forward(i).tag = SagaForward[i]
                /\ Forward(i).permanent = (SagaForward[i] = p.failAt)
      /\ \A i : /\ Undo(i).op = "call" /\ Undo(i).tries = 1 /\ Undo(i).fails = 0
                /\ Undo(i).tag = SagaUndo[i]
                /\ Undo(i).permanent = (SagaUndo[i] = p.failCompensationAt)
  BY DEF CallFailing, Call, CallRetrying
<1>3. \A i : Forward(i).permanent \in BOOLEAN /\ Undo(i).permanent \in BOOLEAN
  BY <1>2
<1>4. Saga(p, h) = IF broken = 0 THEN Script(there, Return("transferred"), h)
                                 ELSE Script(back, Wrapped, rest)
  BY DEF Saga, SelectInSeq
<1> HIDE DEF Forward, Undo
<1>5. CASE I = {}
  <2>1. IsSeq(there) /\ Len(there) = 3 /\ \A i \in 1..3 : there[i] = Forward(i)
    BY Tabulated
  <2>2. broken = 0 /\ \A j \in DOMAIN h : h[j].res = "ok"
    BY <1>1, <1>5
  <2> HIDE DEF there, broken, I
  <2>3. \/ Saga(p, h) = Return("transferred")
        \/ Len(h) + 1 \in 1..3 /\ Saga(p, h) = Forward(Len(h) + 1)
    BY <1>4, <2>1, <2>2, ScriptFollows
  <2> QED
    BY <1>2, <1>3, <2>2, <2>3, Locals DEF SagaNext
<1>6. CASE I # {}
  <2>1. broken \in I /\ \A i \in I : broken <= i
    <3>1. I \in SUBSET Nat
      BY <1>1
    <3> QED
      BY <1>6, <3>1, LeastExists
  <2> HIDE DEF broken
  <2>2. broken \in 1..Len(h) /\ FirstBroken(h, broken)
    <3>1. \A j \in 1..broken - 1 : h[j].res = "ok"
      BY <1>1, <2>1
    <3> QED
      BY <1>1, <2>1, <3>1 DEF FirstBroken
  <2>3. broken \in 1..3
    BY <2>2 DEF SagaHeard, FirstBroken
  <2>4. IsSeq(back) /\ Len(back) = broken - 1 /\ \A i \in 1..broken - 1 : back[i] = Undo(broken - i)
    <3>1. broken - 1 \in Nat
      BY <2>3
    <3> QED
      BY <3>1, Tabulated
  <2>5. IsSeq(rest) /\ Len(rest) = Len(h) - broken
    <3>1. broken + 1 \in 1..Len(h) + 1 /\ \A i \in broken + 1..Len(h) : h[i] \in Range(h)
      BY <1>1, <2>2
    <3>2. rest \in Seq(Range(h)) /\ Len(rest) = IF broken + 1 <= Len(h) THEN Len(h) - (broken + 1) + 1 ELSE 0
      BY <1>1, <3>1, SubSeqProperties
    <3>3. Len(rest) = Len(h) - broken
      <4> HIDE DEF rest
      <4>1. PICK n \in Nat : n = Len(h)
        BY <1>1
      <4>2. \A k \in 1..n : (IF k + 1 <= n THEN n - (k + 1) + 1 ELSE 0) = n - k
        OBVIOUS
      <4> QED
        BY <2>2, <3>2, <4>1, <4>2
    <3> QED
      BY <3>2, <3>3, SeqOfRange DEF IsSeq
  <2>6. broken # 0
    BY <2>3
  <2> HIDE DEF there, back, rest, I
  <2>7. Saga(p, h) = Script(back, Wrapped, rest)
    BY <1>4, <2>6
  <2>8. CASE Saga(p, h) = Wrapped
    BY <2>8, Locals DEF SagaNext
  <2>9. CASE Saga(p, h) # Wrapped
    <3>1. Len(rest) + 1 \in 1..broken - 1 /\ Saga(p, h) = back[Len(rest) + 1]
      BY <2>4, <2>5, <2>7, <2>9, ScriptFollows
    <3>2. Saga(p, h) = Undo(broken - (Len(rest) + 1))
      BY <2>4, <3>1
    <3>3. broken - (Len(rest) + 1) = 2 * broken - (Len(h) + 1) /\ 2 * broken - (Len(h) + 1) \in 1..2
      <4>1. PICK n \in Nat : n = Len(h)
        BY <1>1
      <4>2. \A b \in 1..3 : (n - b) + 1 \in 1..b - 1 =>
               b - ((n - b) + 1) = 2 * b - (n + 1) /\ 2 * b - (n + 1) \in 1..2
        OBVIOUS
      <4> QED
        BY <2>3, <2>5, <3>1, <4>1, <4>2
    <3>4. PICK c : c = Saga(p, h)
      OBVIOUS
    <3>5. /\ c.op = "call" /\ c.tries = 1 /\ c.fails = 0 /\ c.permanent \in BOOLEAN
          /\ c.tag = SagaUndo[2 * broken - (Len(h) + 1)]
      BY <1>2, <1>3, <3>2, <3>3, <3>4
    <3> QED
      BY <2>2, <2>3, <3>3, <3>4, <3>5 DEF SagaNext
  <2> QED
    BY <2>8, <2>9
<1> QED
  BY <1>5, <1>6

LEMMA SagaRequestsAre ==
    ASSUME NEW f
    PROVE  SagaRequests(f) =
              CASE f = "Withdraw" -> {"Withdraw"}
                [] f = "Deposit"  -> {"Withdraw", "Deposit", "WithdrawCompensation"}
                [] f = "Notify"   -> ToSet(SagaForward) \cup ToSet(SagaUndo)
                [] OTHER          -> ToSet(SagaForward)
<1>1. /\ ToSet(<<"Withdraw">>) = {"Withdraw"}
      /\ ToSet(<<"Withdraw", "Deposit", "WithdrawCompensation">>)
            = {"Withdraw", "Deposit", "WithdrawCompensation"}
      /\ ToSet(<<"Withdraw", "Deposit", "Notify", "DepositCompensation", "WithdrawCompensation">>)
            = {"Withdraw", "Deposit", "Notify", "DepositCompensation", "WithdrawCompensation"}
  BY DEF ToSet
<1>2. /\ ToSet(SagaForward) = {"Withdraw", "Deposit", "Notify"}
      /\ ToSet(SagaUndo) = {"WithdrawCompensation", "DepositCompensation"}
  BY DEF ToSet, SagaForward, SagaUndo
<1>3. CASE f = "Withdraw"
  BY <1>1, <1>3 DEF SagaRequests, SagaOrder
<1>4. CASE f = "Deposit"
  BY <1>1, <1>4 DEF SagaRequests, SagaOrder
<1>5. CASE f = "Notify"
  BY <1>1, <1>2, <1>5 DEF SagaRequests, SagaOrder
<1>6. CASE f \notin {"Withdraw", "Deposit", "Notify"}
  BY <1>6 DEF SagaRequests, SagaOrder
<1> QED
  BY <1>3, <1>4, <1>5, <1>6

\* The steps of a saga are five different requests.
LEMMA SagaTags ==
    /\ \A i, j \in 1..3 : SagaForward[i] = SagaForward[j] => i = j
    /\ \A i, j \in 1..2 : SagaUndo[i] = SagaUndo[j] => i = j
    /\ \A i \in 1..3, j \in 1..2 : SagaForward[i] # SagaUndo[j]
    /\ \A i \in 1..3 : SagaForward[i] # "work" /\ SagaForward[i] # "cleanup"
    /\ \A i \in 1..2 : SagaUndo[i] # "work" /\ SagaUndo[i] # "cleanup"
BY DEF SagaForward, SagaUndo

\* It asks for none of them twice, and, unless the engine refuses it, for those of its script.
LEMMA SagaFits ==
    ASSUME NEW p, p.w = "saga", NEW h, IsSeq(h), SagaHeard(p, h),
           NEW c, SagaNext(p, h, c), c.op = "call"
    PROVE  /\ \A i \in DOMAIN h : h[i].tag # c.tag
           /\ (\A i \in DOMAIN h : h[i].res # "refused") => Share(p, c.tag) = 1
           /\ c.tag # "cleanup"
<1>1. Len(h) \in Nat /\ DOMAIN h = 1..Len(h)
  BY LenProperties DEF IsSeq
<1>2. PICK n \in Nat : n = Len(h)
  BY <1>1
<1>3. \A i \in 1..n : (\A j \in 1..i - 1 : h[j].res = "ok") => i \in 1..3 /\ h[i].tag = SagaForward[i]
  BY <1>1, <1>2 DEF SagaHeard
<1>4. ASSUME NEW t, t \in SagaRequests(p.failAt), t # "work" PROVE Share(p, t) = 1
  BY <1>4 DEF Share, OnceTags
<1>5. CASE /\ \A j \in DOMAIN h : h[j].res = "ok"
           /\ n + 1 \in 1..3 /\ c.tag = SagaForward[n + 1]
  <2>1. ASSUME NEW i \in 1..n PROVE h[i].tag # c.tag
    <3>1. h[i].tag = SagaForward[i] /\ i \in 1..3 /\ i # n + 1
      BY <1>1, <1>2, <1>3, <1>5
    <3> QED
      BY <1>5, <3>1, SagaTags
  <2>2. \A j \in 1..n : SagaForward[j] # p.failAt
    BY <1>1, <1>2, <1>5 DEF SagaHeard
  <2>3. c.tag \in SagaRequests(p.failAt)
    <3>1. n = 0 => c.tag = "Withdraw"
      BY <1>5 DEF SagaForward
    <3>2. n = 1 => c.tag = "Deposit" /\ p.failAt # "Withdraw"
      BY <1>5, <2>2 DEF SagaForward
    <3>3. n = 2 => c.tag = "Notify" /\ p.failAt \notin {"Withdraw", "Deposit"}
      <4>1. n = 2 => 1 \in 1..n /\ 2 \in 1..n
        OBVIOUS
      <4> QED
        BY <1>5, <2>2, <4>1 DEF SagaForward
    <3>4. n = 0 \/ n = 1 \/ n = 2
      BY <1>5
    <3>5. ToSet(SagaForward) = {"Withdraw", "Deposit", "Notify"}
      BY DEF SagaForward, ToSet
    <3> QED
      BY <3>1, <3>2, <3>3, <3>4, <3>5, SagaRequestsAre
  <2>4. c.tag # "work" /\ c.tag # "cleanup"
    BY <1>5, SagaTags
  <2> QED
    BY <1>1, <1>2, <1>4, <2>1, <2>3, <2>4
<1>6. ASSUME NEW b \in 1..3, FirstBroken(h, b), 2 * b - (n + 1) \in 1..2,
             c.tag = SagaUndo[2 * b - (n + 1)]
      PROVE  /\ \A i \in DOMAIN h : h[i].tag # c.tag
             /\ (\A i \in DOMAIN h : h[i].res # "refused") => Share(p, c.tag) = 1
             /\ c.tag # "cleanup"
  <2>1. b \in 1..n /\ \A j \in 1..b - 1 : h[j].res = "ok"
    BY <1>1, <1>2, <1>6 DEF FirstBroken
  <2>2. ASSUME NEW i \in 1..n PROVE h[i].tag # c.tag
    <3>1. CASE i <= b
      <4>1. \A j \in 1..i - 1 : h[j].res = "ok"
        BY <2>1, <3>1
      <4>2. i \in 1..3 /\ h[i].tag = SagaForward[i]
        BY <1>3, <4>1
      <4> QED
        BY <1>6, <4>2, SagaTags
    <3>2. CASE i > b
      <4>1. 2 * b - i \in 1..2 /\ h[i].tag = SagaUndo[2 * b - i]
        BY <1>1, <1>2, <1>6, <3>2 DEF SagaHeard
      <4>2. 2 * b - i # 2 * b - (n + 1)
        OBVIOUS
      <4> QED
        BY <1>6, <4>1, <4>2, SagaTags
    <3> QED
      BY <3>1, <3>2
  <2>3. ASSUME \A i \in DOMAIN h : h[i].res # "refused" PROVE c.tag \in SagaRequests(p.failAt)
    <3>1. SagaForward[b] = p.failAt
      <4>1. h[b].res # "ok" /\ h[b].res # "refused"
        BY <1>1, <1>2, <1>6, <2>1, <2>3 DEF FirstBroken
      <4> QED
        BY <1>1, <1>2, <2>1, <4>1 DEF SagaHeard
    <3>2. 2 * b - (n + 1) <= b - 1
      BY <2>1
    <3>3. b = 2 => p.failAt = "Deposit" /\ c.tag = "WithdrawCompensation"
      <4>1. b = 2 => 2 * b - (n + 1) = 1
        BY <1>6, <3>2
      <4> QED
        BY <1>6, <3>1, <4>1 DEF SagaForward, SagaUndo
    <3>4. b = 3 => p.failAt = "Notify" /\ c.tag \in {"WithdrawCompensation", "DepositCompensation"}
      <4>1. 2 * b - (n + 1) = 1 \/ 2 * b - (n + 1) = 2
        BY <1>6
      <4> QED
        BY <1>6, <3>1, <4>1 DEF SagaForward, SagaUndo
    <3>5. b = 2 \/ b = 3
      BY <1>6, <3>2
    <3>6. ToSet(SagaUndo) = {"WithdrawCompensation", "DepositCompensation"}
      BY DEF SagaUndo, ToSet
    <3> QED
      BY <3>3, <3>4, <3>5, <3>6, SagaRequestsAre
  <2>4. c.tag # "work" /\ c.tag # "cleanup"
    BY <1>6, SagaTags
  <2> QED
    BY <1>1, <1>2, <1>4, <2>2, <2>3, <2>4
<1> QED
  BY <1>2, <1>5, <1>6 DEF SagaNext

-----------------------------------------------------------------------------
(* What a run asks for, after what it has recorded.                        *)

\* There is one defer, and it is drained once.
LEMMA DrainsOnce ==
    ASSUME GuestsAreThePorts, Guests, NEW r \in RunIds, runs[r].status # "absent",
           Consistent(r), Asks(r).op = "deferred"
    PROVE  Heard(runs[r].hist) = runs[r].hist /\ runs[r].prog.w \in DeferGuests /\ Asks(r).tag = "cleanup"
<1> DEFINE h == runs[r].hist
           U == Undrained(h)
<1>1. IsSeq(h) /\ Reasonable(r)
  BY DEF Guests, Table, IsRow
<1>2. /\ Len(h) \in Nat /\ DOMAIN h = 1..Len(h) /\ Len(Heard(h)) \in Nat /\ Len(Heard(h)) <= Len(h)
      /\ Len(Heard(h)) < Len(h) => h[Len(Heard(h)) + 1].op = "deferred"
      /\ \A i \in 1..Len(Heard(h)) : h[i].op # "deferred"
      /\ Heard(h) = h <=> \A i \in 1..Len(h) : h[i].op # "deferred"
  BY <1>1, HeardIsPrefix
<1>3. Intends(r).op # "deferred" /\ (Asks(r) = Intends(r) \/ Drains(r))
  BY AsksOrDrains DEF Speaks
<1>4. Asks(r) = IF Ended(Intends(r)) /\ U # {} THEN [op |-> "deferred", tag |-> h[Max(U)].tag]
                                               ELSE Intends(r)
  BY DEF GuestsAreThePorts, Asks, HostCall, Intends
<1>5. U # {}
  BY <1>3, <1>4
<1> DEFINE table == {i \in DOMAIN h : h[i].op = "defer"}
<1>6. \A i \in table : i = 2
  BY DEF Consistent, Followed
<1>7. PICK i \in table : Cardinality({j \in table : j > i}) >= Len(h) - Len(Heard(h))
  BY <1>5 DEF Undrained
<1>8. {j \in table : j > i} = {}
  BY <1>6
<1>9. Len(Heard(h)) = Len(h)
  <2>1. Cardinality({j \in table : j > i}) = 0
    BY <1>8, FS_EmptySet
  <2> HIDE DEF table
  <2>2. 0 >= Len(h) - Len(Heard(h))
    BY <1>7, <2>1
  <2> QED
    BY <1>2, <2>2
<1> QED
  BY <1>2, <1>3, <1>9 DEF Drains

AsksWell(r) ==
    LET c == Asks(r)
        p == runs[r].prog
        h == runs[r].hist
    IN /\ c.op \in Requesting => ~Told(r, c.tag)
       /\ c.op \in {"send", "deferred"} => Share(p, c.tag) >= 1
       /\ c.op = "call" =>
             /\ c.permanent \in BOOLEAN /\ c.tries \in Nat \ {0} /\ c.fails \in Nat
             /\ ~Refused(r) => /\ Share(p, c.tag) >= 1
                               /\ \A k \in Nat : k <= c.tries /\ k <= c.fails + 1 => k <= Share(p, c.tag)
       /\ c.op \in {"call", "send"} => c.tag # "cleanup"
       /\ c.op \in {"call", "send"} /\ p.w # "saga" => Len(h) + 1 = Place(p, c.tag)
       /\ c.op = "defer" => Len(h) + 1 = 2
       /\ c.op \in {"spawn", "detach"} =>
             /\ p.w \notin Continuing
             /\ \/ Len(h) = 0 /\ p.w # "cancelchild"
                \/ /\ p.w = "cancelchild" /\ Len(h) \in Nat \ {0} /\ h[Len(h)].res = "cancelled"
                   /\ \A j \in 1..Len(h) - 1 : h[j].res # "cancelled"
                \/ \A t : Legacy(p, t) = 0
       /\ c.op \in {"spawn", "detach", "continue"} => \A t : Worth(c.prog, t) <= Legacy(p, t)
       /\ c.op = "continue" => p.w \in Continuing
       /\ p.w = "saga" => SagaNext(p, h, c)

LEMMA RunsAskWell ==
    ASSUME GuestsAreThePorts, Guests, NEW r \in RunIds, runs[r].status # "absent", Consistent(r)
    PROVE  AsksWell(r)
<1> DEFINE c == Asks(r)
           p == runs[r].prog
           h == runs[r].hist
<1>1. IsSeq(h) /\ Reasonable(r) /\ IsInput(p)
  BY DEF Guests, Table, IsRow, Reasonable
<1>2. Len(h) \in Nat /\ DOMAIN h = 1..Len(h)
  BY <1>1, HeardIsPrefix
<1>3. c = Intends(r) \/ c.op = "deferred"
  BY AsksOrDrains DEF Drains
<1>4. \A i \in DOMAIN h : /\ h[i].op \in {"call", "send"} => h[i].tag # "cleanup"
                          /\ h[i].op \in {"call", "send"} /\ p.w # "saga" => i = Place(p, h[i].tag)
  BY DEF Consistent, Followed
<1>5. CASE c.op = "deferred"
  <2>1. Heard(h) = h /\ p.w \in DeferGuests /\ c.tag = "cleanup"
    BY <1>5, DrainsOnce
  <2>2. \A i \in DOMAIN h : h[i].op # "deferred"
    BY <1>1, <1>2, <2>1, HeardIsPrefix
  <2>3. ~Told(r, c.tag)
    BY <1>4, <2>1, <2>2 DEF Told, Requesting
  <2>4. Share(p, c.tag) = 1
    BY <2>1 DEF Share, OnceTags, DeferGuests
  <2>5. p.w # "saga"
    BY <2>1 DEF DeferGuests
  <2> QED
    BY <1>5, <2>3, <2>4, <2>5 DEF AsksWell
<1>6. CASE c = Intends(r) /\ c.op \in {"return", "fail"}
  BY <1>6 DEF AsksWell, Requesting, SagaNext
<1>7. CASE c = Intends(r) /\ c.op \notin {"return", "fail", "deferred"}
  <2>1. Heard(h) = h /\ c = Body(p, h)
    BY <1>1, <1>7 DEF Reasonable, Ended, Intends
  <2>2. \A i \in DOMAIN h : h[i].op # "deferred"
    BY <1>1, <1>2, <2>1, HeardIsPrefix
  <2>3. CASE p.w = "saga"
    <3>1. SagaHeard(p, h) /\ c = Saga(p, h)
      BY <2>1, <2>3 DEF Consistent, Body
    <3>2. SagaNext(p, h, c)
      BY <1>1, <2>3, <3>1, SagaAsks
    <3>3. /\ c.op = "call" /\ c.tries = 1 /\ c.fails = 0 /\ c.permanent \in BOOLEAN
      BY <1>7, <3>2 DEF SagaNext
    <3>4. /\ \A i \in DOMAIN h : h[i].tag # c.tag
          /\ ~Refused(r) => Share(p, c.tag) = 1
          /\ c.tag # "cleanup"
      BY <1>1, <2>3, <3>1, <3>2, <3>3, SagaFits DEF Refused
    <3>5. ~Told(r, c.tag)
      BY <3>4 DEF Told
    <3>6. \A k \in Nat : k <= 1 /\ k <= 0 + 1 => k <= 1
      OBVIOUS
    <3>7. ~Refused(r) => /\ Share(p, c.tag) >= 1
                         /\ \A k \in Nat : k <= c.tries /\ k <= c.fails + 1 => k <= Share(p, c.tag)
      BY <3>3, <3>4, <3>6
    <3>8. c.tries \in Nat \ {0} /\ c.fails \in Nat
      BY <3>3
    <3> HIDE DEF c, p, h
    <3> QED
      BY <2>3, <3>2, <3>3, <3>4, <3>5, <3>7, <3>8 DEF AsksWell, c, p, h
  <2>4. CASE p.w # "saga"
    <3>1. Fits(p, Len(h) + 1, c)
      BY <1>1, <2>1, <2>4, BodyFits
    <3>2. c.op \in {"call", "send"} => c.tag # "cleanup"
      BY <1>7, AsksOrDrains DEF Speaks
    <3>3. c.op \in {"call", "send"} => ~Told(r, c.tag)
      <4>1. Len(h) + 1 \notin DOMAIN h
        BY <1>2
      <4> QED
        BY <1>4, <2>2, <2>4, <3>1, <4>1 DEF Fits, Told, Requesting
    <3>4. c.op \in {"spawn", "detach"} =>
             /\ p.w \notin Continuing
             /\ \/ Len(h) = 0 /\ p.w # "cancelchild"
                \/ /\ p.w = "cancelchild" /\ Len(h) \in Nat \ {0} /\ h[Len(h)].res = "cancelled"
                   /\ \A j \in 1..Len(h) - 1 : h[j].res # "cancelled"
                \/ \A t : Legacy(p, t) = 0
      <4>1. ASSUME p.w = "cancelchild", c.op \in {"spawn", "detach"}
            PROVE  /\ Len(h) \in Nat \ {0} /\ h[Len(h)].res = "cancelled"
                   /\ \A j \in 1..Len(h) - 1 : h[j].res # "cancelled"
        <5>1. c = CancelChild(p, h)
          BY <2>1, <4>1 DEF Body
        <5> QED
          BY <1>1, <4>1, <5>1, CancelChildStarts
      <4>2. Len(h) + 1 = 1 => Len(h) = 0
        BY <1>2
      <4> QED
        BY <3>1, <4>1, <4>2 DEF Fits
    <3>5. c.op = "call" => /\ c.permanent \in BOOLEAN /\ c.tries \in Nat \ {0} /\ c.fails \in Nat
                           /\ Share(p, c.tag) >= 1
                           /\ \A k \in Nat : k <= c.tries /\ k <= c.fails + 1 => k <= Share(p, c.tag)
      BY <2>4, <3>1 DEF Fits
    <3>6. /\ c.op = "send" => Share(p, c.tag) >= 1
          /\ c.op \in {"call", "send"} => Len(h) + 1 = Place(p, c.tag)
          /\ c.op = "defer" => Len(h) + 1 = 2
          /\ c.op \in {"spawn", "detach", "continue"} => \A t : Worth(c.prog, t) <= Legacy(p, t)
      BY <2>4, <3>1 DEF Fits
    <3>7. c.op # "deferred" /\ (c.op \in Requesting => c.op \in {"call", "send"})
      BY <1>7 DEF Requesting
    <3>8. c.op = "continue" => p.w \in Continuing
      BY <1>7, AsksOrDrains DEF Speaks, Continuing
    <3> HIDE DEF c, p, h
    <3> QED
      BY <2>4, <3>2, <3>3, <3>4, <3>5, <3>6, <3>7, <3>8 DEF AsksWell, c, p, h
  <2> QED
    BY <2>3, <2>4
<1> QED
  BY <1>3, <1>5, <1>6, <1>7

LEMMA HistoriesGrow ==
    ASSUME Guests, Next, NEW r \in RunIds, runs[r].status # "absent"
    PROVE  /\ runs'[r].status # "absent" /\ runs'[r].prog = runs[r].prog
           /\ runs[r].cancel => runs'[r].cancel
           /\ \/ runs'[r].hist = runs[r].hist
              \/ Spoke(r) /\ runs'[r].cancel = runs[r].cancel
<1>1. runs'[r] = runs[r] \/ Went(r)
  BY EngineRows, NewIdIsAbsent DEF Guests, Evolves, Born
<1>2. CASE Went(r)
  <2>1. CASE Spoke(r)
    BY <1>2, <2>1 DEF Went, Spoke, Keeps
  <2>2. CASE ~Spoke(r)
    BY <1>2, <2>2 DEF Went, Returned, Continued, Swept, Warned, Moved, Keeps, Ongoing, FinalStatus
  <2> QED
    BY <2>1, <2>2
<1> QED
  BY <1>1, <1>2

LEMMA SpokeConsistently ==
    ASSUME GuestsAreThePorts, Guests, Hands, NEW r \in RunIds, runs[r].status # "absent",
           Works(r), Spoke(r), runs'[r].prog = runs[r].prog, runs'[r].cancel = runs[r].cancel
    PROVE  Consistent(r)' /\ (Refused(r)' => runs'[r].cancel)
<1> DEFINE c == Asks(r)
           p == runs[r].prog
           h == runs[r].hist
<1>1. PICK e : Recorded(r, c, e) /\ runs'[r].hist = Append(h, e)
  BY DEF Spoke
<1>2. PICK t : t = Append(h, e)
  OBVIOUS
<1>3. /\ Len(h) \in Nat /\ DOMAIN h = 1..Len(h) /\ DOMAIN t = 1..Len(h) + 1
      /\ \A i \in 1..Len(h) : t[i] = h[i]
      /\ t[Len(h) + 1] = e
  BY <1>2, Grows DEF Guests, Table, IsRow
<1>4. PICK n \in Nat : n = Len(h)
  BY <1>3
<1>5. AsksWell(r) /\ Consistent(r) /\ Replied(r)
  BY RunsAskWell DEF Works
<1>6. c.op \in EngineOps /\ e.op = c.op
  BY <1>1 DEF Spoke, Recorded
<1>7. Followed(p, t)
  <2> SUFFICES ASSUME NEW i \in 1..n + 1
               PROVE  /\ t[i].op \in {"call", "send"} => t[i].tag # "cleanup"
                      /\ t[i].op \in {"call", "send"} /\ p.w # "saga" => i = Place(p, t[i].tag)
                      /\ t[i].op = "defer" => i = 2
                      /\ t[i].op \in {"spawn", "detach"} =>
                            /\ p.w \notin Continuing
                            /\ \/ i = 1 /\ p.w # "cancelchild"
                               \/ p.w = "cancelchild" /\ \E j \in 1..i - 1 : t[j].res = "cancelled"
                               \/ \A x : Legacy(p, x) = 0
    BY <1>3, <1>4 DEF Followed
  <2>1. CASE i \in 1..n
    <3>1. t[i] = h[i] /\ \A j \in 1..i - 1 : t[j] = h[j]
      BY <1>3, <1>4, <2>1
    <3>2. Followed(p, h) /\ i \in DOMAIN h
      BY <1>3, <1>4, <1>5, <2>1 DEF Consistent
    <3> QED
      BY <3>1, <3>2 DEF Followed
  <2>2. CASE i = n + 1
    <3>1. t[i] = e /\ (c.op \in {"call", "send"} => e.tag = c.tag)
      BY <1>1, <1>3, <1>4, <2>2 DEF Recorded
    <3>2. \A j \in 1..n : t[j] = h[j]
      BY <1>3, <1>4
    <3>3. n # 0 => n \in 1..i - 1 /\ n \in 1..n
      BY <2>2
    <3>4. ASSUME c.op \in {"spawn", "detach"}
          PROVE  /\ p.w \notin Continuing
                 /\ \/ i = 1 /\ p.w # "cancelchild"
                    \/ p.w = "cancelchild" /\ \E j \in 1..i - 1 : t[j].res = "cancelled"
                    \/ \A x : Legacy(p, x) = 0
      BY <1>4, <1>5, <2>2, <3>2, <3>3, <3>4 DEF AsksWell
    <3> QED
      BY <1>4, <1>5, <1>6, <2>2, <3>1, <3>4 DEF AsksWell
  <2> QED
    BY <2>1, <2>2
<1>8. ASSUME p.w = "saga" PROVE SagaHeard(p, t)
  <2>1. SagaHeard(p, h) /\ SagaNext(p, h, c)
    BY <1>5, <1>8 DEF Consistent, AsksWell
  <2>2. /\ c.op = "call" /\ c.tries = 1 /\ c.fails = 0 /\ c.permanent \in BOOLEAN
        /\ \/ /\ \A j \in DOMAIN h : h[j].res = "ok"
              /\ n + 1 \in 1..3 /\ c.tag = SagaForward[n + 1]
              /\ c.permanent <=> SagaForward[n + 1] = p.failAt
           \/ \E b \in 1..3 : /\ FirstBroken(h, b)
                              /\ 2 * b - (n + 1) \in 1..2
                              /\ c.tag = SagaUndo[2 * b - (n + 1)]
    BY <1>4, <1>6, <2>1 DEF SagaNext, EngineOps
  <2>3. /\ e.tag = c.tag
        /\ e.res = "ok" => ~c.permanent
        /\ e.res \notin {"ok", "refused"} => c.permanent
    <3>1. e.tag = c.tag /\ e.res = exec[r].got /\ exec[r].got # "none"
      BY <1>1, <2>2 DEF Recorded
    <3>2. /\ exec[r].got = "ok" => ~c.permanent
          /\ exec[r].got = "error" => c.permanent
          /\ exec[r].got # "exhausted"
      BY <1>5, <2>2 DEF Replied
    <3>3. e.res \in {"ok", "error", "exhausted", "refused"}
      BY <3>1 DEF Hands
    <3> QED
      BY <3>1, <3>2, <3>3
  <2>4. ASSUME NEW i \in 1..n + 1, \A j \in 1..i - 1 : t[j].res = "ok"
        PROVE  /\ i \in 1..3
               /\ t[i].tag = SagaForward[i]
               /\ t[i].res = "ok" => SagaForward[i] # p.failAt
               /\ t[i].res \notin {"ok", "refused"} => SagaForward[i] = p.failAt
    <3>1. CASE i \in 1..n
      <4>1. t[i] = h[i] /\ \A j \in 1..i - 1 : h[j].res = "ok"
        BY <1>3, <1>4, <2>4, <3>1
      <4> QED
        BY <1>3, <1>4, <2>1, <3>1, <4>1 DEF SagaHeard
    <3>2. CASE i = n + 1
      <4>1. t[i] = e /\ \A j \in 1..n : h[j].res = "ok"
        BY <1>3, <1>4, <2>4, <3>2
      <4>2. \A b : ~FirstBroken(h, b)
        BY <1>3, <1>4, <4>1 DEF FirstBroken
      <4> QED
        BY <2>2, <2>3, <3>2, <4>1, <4>2
    <3> QED
      BY <3>1, <3>2
  <2>5. ASSUME NEW b \in 1..3, FirstBroken(t, b), NEW i \in 1..n + 1, i > b
        PROVE  2 * b - i \in 1..2 /\ t[i].tag = SagaUndo[2 * b - i]
    <3>1. b \in 1..n /\ FirstBroken(h, b)
      <4>1. b \in 1..n
        BY <1>3, <1>4, <2>5 DEF FirstBroken
      <4>2. h[b] = t[b] /\ \A j \in 1..b - 1 : h[j] = t[j]
        BY <1>3, <1>4, <4>1
      <4> QED
        BY <1>3, <1>4, <2>5, <4>1, <4>2 DEF FirstBroken
    <3>2. CASE i \in 1..n
      <4>1. t[i] = h[i] /\ i \in DOMAIN h
        BY <1>3, <1>4, <3>2
      <4> QED
        BY <2>1, <2>5, <3>1, <4>1 DEF SagaHeard
    <3>3. CASE i = n + 1
      <4>1. t[i] = e
        BY <1>3, <1>4, <3>3
      <4>2. PICK k \in 1..3 : /\ FirstBroken(h, k)
                              /\ 2 * k - (n + 1) \in 1..2
                              /\ c.tag = SagaUndo[2 * k - (n + 1)]
        BY <2>2, <3>1 DEF FirstBroken
      <4>3. k = b
        <5>1. ~(k < b) /\ ~(b < k)
          BY <3>1, <4>2 DEF FirstBroken
        <5> QED
          BY <5>1
      <4> QED
        BY <2>3, <3>3, <4>1, <4>2, <4>3
    <3> QED
      BY <3>2, <3>3
  <2> QED
    BY <1>3, <1>4, <2>4, <2>5 DEF SagaHeard
<1>9. ASSUME Refused(r)' PROVE runs'[r].cancel
  <2>1. PICK i \in 1..n + 1 : t[i].res = "refused"
    BY <1>1, <1>2, <1>3, <1>4, <1>9 DEF Refused
  <2>2. CASE i \in 1..n
    BY <1>3, <1>4, <2>1, <2>2 DEF Works, Refused
  <2>3. CASE i = n + 1
    <3>1. e.res = "refused"
      BY <1>3, <1>4, <2>1, <2>3
    <3>2. c.op = "call" /\ exec[r].got = "refused"
      BY <1>1, <3>1 DEF Recorded
    <3> QED
      BY <1>5, <3>2 DEF Replied
  <2> QED
    BY <2>1, <2>2, <2>3
<1> QED
  BY <1>1, <1>2, <1>7, <1>8, <1>9 DEF Consistent

LEMMA ReceiptsGrow == ASSUME Sane, Next, NEW t PROVE Received(t) \in Nat /\ Received(t)' \in Nat /\ Received(t) <= Received(t)'
<1>1. Received(t) \in Nat /\ (Received(t)' = Received(t) \/ Received(t)' = Received(t) + 1)
  BY LogGrows DEF Sane
<1> QED
  BY <1>1

LEMMA ReplyIsRight ==
    ASSUME Sane, Next, NEW r \in RunIds, Executing(r), MakeCall(r, Asks(r)),
           Works(r), AsksWell(r), (runs[r].cancel => runs'[r].cancel)
    PROVE  Replied(r)'
<1>0. PICK c, n, m : c = Asks(r) /\ n = exec[r].spent /\ m = Received(c.tag)
  OBVIOUS
<1>1. /\ c.op = "call" /\ exec[r].got = "none" /\ ~runs[r].cancel /\ runs' = runs
      /\ exec'[r].spent = n + 1
      /\ exec'[r].got = Reply(c, m + 1, n)
  BY <1>0 DEF MakeCall, Sane, Hands
<1>2. n \in Nat /\ m \in Nat /\ Received(c.tag)' = m + 1
  <2>1. n \in Nat /\ IsSeq(log)
    BY <1>0 DEF Sane, Hands
  <2>2. log' = Append(log, c.tag)
    BY <1>0 DEF MakeCall
  <2>3. Count(log', c.tag) = Count(log, c.tag) + 1 /\ Count(log, c.tag) \in Nat
    BY <2>1, <2>2, CountGrows
  <2> QED
    BY <1>0, <2>1, <2>3 DEF Received
<1>3. /\ c.permanent \in BOOLEAN /\ c.tries \in Nat \ {0} /\ c.fails \in Nat
  BY <1>0, <1>1 DEF AsksWell
<1>4. ~Refused(r)
  BY <1>1 DEF Works
<1>5. Asks(r)' = c /\ (Refused(r)' <=> Refused(r))
  BY <1>0, <1>1 DEF Asks, Refused
<1>6. /\ n > 0 => n <= m
      /\ n > 0 => n <= c.tries /\ n <= c.fails + 1 /\ (c.permanent => n <= 1)
      /\ n > 0 => ~c.permanent /\ n < c.tries /\ n <= c.fails
  BY <1>0, <1>1 DEF Works, Replied
<1>7. n + 1 <= m + 1 /\ n + 1 <= c.tries /\ n + 1 <= c.fails + 1
  BY <1>2, <1>3, <1>6
<1>8. c.permanent => n + 1 <= 1
  BY <1>2, <1>6
<1>9. PICK g : g = Reply(c, m + 1, n)
  OBVIOUS
<1>10. g = IF c.permanent THEN "error"
           ELSE IF m + 1 > c.fails THEN "ok"
           ELSE IF n + 1 < c.tries THEN "none" ELSE "exhausted"
  BY <1>9 DEF Reply
<1>11. /\ g = "none" => ~c.permanent /\ n + 1 < c.tries /\ n + 1 <= c.fails
       /\ g = "ok" => ~c.permanent
       /\ g = "error" => c.permanent
       /\ g = "exhausted" => ~c.permanent /\ c.fails >= 1
       /\ g # "refused"
  <2>1. CASE c.permanent
    BY <1>10, <2>1
  <2>2. CASE ~c.permanent
    BY <1>2, <1>3, <1>7, <1>10, <2>2
  <2> QED
    BY <2>1, <2>2
<1>12. PICK x : x = exec'[r]
  OBVIOUS
<1>13. x.spent = n + 1 /\ x.got = g
  BY <1>1, <1>9, <1>12
<1>14. /\ x.spent <= Received(c.tag)' /\ ~Refused(r)'
       /\ x.spent <= c.tries /\ x.spent <= c.fails + 1 /\ (c.permanent => x.spent <= 1)
       /\ x.got = "none" => ~c.permanent /\ x.spent < c.tries /\ x.spent <= c.fails
       /\ x.got = "ok" => ~c.permanent
       /\ x.got = "error" => c.permanent
       /\ x.got = "exhausted" => ~c.permanent /\ c.fails >= 1
       /\ x.got # "refused"
  BY <1>2, <1>4, <1>5, <1>7, <1>8, <1>11, <1>13
<1> QED
  BY <1>5, <1>12, <1>14 DEF Replied

LEMMA WorkingStep ==
    ASSUME GuestsAreThePorts, Sane, Spends, Working, Next PROVE Working'
<1> SUFFICES ASSUME NEW r \in RunIds, runs'[r].status # "absent" PROVE Works(r)'
  BY DEF Working
<1>1. /\ Table /\ Hands /\ Guests /\ \A t : Received(t) \in Nat /\ Received(t)' \in Nat /\ Received(t) <= Received(t)'
  BY ReceiptsGrow DEF Sane, Guests
<1>2. ASSUME exec'[r].spent = 0, exec'[r].got = "none" PROVE Replied(r)'
  <2>1. PICK x, y : x = exec'[r] /\ y = Asks(r)'
    OBVIOUS
  <2>2. Replied(r)' <=>
           (y.op = "call" =>
              /\ x.spent > 0 => x.spent <= Received(y.tag)' /\ ~Refused(r)'
              /\ x.spent > 0 => x.spent <= y.tries /\ x.spent <= y.fails + 1 /\ (y.permanent => x.spent <= 1)
              /\ x.spent > 0 /\ x.got = "none" => ~y.permanent /\ x.spent < y.tries /\ x.spent <= y.fails
              /\ x.got = "ok" => ~y.permanent
              /\ x.got = "error" => y.permanent
              /\ x.got = "exhausted" => ~y.permanent /\ y.fails >= 1
              /\ x.got = "refused" => runs'[r].cancel)
    BY <2>1 DEF Replied
  <2>3. x.spent = 0 /\ x.got = "none"
    BY <1>2, <2>1
  <2> QED
    BY <2>2, <2>3
<1>3. CASE runs[r].status = "absent"
  <2>1. Born(r)
    BY <1>1, <1>3, EngineRows DEF Evolves, Went
  <2>2. runs'[r].hist = <<>>
    BY <2>1 DEF Born, BornOf, Fresh, Absent
  <2>3. DOMAIN <<>> = {}
    OBVIOUS
  <2>4. ~Refused(r)' /\ Consistent(r)'
    <3>1. \A h : DOMAIN h = {} => \A p : Followed(p, h) /\ SagaHeard(p, h)
      BY DEF Followed, SagaHeard, FirstBroken
    <3>2. ~Refused(r)'
      BY <2>2, <2>3 DEF Refused
    <3> QED
      BY <2>2, <2>3, <3>1, <3>2 DEF Consistent
  <2>5. exec'[r].spent = 0 /\ exec'[r].got = "none"
    <3>1. ~Executing(r)
      BY <1>1, <1>3 DEF Hands
    <3> QED
      BY <1>1, <3>1, EngineSegment
  <2> QED
    BY <1>2, <2>4, <2>5 DEF Works
<1>4. CASE runs[r].status # "absent"
  <2>1. Works(r) /\ AsksWell(r)
    BY <1>1, <1>4, RunsAskWell DEF Working, Works
  <2>2. /\ runs'[r].prog = runs[r].prog /\ (runs[r].cancel => runs'[r].cancel)
        /\ \/ runs'[r].hist = runs[r].hist
           \/ Spoke(r) /\ runs'[r].cancel = runs[r].cancel
    BY <1>1, <1>4, HistoriesGrow
  <2>3. Consistent(r)' /\ (Refused(r)' => runs'[r].cancel)
    <3>1. CASE runs'[r].hist = runs[r].hist
      BY <2>1, <2>2, <3>1 DEF Works, Consistent, Refused
    <3>2. CASE Spoke(r) /\ runs'[r].cancel = runs[r].cancel
      BY <1>1, <1>4, <2>1, <2>2, <3>2, SpokeConsistently
    <3> QED
      BY <2>2, <3>1, <3>2
  <2>4. Replied(r)'
    <3>1. CASE exec'[r] = exec[r] /\ Executing(r) /\ runs'[r].hist = runs[r].hist
      <4>1. Asks(r)' = Asks(r) /\ (Refused(r)' <=> Refused(r)) /\ exec'[r] = exec[r]
        BY <2>2, <3>1 DEF Asks, Refused
      <4>2. PICK n, c : n = exec[r].spent /\ c = Asks(r)
        OBVIOUS
      <4>3. n \in Nat
        BY <1>1, <4>2 DEF Hands
      <4>4. n <= Received(c.tag) => n <= Received(c.tag)'
        BY <1>1, <4>3
      <4> QED
        BY <2>1, <2>2, <4>1, <4>2, <4>4 DEF Works, Replied
    <3>2. CASE Executing(r) /\ MakeCall(r, Asks(r))
      BY <2>1, <2>2, <3>2, ReplyIsRight
    <3>3. CASE Executing(r) /\ RefuseCall(r, Asks(r))
      <4>1. /\ runs' = runs /\ exec'[r].spent = exec[r].spent /\ exec'[r].got = "refused"
            /\ exec[r].got = "none" /\ runs[r].cancel /\ log' = log
        BY <1>1, <3>3 DEF RefuseCall, Hands
      <4>2. Asks(r)' = Asks(r) /\ (Refused(r)' <=> Refused(r)) /\ \A t : Received(t)' = Received(t)
        BY <4>1 DEF Asks, Refused, Received
      <4> QED
        BY <2>1, <4>1, <4>2 DEF Works, Replied
    <3>4. CASE exec'[r].spent = 0 /\ exec'[r].got = "none"
      BY <1>2, <3>4
    <3> QED
      BY <1>1, <3>1, <3>2, <3>3, <3>4, EngineSegment
  <2> QED
    BY <2>3, <2>4 DEF Works
<1> QED
  BY <1>3, <1>4

-----------------------------------------------------------------------------
(* Adding up over the runs.                                                *)

Total(f) == Cardinality(Pairs(f))

LEMMA RunsAreBounded == \E n \in Nat : \A r \in RunIds : r \in Nat /\ r <= n
<1>1. RunIds \in SUBSET Nat /\ IsFiniteSet(RunIds)
  BY RunIdsAreNumbers
<1>2. CASE RunIds = {}
  BY <1>2
<1>3. CASE RunIds # {}
  BY <1>1, <1>3, GreatestOfFinite
<1> QED
  BY <1>2, <1>3

LEMMA UpToIsFinite == ASSUME NEW n \in Nat PROVE IsFiniteSet(1..n) /\ Cardinality(1..n) = n
BY FS_Interval

LEMMA PairsAreFinite ==
    ASSUME NEW f \in [RunIds -> Nat] PROVE IsFiniteSet(Pairs(f)) /\ Total(f) \in Nat
<1> DEFINE S(r) == {r} \X (1..f[r])
           F    == {S(r) : r \in RunIds}
<1>1. Pairs(f) = UNION F
  <2>1. ASSUME NEW x \in Pairs(f) PROVE x \in S(x[1])
    BY DEF Pairs
  <2>2. ASSUME NEW r \in RunIds, NEW x \in S(r) PROVE x \in Pairs(f)
    BY DEF Pairs
  <2>3. \A x \in Pairs(f) : x[1] \in RunIds
    BY DEF Pairs
  <2> HIDE DEF S
  <2> QED
    BY <2>1, <2>2, <2>3
<1>2. ASSUME NEW r \in RunIds PROVE IsFiniteSet(S(r))
  BY FS_Singleton, FS_Product, UpToIsFinite
<1>3. IsFiniteSet(F)
  <2> DEFINE g == [r \in RunIds |-> S(r)]
  <2>1. F = {g[r] : r \in RunIds} /\ g = [r \in RunIds |-> g[r]]
    OBVIOUS
  <2> HIDE DEF g, F
  <2> QED
    BY <2>1, RunIdsAreNumbers, ImageIsFinite
<1>4. \A T \in F : IsFiniteSet(T)
  BY <1>2
<1> HIDE DEF F
<1>5. IsFiniteSet(Pairs(f))
  BY <1>1, <1>3, <1>4, FS_UNION
<1> QED
  BY <1>5, FS_CardinalityType DEF Total

LEMMA TotalsGrow ==
    ASSUME NEW f \in [RunIds -> Nat], NEW g \in [RunIds -> Nat], \A r \in RunIds : f[r] <= g[r]
    PROVE  Total(f) <= Total(g)
<1>1. Pairs(f) \subseteq Pairs(g)
  BY DEF Pairs
<1> QED
  BY <1>1, PairsAreFinite, FS_Subset DEF Total

\* One more of one run.
LEMMA TotalsStep ==
    ASSUME NEW f \in [RunIds -> Nat], NEW g \in [RunIds -> Nat], NEW a \in RunIds,
           g[a] >= f[a] + 1, \A r \in RunIds : f[r] <= g[r]
    PROVE  Total(f) + 1 <= Total(g)
<1> DEFINE x == <<a, g[a]>>
<1>1. x \in Pairs(g) /\ x \notin Pairs(f) /\ Pairs(f) \subseteq Pairs(g)
  BY DEF Pairs
<1> HIDE DEF x
<1>2. IsFiniteSet(Pairs(f)) /\ IsFiniteSet(Pairs(g)) /\ Total(f) \in Nat /\ Total(g) \in Nat
  BY PairsAreFinite
<1>3. Cardinality(Pairs(f) \cup {x}) = Cardinality(Pairs(f)) + 1
  BY <1>1, <1>2, FS_AddElement
<1>4. Pairs(f) \cup {x} \subseteq Pairs(g)
  BY <1>1
<1>5. Cardinality(Pairs(f) \cup {x}) <= Cardinality(Pairs(g))
  BY <1>2, <1>4, FS_Subset
<1> QED
  BY <1>2, <1>3, <1>5 DEF Total

\* What the one has, the other takes over.
LEMMA TotalsMove ==
    ASSUME NEW f \in [RunIds -> Nat], NEW g \in [RunIds -> Nat], NEW a \in RunIds, NEW b \in RunIds,
           a # b, f[b] = 0, g[a] + g[b] <= f[a], \A r \in RunIds \ {a, b} : g[r] <= f[r]
    PROVE  Total(g) <= Total(f)
<1> DEFINE shift(x) == IF x[1] = b THEN <<a, g[a] + x[2]>> ELSE x
           F == [x \in Pairs(g) |-> shift(x)]
<1>1. ASSUME NEW x \in Pairs(g) PROVE shift(x) \in Pairs(f)
  <2>1. x[1] \in RunIds /\ x[2] \in Nat /\ 1 <= x[2] /\ x[2] <= g[x[1]] /\ x = <<x[1], x[2]>>
    BY DEF Pairs
  <2>2. CASE x[1] = b
    <3>1. g[a] + x[2] \in Nat /\ 1 <= g[a] + x[2] /\ g[a] + x[2] <= f[a]
      BY <2>1, <2>2
    <3> QED
      BY <2>2, <3>1 DEF Pairs
  <2>3. CASE x[1] = a
    BY <2>1, <2>3 DEF Pairs
  <2>4. CASE x[1] \notin {a, b}
    BY <2>1, <2>4 DEF Pairs
  <2> QED
    BY <2>2, <2>3, <2>4
<1>2. ASSUME NEW x \in Pairs(g), NEW y \in Pairs(g), shift(x) = shift(y) PROVE x = y
  <2>1. /\ x[1] \in RunIds /\ x[2] \in Nat /\ 1 <= x[2] /\ x[2] <= g[x[1]] /\ x = <<x[1], x[2]>>
        /\ y[1] \in RunIds /\ y[2] \in Nat /\ 1 <= y[2] /\ y[2] <= g[y[1]] /\ y = <<y[1], y[2]>>
    BY DEF Pairs
  <2>2. CASE x[1] = b /\ y[1] = b
    <3>1. g[a] + x[2] = g[a] + y[2]
      BY <1>2, <2>2
    <3>2. x[2] = y[2]
      BY <2>1, <3>1
    <3> QED
      BY <2>1, <2>2, <3>2
  <2>3. CASE x[1] # b /\ y[1] # b
    BY <1>2, <2>3
  <2>4. CASE x[1] = b /\ y[1] # b
    <3>1. y[1] = a /\ y[2] = g[a] + x[2]
      BY <1>2, <2>4
    <3> QED
      BY <2>1, <3>1
  <2>5. CASE x[1] # b /\ y[1] = b
    <3>1. x[1] = a /\ x[2] = g[a] + y[2]
      BY <1>2, <2>5
    <3> QED
      BY <2>1, <3>1
  <2> QED
    BY <2>2, <2>3, <2>4, <2>5
<1>3. F \in Injection(Pairs(g), Pairs(f))
  <2> HIDE DEF shift
  <2>1. F \in [Pairs(g) -> Pairs(f)]
    BY <1>1
  <2>2. \A x, y \in Pairs(g) : F[x] = F[y] => x = y
    BY <1>2
  <2> HIDE DEF F
  <2> QED
    BY <2>1, <2>2 DEF Injection, IsInjective
<1> QED
  BY <1>3, PairsAreFinite, FS_Injection DEF Total

\* Some runs of O get up to n more each.
LEMMA TotalsSpread ==
    ASSUME NEW f \in [RunIds -> Nat], NEW g \in [RunIds -> Nat], NEW O \in SUBSET RunIds, NEW n \in Nat,
           \A r \in RunIds \ O : g[r] <= f[r], \A r \in O : g[r] <= f[r] + n
    PROVE  /\ Cardinality(O) \in Nat
           /\ Total(g) <= Total(f) + Cardinality(O) * n
<1> DEFINE P == O \X (1..n)
           F == [x \in P |-> <<x[1], f[x[1]] + x[2]>>]
           T == {F[x] : x \in P}
<1>1. IsFiniteSet(O) /\ IsFiniteSet(1..n) /\ Cardinality(1..n) = n
  BY RunIdsAreNumbers, FS_Subset, UpToIsFinite
<1>2. IsFiniteSet(P) /\ Cardinality(P) = Cardinality(O) * n
  BY <1>1, FS_Product
<1>3. IsFiniteSet(T) /\ Cardinality(T) <= Cardinality(P)
  <2>1. F = [x \in P |-> F[x]]
    OBVIOUS
  <2> HIDE DEF P, F
  <2> QED
    BY <1>2, <2>1, ImageIsFinite
<1>4. Pairs(g) \subseteq Pairs(f) \cup T
  <2> SUFFICES ASSUME NEW x \in Pairs(g), x \notin Pairs(f) PROVE x \in T
    OBVIOUS
  <2>1. x[1] \in RunIds /\ x[2] \in Nat /\ 1 <= x[2] /\ x[2] <= g[x[1]] /\ x = <<x[1], x[2]>>
    BY DEF Pairs
  <2>2. x[2] > f[x[1]]
    BY <2>1 DEF Pairs
  <2>3. x[1] \in O /\ x[2] - f[x[1]] \in 1..n
    BY <2>1, <2>2
  <2>4. <<x[1], x[2] - f[x[1]]>> \in P
    BY <2>3
  <2>5. F[<<x[1], x[2] - f[x[1]]>>] = <<x[1], x[2]>>
    BY <2>1, <2>4
  <2> HIDE DEF P, F
  <2> QED
    BY <2>1, <2>4, <2>5
<1> HIDE DEF T, P
<1>5. IsFiniteSet(Pairs(f)) /\ IsFiniteSet(Pairs(f) \cup T) /\ Total(f) \in Nat /\ Total(g) \in Nat
  BY <1>3, PairsAreFinite, FS_Union
<1>6. Cardinality(Pairs(g)) <= Cardinality(Pairs(f) \cup T)
  BY <1>4, <1>5, FS_Subset
<1>7. Cardinality(Pairs(f) \cup T) <= Cardinality(Pairs(f)) + Cardinality(T)
  <2>1. Cardinality(Pairs(f) \cup T) = Cardinality(Pairs(f)) + Cardinality(T) - Cardinality(Pairs(f) \cap T)
    BY <1>3, PairsAreFinite, FS_Union
  <2>2. Cardinality(Pairs(f) \cap T) \in Nat /\ Cardinality(T) \in Nat /\ Cardinality(Pairs(f)) \in Nat
    <3>1. IsFiniteSet(Pairs(f) \cap T)
      BY <1>3, FS_Subset
    <3> QED
      BY <1>3, <1>5, <3>1, FS_CardinalityType
  <2> QED
    BY <2>1, <2>2
<1>8. Cardinality(O) \in Nat /\ Cardinality(T) \in Nat /\ Cardinality(P) \in Nat
  BY <1>1, <1>2, <1>3, FS_CardinalityType
<1>9. Cardinality(Pairs(f) \cup T) \in Nat
  BY <1>5, FS_CardinalityType
<1> DEFINE k == Cardinality(O) * n
<1>10. k = Cardinality(P)
  BY <1>2
<1> HIDE DEF k
<1>11. Total(g) <= Total(f) + k
  BY <1>3, <1>5, <1>6, <1>7, <1>8, <1>9, <1>10 DEF Total
<1> QED
  BY <1>8, <1>11 DEF k

-----------------------------------------------------------------------------
(* What is in the outbox and among the losses.                             *)

LEMMA TagsAreCounted ==
    ASSUME NEW S, IsFiniteSet(S), NEW t
    PROVE  /\ Tagged(S, t) \in Nat
           /\ \A R \in SUBSET S : IsFiniteSet(R) /\ Tagged(R, t) \in Nat /\ Tagged(R, t) <= Tagged(S, t)
<1> DEFINE of(R) == {x \in R : x.tag = t}
<1>1. ASSUME NEW R \in SUBSET S PROVE /\ IsFiniteSet(R) /\ IsFiniteSet(of(R)) /\ of(R) \subseteq of(S)
                                      /\ Tagged(R, t) = Cardinality(of(R))
  <2>1. of(R) \subseteq S /\ of(R) \subseteq of(S) /\ Tagged(R, t) = Cardinality(of(R))
    BY DEF Tagged
  <2> HIDE DEF of
  <2> QED
    BY <2>1, FS_Subset
<1>2. IsFiniteSet(of(S)) /\ Tagged(S, t) = Cardinality(of(S))
  BY <1>1
<1> HIDE DEF of
<1>3. Tagged(S, t) \in Nat
  BY <1>2, FS_CardinalityType
<1>4. ASSUME NEW R \in SUBSET S
      PROVE  IsFiniteSet(R) /\ Tagged(R, t) \in Nat /\ Tagged(R, t) <= Tagged(S, t)
  BY <1>1, <1>2, <1>4, FS_Subset, FS_CardinalityType
<1> QED
  BY <1>3, <1>4

LEMMA OneMoreTagged ==
    ASSUME NEW S, IsFiniteSet(S), NEW e, NEW t
    PROVE  /\ IsFiniteSet(S \cup {e}) /\ Tagged(S \cup {e}, t) \in Nat
           /\ Tagged(S \cup {e}, t) <= Tagged(S, t) + 1
           /\ e.tag # t => Tagged(S \cup {e}, t) = Tagged(S, t)
           /\ e \notin S /\ e.tag = t => Tagged(S \cup {e}, t) = Tagged(S, t) + 1
<1> DEFINE of(R) == {x \in R : x.tag = t}
<1>1. IsFiniteSet(S \cup {e})
  BY FS_AddElement
<1>2. Tagged(S, t) \in Nat /\ Tagged(S \cup {e}, t) \in Nat
  BY <1>1, TagsAreCounted
<1>3. Tagged(S, t) = Cardinality(of(S)) /\ Tagged(S \cup {e}, t) = Cardinality(of(S \cup {e}))
  BY DEF Tagged
<1>4. of(S \cup {e}) = IF e.tag = t THEN of(S) \cup {e} ELSE of(S)
  OBVIOUS
<1>5. IsFiniteSet(of(S)) /\ (e \notin S => e \notin of(S))
  <2>1. of(S) \subseteq S
    OBVIOUS
  <2> HIDE DEF of
  <2> QED
    BY <2>1, FS_Subset
<1> HIDE DEF of
<1>6. /\ e \notin of(S) => Cardinality(of(S) \cup {e}) = Cardinality(of(S)) + 1
      /\ e \in of(S) => Cardinality(of(S) \cup {e}) = Cardinality(of(S))
  <2>1. e \in of(S) => of(S) \cup {e} = of(S)
    OBVIOUS
  <2> QED
    BY <1>5, <2>1, FS_AddElement
<1> QED
  BY <1>1, <1>2, <1>3, <1>4, <1>5, <1>6

LEMMA OneLessTagged ==
    ASSUME NEW S, IsFiniteSet(S), NEW e \in S, NEW t
    PROVE  /\ IsFiniteSet(S \ {e}) /\ Tagged(S \ {e}, t) \in Nat
           /\ Tagged(S \ {e}, t) = IF e.tag = t THEN Tagged(S, t) - 1 ELSE Tagged(S, t)
<1> DEFINE R == S \ {e}
<1>1. R \in SUBSET S /\ e \notin R /\ R \cup {e} = S
  OBVIOUS
<1> HIDE DEF R
<1>2. IsFiniteSet(R) /\ Tagged(R, t) \in Nat
  BY <1>1, TagsAreCounted
<1>3. /\ e.tag # t => Tagged(R \cup {e}, t) = Tagged(R, t)
      /\ e.tag = t => Tagged(R \cup {e}, t) = Tagged(R, t) + 1
  BY <1>1, <1>2, OneMoreTagged
<1> QED
  BY <1>1, <1>2, <1>3 DEF R

\* What comes and goes between the guests, the outbox and the fixture.
LEMMA Traffic ==
    ASSUME Next, ~\E w \in Workers : Crash(w)
    PROVE  \/ \E r \in RunIds : Executing(r) /\ MakeCall(r, Asks(r))
           \/ \E r \in RunIds : Executing(r) /\ RecordSend(r, Asks(r))
           \/ \E s \in outbox : Dispatch(s)
           \/ UNCHANGED <<log, outbox>>
<1>1. ASSUME NEW r \in RunIds, NEW c, Perform(r, c)
      PROVE  MakeCall(r, c) \/ RecordSend(r, c) \/ UNCHANGED <<log, outbox>>
  BY <1>1 DEF Perform, RefuseCall, RecordCall, RecordLocal, SleepBegins, InsertChild, RecordChild,
              AwaitAnswered, AwaitSuspends, ContinueRun, Finish
<1> QED
  BY <1>1 DEF Next, Progress, Claim, SleepEnds, ChildWakes, FenceLost, Reap, RequestCancel,
              CancelPropagates, Tick

-----------------------------------------------------------------------------
(* Requests are not forgotten but in a crash.                              *)

LEMMA MadeIsCounted == ASSUME Sane, NEW t PROVE MadeBy(t) \in [RunIds -> Nat]
<1>1. ASSUME NEW r \in RunIds PROVE Made(r, t) \in Nat
  <2>1. exec[r].spent \in Nat
    BY DEF Sane, Hands
  <2>2. runs[r].status # "absent" => Share(runs[r].prog, t) \in Nat
    BY SharesAreCounts DEF Sane, Guests, Reasonable
  <2> QED
    BY <2>1, <2>2 DEF Made
<1> QED
  BY <1>1 DEF MadeBy

LEMMA MadeIsCount ==
    ASSUME GuestsAreThePorts, Sane, Next, NEW t
    PROVE  MadeBy(t) \in [RunIds -> Nat] /\ MadeBy(t)' \in [RunIds -> Nat]
<1>1. MadeBy(t) \in [RunIds -> Nat]
  BY MadeIsCounted
<1>2. ASSUME NEW r \in RunIds PROVE Made(r, t)' \in Nat
  <2>0. Sane'
    BY SaneStep
  <2>1. exec'[r].spent \in Nat
    BY <2>0 DEF Sane, Hands
  <2>2. runs'[r].status # "absent" => Share(runs'[r].prog, t) \in Nat
    BY <2>0, SharesAreCounts DEF Sane, Guests, Reasonable
  <2> QED
    BY <2>1, <2>2 DEF Made
<1> QED
  BY <1>1, <1>2 DEF MadeBy

\* A segment begins with a claim.
LEMMA SegmentsBegin ==
    ASSUME Table, Hands, Next, NEW r \in RunIds, ~Executing(r), runs[r].status # "ready"
    PROVE  ~Executing(r)'
<1>1. ASSUME NEW q \in RunIds, Executing(q), Perform(q, Asks(q)) PROVE exec'[r] = exec[r]
  BY <1>1, OthersStay
<1>2. ASSUME NEW q \in RunIds, NEW w \in Workers, Claim(q, w) PROVE exec'[r] = exec[r]
  BY <1>2 DEF Claim, Hands
<1>3. ASSUME NEW q \in RunIds, FenceLost(q) PROVE exec'[r] = exec[r]
  BY <1>3 DEF FenceLost, Hands
<1>4. ASSUME NEW w \in Workers, Crash(w) PROVE exec'[r] = exec[r] \/ exec'[r] = Idle
  BY <1>4 DEF Crash, Killed
<1>5. exec'[r] = exec[r] \/ exec'[r] = Idle
  BY <1>1, <1>2, <1>3, <1>4
     DEF Next, Progress, SleepEnds, ChildWakes, Reap, RequestCancel, CancelPropagates, Dispatch, Tick
<1> QED
  BY <1>5 DEF Executing, Idle

LEMMA SpentFits ==
    ASSUME Sane, NEW r \in RunIds, runs[r].status # "absent", Works(r), AsksWell(r), Asks(r).op = "call"
    PROVE  exec[r].spent <= Share(runs[r].prog, Asks(r).tag)
<1>1. PICK n, c : n = exec[r].spent /\ c = Asks(r)
  OBVIOUS
<1>2. n \in Nat /\ Share(runs[r].prog, c.tag) \in Nat
  BY <1>1, SharesAreCounts DEF Sane, Hands, Guests, Reasonable
<1>3. CASE n = 0
  BY <1>1, <1>2, <1>3
<1>4. CASE n > 0
  <2>1. n <= c.tries /\ n <= c.fails + 1 /\ ~Refused(r)
    BY <1>1, <1>4 DEF Works, Replied
  <2> QED
    BY <1>1, <1>2, <2>1 DEF AsksWell
<1> QED
  BY <1>2, <1>3, <1>4

LEMMA ToldStays ==
    ASSUME Guests, Next, NEW r \in RunIds, runs[r].status # "absent", NEW t, Told(r, t)
    PROVE  Told(r, t)'
<1>1. IsSeq(runs[r].hist)
  BY DEF Guests, Table, IsRow
<1>2. runs'[r].hist = runs[r].hist \/ \E e : runs'[r].hist = Append(runs[r].hist, e)
  BY EngineRecords DEF Guests, Records
<1> QED
  BY <1>1, <1>2, Grows DEF Told

LEMMA Tells ==
    ASSUME Table, NEW r \in RunIds, NEW e, e.op \in Requesting, Record(r, e)
    PROVE  Told(r, e.tag)'
<1>1. IsSeq(runs[r].hist) /\ runs'[r].hist = Append(runs[r].hist, e)
  BY DEF Record, Table, IsRow, Fields
<1> QED
  BY <1>1, Grows DEF Told

LEMMA MadeGrows ==
    ASSUME GuestsAreThePorts, Sane, Spends, Working, Next, NEW r \in RunIds, NEW t
    PROVE  \/ Made(r, t) <= Made(r, t)'
           \/ /\ \E w \in Workers : Crash(w)
              /\ runs[r].status # "absent" /\ Asks(r).op = "call" /\ Asks(r).tag = t
              /\ Made(r, t) = exec[r].spent
<1>0. Made(r, t) \in Nat /\ Made(r, t)' \in Nat
  BY MadeIsCount DEF MadeBy
<1>1. CASE Made(r, t) = 0
  BY <1>0, <1>1
<1>2. CASE runs[r].status # "absent" /\ (Told(r, t) \/ Past(r))
  <2>1. runs'[r].status # "absent" /\ runs'[r].prog = runs[r].prog
    BY <1>2, RunsStay DEF Sane
  <2>2. Told(r, t) => Told(r, t)'
    BY <1>2, ToldStays DEF Sane
  <2>3. Past(r) => Past(r)'
    <3>1. ASSUME Past(r) PROVE runs'[r] = runs[r] /\ ~Executing(r)'
      BY <1>2, <3>1, RunsStay, SegmentsBegin DEF Sane, Guests, Past, Terminal
    <3> QED
      BY <3>1 DEF Past
  <2>4. Made(r, t)' = Made(r, t)
    BY <1>2, <2>1, <2>2, <2>3 DEF Made
  <2> QED
    BY <1>0, <2>4
<1>3. CASE /\ runs[r].status # "absent" /\ ~Told(r, t) /\ ~Past(r)
           /\ Asks(r).op = "call" /\ Asks(r).tag = t /\ exec[r].spent # 0
  <2>0. PICK n, s : n = exec[r].spent /\ s = Share(runs[r].prog, t)
    OBVIOUS
  <2>1. Made(r, t) = n /\ n \in Nat /\ n <= s
    <3>1. AsksWell(r) /\ Works(r)
      BY <1>3, RunsAskWell DEF Sane, Working, Works
    <3> QED
      BY <1>3, <2>0, <3>1, SpentFits DEF Made, Sane, Hands
  <2>2. runs'[r].status # "absent" /\ runs'[r].prog = runs[r].prog
    BY <1>3, RunsStay DEF Sane
  <2>3. Made(r, t)' = s \/ (Made(r, t)' = exec'[r].spent /\ Asks(r)'.op = "call" /\ Asks(r)'.tag = t)
                        \/ (Asks(r)'.op # "call" \/ Asks(r)'.tag # t)
    BY <2>0, <2>2 DEF Made
  <2>4. ASSUME runs'[r].hist = runs[r].hist, exec'[r].spent >= n PROVE Made(r, t) <= Made(r, t)'
    <3>1. Asks(r)' = Asks(r)
      BY <2>2, <2>4 DEF Asks
    <3> QED
      BY <1>3, <2>1, <2>3, <2>4, <3>1
  <2>5. CASE exec'[r] = exec[r] /\ runs'[r].hist = runs[r].hist
    BY <2>0, <2>1, <2>4, <2>5
  <2>6. CASE MakeCall(r, Asks(r)) \/ RefuseCall(r, Asks(r))
    <3>1. runs' = runs /\ exec'[r].spent >= n
      BY <2>0, <2>1, <2>6 DEF MakeCall, RefuseCall, Sane, Hands
    <3> QED
      BY <2>4, <3>1
  <2>7. CASE RecordCall(r, Asks(r))
    <3>1. PICK e : e.op = "call" /\ e.tag = t /\ Record(r, e)
      BY <1>3, <2>7 DEF RecordCall, Answer
    <3>2. Told(r, t)'
      BY <3>1, Tells DEF Sane, Guests, Requesting
    <3>3. Made(r, t)' = s
      BY <2>0, <2>2, <3>2 DEF Made
    <3> QED
      BY <2>1, <3>3
  <2>8. CASE FenceLost(r)
    <3>1. runs' = runs /\ runs[r].status = "terminated" /\ exec'[r] = Idle
      BY <2>8 DEF FenceLost, Sane, Hands
    <3>2. Past(r)'
      BY <3>1 DEF Past, Terminal, Executing, Idle
    <3>3. Made(r, t)' = s
      BY <2>0, <2>2, <3>2 DEF Made
    <3> QED
      BY <2>1, <3>3
  <2>9. CASE \E w \in Workers : Crash(w)
    BY <1>3, <2>0, <2>1, <2>9
  <2> QED
    BY <1>3, <2>5, <2>6, <2>7, <2>8, <2>9, EngineSpends DEF Sane, Guests
<1> QED
  BY <1>1, <1>2, <1>3 DEF Made

\* A request is one more of the run that makes it.
LEMMA CallIsMade ==
    ASSUME GuestsAreThePorts, Sane, Working, NEW r \in RunIds, Executing(r), MakeCall(r, Asks(r)),
           NEW t, t = Asks(r).tag
    PROVE  Made(r, t)' = Made(r, t) + 1
<1>1. t = Asks(r).tag
  OBVIOUS
<1>2. /\ Asks(r).op = "call" /\ runs' = runs
      /\ exec'[r].spent = exec[r].spent + 1 /\ exec'[r].on = exec[r].on
  BY DEF MakeCall, Sane, Hands
<1>3. runs[r].status # "absent"
  BY DEF Sane, Hands
<1>4. ~Told(r, t)
  BY <1>1, <1>2, <1>3, RunsAskWell DEF Sane, Working, Works, AsksWell, Requesting
<1>5. /\ ~Told(r, t)' /\ Asks(r)' = Asks(r) /\ ~Past(r) /\ ~Past(r)'
  BY <1>2, <1>4 DEF Told, Asks, Past, Executing
<1>6. Made(r, t) = exec[r].spent /\ Made(r, t)' = exec'[r].spent
  BY <1>1, <1>2, <1>3, <1>4, <1>5 DEF Made
<1> QED
  BY <1>1, <1>2, <1>6

LEMMA SendIsMade ==
    ASSUME GuestsAreThePorts, Sane, Working, Next, NEW r \in RunIds, Executing(r),
           RecordSend(r, Asks(r)), NEW t, t = Asks(r).tag
    PROVE  /\ Made(r, t)' >= Made(r, t) + 1
           /\ \E e : e.tag = t /\ outbox' = outbox \cup {e}
           /\ log' = log
<1>1. t = Asks(r).tag
  OBVIOUS
<1>2. /\ Asks(r).op \in {"send", "deferred"} /\ runs[r].status # "absent"
  BY DEF RecordSend, Sane, Hands
<1>3. ~Told(r, t) /\ Share(runs[r].prog, t) >= 1
  BY <1>1, <1>2, RunsAskWell DEF Sane, Working, Works, AsksWell, Requesting
<1>4. Made(r, t) = 0
  BY <1>1, <1>2, <1>3 DEF Made, Past
<1>5. PICK e : e.op = Asks(r).op /\ e.tag = t /\ Record(r, e)
  BY <1>1 DEF RecordSend, Answer
<1>6. Told(r, t)'
  BY <1>2, <1>5, Tells DEF Sane, Guests, Requesting
<1>7. runs'[r].status # "absent" /\ runs'[r].prog = runs[r].prog
  BY <1>2, RunsStay DEF Sane
<1>8. Made(r, t)' = Share(runs[r].prog, t)
  BY <1>6, <1>7 DEF Made
<1>9. Made(r, t)' >= Made(r, t) + 1
  <2>1. PICK s : s = Share(runs[r].prog, t)
    OBVIOUS
  <2> QED
    BY <1>3, <1>4, <1>8, <2>1
<1>10. log' = log /\ \E x : x.tag = t /\ outbox' = outbox \cup {x}
  <2> DEFINE x == [run |-> r, at |-> Len(runs[r].hist) + 1, tag |-> Asks(r).tag, on |-> exec[r].on]
  <2>1. log' = log /\ outbox' = outbox \cup {x}
    BY DEF RecordSend
  <2>2. x.tag = t
    BY <1>1
  <2> QED
    BY <2>1, <2>2
<1> QED
  BY <1>1, <1>9, <1>10

LEMMA ReceiptsStep ==
    ASSUME GuestsAreThePorts, Sane, Spends, Losses, Working, ReceiptsAreKnown, Next
    PROVE  ReceiptsAreKnown'
<1> SUFFICES ASSUME NEW t
             PROVE  /\ IsFiniteSet(outbox')
                    /\ Received(t)' + Tagged(outbox', t)
                          <= Cardinality(Pairs(MadeBy(t)')) + Tagged(lost', t)
  BY DEF ReceiptsAreKnown, Tagged, Pairs
<1>1. PICK f, g : f = MadeBy(t) /\ g = MadeBy(t)' /\ f \in [RunIds -> Nat] /\ g \in [RunIds -> Nat]
  BY MadeIsCount
<1>2. \A r \in RunIds : f[r] = Made(r, t) /\ g[r] = Made(r, t)'
  BY <1>1 DEF MadeBy
<1>3. /\ Received(t) \in Nat /\ Received(t)' \in Nat
      /\ IsFiniteSet(outbox) /\ Tagged(outbox, t) \in Nat
      /\ Tagged(lost, t) \in Nat
      /\ Total(f) \in Nat /\ Total(g) \in Nat
  BY <1>1, ReceiptsGrow, TagsAreCounted, PairsAreFinite DEF ReceiptsAreKnown, Losses
<1>4. PICK a, b, k, l : a = Received(t) /\ b = Tagged(outbox, t) /\ k = Total(f) /\ l = Tagged(lost, t)
  OBVIOUS
<1>5. a \in Nat /\ b \in Nat /\ k \in Nat /\ l \in Nat /\ a + b <= k + l
  BY <1>1, <1>3, <1>4 DEF ReceiptsAreKnown, Total
<1>6. ASSUME IsFiniteSet(outbox'), NEW x \in Nat, x = Received(t)', NEW y \in Nat, y = Tagged(outbox', t),
             NEW m \in Nat, m = Total(g), NEW n \in Nat, n = Tagged(lost', t),
             x + y <= m + n
      PROVE  /\ IsFiniteSet(outbox')
             /\ Received(t)' + Tagged(outbox', t) <= Cardinality(Pairs(MadeBy(t)')) + Tagged(lost', t)
  BY <1>1, <1>6 DEF Total
<1>7. CASE ~\E w \in Workers : Crash(w)
  <2>1. Tagged(lost', t) = l
    BY <1>4, <1>7, LossesKept
  <2>2. \A r \in RunIds : f[r] <= g[r]
    BY <1>2, <1>7, MadeGrows
  <2>3. PICK m \in Nat : m = Total(g) /\ k <= m
    BY <1>1, <1>3, <1>4, <2>2, TotalsGrow
  <2>4. ASSUME NEW r \in RunIds, Executing(r), MakeCall(r, Asks(r))
        PROVE  /\ IsFiniteSet(outbox')
               /\ Received(t)' + Tagged(outbox', t) <= Cardinality(Pairs(MadeBy(t)')) + Tagged(lost', t)
    <3>1. outbox' = outbox /\ log' = Append(log, Asks(r).tag)
      BY <2>4 DEF MakeCall
    <3>2. Received(t)' = IF Asks(r).tag = t THEN a + 1 ELSE a
      BY <1>4, <3>1, CountGrows DEF Received, Sane
    <3>3. Asks(r).tag = t => k + 1 <= m
      <4>1. Asks(r).tag = t => g[r] = f[r] + 1
        BY <1>2, <2>4, CallIsMade
      <4> QED
        BY <1>1, <1>4, <2>2, <2>3, <4>1, TotalsStep
    <3> QED
      BY <1>3, <1>4, <1>5, <1>6, <2>1, <2>3, <3>1, <3>2, <3>3
  <2>5. ASSUME NEW r \in RunIds, Executing(r), RecordSend(r, Asks(r))
        PROVE  /\ IsFiniteSet(outbox')
               /\ Received(t)' + Tagged(outbox', t) <= Cardinality(Pairs(MadeBy(t)')) + Tagged(lost', t)
    <3>1. PICK e : e.tag = Asks(r).tag /\ outbox' = outbox \cup {e} /\ log' = log
      BY <2>5, SendIsMade
    <3>2. Received(t)' = a
      BY <1>4, <3>1 DEF Received
    <3>3. /\ IsFiniteSet(outbox') /\ Tagged(outbox', t) \in Nat
          /\ Tagged(outbox', t) <= IF Asks(r).tag = t THEN b + 1 ELSE b
      BY <1>3, <1>4, <3>1, OneMoreTagged
    <3>4. Asks(r).tag = t => k + 1 <= m
      <4>1. Asks(r).tag = t => g[r] >= f[r] + 1
        BY <1>2, <2>5, SendIsMade
      <4> QED
        BY <1>1, <1>4, <2>2, <2>3, <4>1, TotalsStep
    <3> QED
      BY <1>3, <1>4, <1>5, <1>6, <2>1, <2>3, <3>2, <3>3, <3>4
  <2>6. ASSUME NEW s \in outbox, Dispatch(s)
        PROVE  /\ IsFiniteSet(outbox')
               /\ Received(t)' + Tagged(outbox', t) <= Cardinality(Pairs(MadeBy(t)')) + Tagged(lost', t)
    <3>1. outbox' = outbox \ {s} /\ log' = Append(log, s.tag)
      BY <2>6 DEF Dispatch
    <3>2. Received(t)' = IF s.tag = t THEN a + 1 ELSE a
      BY <1>4, <3>1, CountGrows DEF Received, Sane
    <3>3. /\ IsFiniteSet(outbox') /\ Tagged(outbox', t) \in Nat
          /\ Tagged(outbox', t) = IF s.tag = t THEN b - 1 ELSE b
      BY <1>3, <1>4, <3>1, OneLessTagged
    <3> QED
      BY <1>3, <1>4, <1>5, <1>6, <2>1, <2>3, <3>2, <3>3
  <2>7. CASE UNCHANGED <<log, outbox>>
    BY <1>3, <1>4, <1>5, <1>6, <2>1, <2>3, <2>7 DEF Received
  <2> QED
    BY <1>7, <2>4, <2>5, <2>6, <2>7, Traffic
<1>8. ASSUME NEW w \in Workers, Crash(w)
      PROVE  /\ IsFiniteSet(outbox')
             /\ Received(t)' + Tagged(outbox', t) <= Cardinality(Pairs(MadeBy(t)')) + Tagged(lost', t)
  <2> DEFINE D == {x \in Pairs(f) : /\ exec[x[1]].on = w /\ Asks(x[1]).op = "call" /\ Asks(x[1]).tag = t
                                    /\ x[2] <= exec[x[1]].spent}
  <2>1. runs' = runs /\ log' = log /\ outbox' \in SUBSET outbox
        /\ \A r \in RunIds : exec[r].on # w => exec'[r] = exec[r]
    BY <1>8 DEF Crash
  <2>2. D \in SUBSET (RunIds \X Nat) /\ \A x \in D : /\ exec[x[1]].on = w /\ Asks(x[1]).tag = t
                                                     /\ x[2] \in 1..exec[x[1]].spent
    BY DEF Pairs, Sane, Hands
  <2>3. Pairs(f) \subseteq Pairs(g) \cup D
    <3> SUFFICES ASSUME NEW x \in Pairs(f), x \notin Pairs(g) PROVE x \in D
      OBVIOUS
    <3>1. PICK r \in RunIds, n \in Nat : x[1] = r /\ x[2] = n /\ 1 <= n /\ n <= f[r] /\ x \in RunIds \X Nat
      BY DEF Pairs
    <3>2. ~(f[r] <= g[r])
      BY <1>1, <3>1 DEF Pairs
    <3>3. exec[r].on = w
      <4>1. ASSUME exec[r].on # w PROVE g[r] = f[r]
        <5>1. exec'[r] = exec[r] /\ runs' = runs
          BY <2>1, <4>1
        <5>2. Made(r, t)' = Made(r, t)
          BY <5>1 DEF Made, Told, Past, Asks, Executing
        <5> QED
          BY <1>2, <5>2
      <4> QED
        BY <1>1, <3>2, <4>1
    <3>4. Asks(r).op = "call" /\ Asks(r).tag = t /\ f[r] = exec[r].spent
      BY <1>2, <3>2, MadeGrows
    <3> QED
      BY <3>1, <3>3, <3>4
  <2> HIDE DEF D
  <2>4. PICK n, d : n = Tagged(lost', t) /\ d = Cardinality(D)
    OBVIOUS
  <2>5. IsFiniteSet(D) /\ n \in Nat /\ d \in Nat /\ n >= l + d
    BY <1>4, <1>8, <2>2, <2>4, CrashLosesAll, FS_CardinalityType DEF Sane, Guests
  <2>6. PICK m \in Nat : m = Total(g)
    BY <1>3
  <2>7. k <= m + d
    <3>1. IsFiniteSet(Pairs(f)) /\ IsFiniteSet(Pairs(g))
      BY <1>1, PairsAreFinite
    <3>2. IsFiniteSet(Pairs(g) \cup D) /\
          Cardinality(Pairs(g) \cup D) = Cardinality(Pairs(g)) + Cardinality(D) - Cardinality(Pairs(g) \cap D)
      BY <2>5, <3>1, FS_Union
    <3>3. Cardinality(Pairs(g) \cap D) \in Nat
      BY <2>5, <3>1, FS_Intersection, FS_CardinalityType
    <3>4. Cardinality(Pairs(f)) <= Cardinality(Pairs(g) \cup D)
      BY <2>3, <3>2, FS_Subset
    <3>5. PICK i, u : i = Cardinality(Pairs(g) \cap D) /\ u = Cardinality(Pairs(g) \cup D)
      OBVIOUS
    <3>6. u = m + d - i /\ i \in Nat /\ k <= u
      BY <1>4, <2>4, <2>6, <3>2, <3>3, <3>4, <3>5 DEF Total
    <3> QED
      BY <1>5, <2>5, <2>6, <3>6
  <2>8. IsFiniteSet(outbox') /\ Tagged(outbox', t) \in Nat /\ Tagged(outbox', t) <= b
    BY <1>3, <1>4, <2>1, TagsAreCounted
  <2>9. Received(t)' = a
    BY <1>4, <2>1 DEF Received
  <2>10. PICK y \in Nat : y = Tagged(outbox', t) /\ y <= b
    BY <2>8
  <2>11. a + y <= m + n
    BY <1>5, <2>5, <2>7, <2>10
  <2> QED
    BY <1>5, <1>6, <2>4, <2>5, <2>6, <2>8, <2>9, <2>10, <2>11
<1> QED
  BY <1>7, <1>8

-----------------------------------------------------------------------------
(* What the runs may still ask for is handed on, and only a crash adds to  *)
(* it.                                                                     *)

LEMMA TestStays ==
    ASSUME Next
    PROVE  scenario' = scenario /\ ((~\E w \in Workers : Crash(w)) => orphans' = orphans)
<1>1. ASSUME NEW r \in RunIds, NEW c, Perform(r, c) PROVE UNCHANGED <<scenario, orphans>>
  BY <1>1 DEF Perform, MakeCall, RefuseCall, RecordCall, RecordSend, RecordLocal, SleepBegins,
              InsertChild, RecordChild, AwaitAnswered, AwaitSuspends, ContinueRun, Finish
<1>2. ASSUME NEW w \in Workers, Crash(w) PROVE scenario' = scenario
  BY <1>2 DEF Crash
<1> QED
  BY <1>1, <1>2 DEF Next, Progress, Claim, SleepEnds, ChildWakes, FenceLost, Reap, RequestCancel,
                    CancelPropagates, Dispatch, Tick

\* A row is inserted for a child, or for what a run goes on as.
LEMMA RowsAreInserted ==
    ASSUME Table, Hands, Next, NEW n \in RunIds, runs[n].status = "absent", runs'[n].status # "absent"
    PROVE  \E q \in RunIds :
              /\ Executing(q) /\ runs[q].status = "running" /\ n = NewId
              /\ InsertChild(q, Asks(q)) \/ ContinueRun(q, Asks(q))
<1> USE DEF Table, IsRow, Fields
<1>1. ASSUME NEW q \in RunIds, Executing(q), NEW c, c = Asks(q), Perform(q, c)
      PROVE  n = NewId /\ runs[q].status = "running" /\ (InsertChild(q, c) \/ ContinueRun(q, c))
  <2>1. q # n /\ runs[q].status \in {"running", "terminated"}
    BY <1>1 DEF Hands
  <2>2. ASSUME NEW e, Record(q, e) PROVE runs'[n].status = runs[n].status
    BY <2>1, <2>2 DEF Record
  <2>3. CASE RecordCall(q, c) \/ RecordSend(q, c) \/ RecordLocal(q, c) \/ RecordChild(q, c) \/ AwaitAnswered(q, c)
    BY <2>2, <2>3 DEF RecordCall, RecordSend, RecordLocal, RecordChild, AwaitAnswered
  <2>4. CASE MakeCall(q, c) \/ RefuseCall(q, c) \/ SleepBegins(q, c) \/ AwaitSuspends(q, c)
    BY <2>1, <2>4 DEF MakeCall, RefuseCall, SleepBegins, AwaitSuspends
  <2>5. CASE Finish(q, c)
    <3>1. runs'[n] = runs[n]
      BY <2>1, <2>5 DEF Finish, Live
    <3> QED
      BY <3>1
  <2>6. CASE InsertChild(q, c)
    <3>1. runs[q].status = "running" /\ NewId \in RunIds
      BY <2>6, NewIdIsAbsent DEF InsertChild
    <3>2. NewId # n => runs'[n] = runs[n]
      BY <2>6, <3>1 DEF InsertChild
    <3> QED
      BY <2>6, <3>1, <3>2
  <2>7. CASE ContinueRun(q, c)
    <3>1. runs[q].status = "running" /\ NewId \in RunIds
      BY <2>7, NewIdIsAbsent DEF ContinueRun
    <3>2. NewId # n => runs'[n] = runs[n]
      BY <2>1, <2>7, <3>1 DEF ContinueRun
    <3> QED
      BY <2>7, <3>1, <3>2
  <2> QED
    BY <1>1, <2>3, <2>4, <2>5, <2>6, <2>7 DEF Perform
<1>2. ASSUME NEW q \in RunIds,
             \/ \E w \in Workers : Claim(q, w)
             \/ SleepEnds(q) \/ ChildWakes(q) \/ FenceLost(q) \/ Reap(q)
             \/ RequestCancel(q) \/ CancelPropagates(q)
      PROVE  runs'[n].status = runs[n].status
  BY <1>2 DEF Claim, SleepEnds, ChildWakes, FenceLost, Reap, RequestCancel, CancelPropagates, Live
<1>3. ASSUME (\E w \in Workers : Crash(w)) \/ Tick \/ \E s \in outbox : Dispatch(s)
      PROVE  runs' = runs
  BY <1>3 DEF Crash, Tick, Dispatch
<1> QED
  BY <1>1, <1>2, <1>3 DEF Next, Progress

LEMMA DuesIsCounted == ASSUME Sane, NEW t PROVE DueOf(t) \in [RunIds -> Nat]
<1>1. ASSUME NEW r \in RunIds PROVE Dues(r, t) \in Nat
  <2>1. runs[r].status # "absent" => Share(runs[r].prog, t) \in Nat /\ Legacy(runs[r].prog, t) \in Nat
    BY SharesAreCounts DEF Sane, Guests, Reasonable
  <2> QED
    BY <2>1 DEF Dues
<1> QED
  BY <1>1 DEF DueOf

LEMMA DuesIsCount ==
    ASSUME GuestsAreThePorts, Sane, Next, NEW t
    PROVE  DueOf(t) \in [RunIds -> Nat] /\ DueOf(t)' \in [RunIds -> Nat]
<1>1. DueOf(t) \in [RunIds -> Nat]
  BY DuesIsCounted
<1>2. ASSUME NEW r \in RunIds PROVE Dues(r, t)' \in Nat
  <2>0. Sane'
    BY SaneStep
  <2>1. runs'[r].status # "absent" => Share(runs'[r].prog, t) \in Nat /\ Legacy(runs'[r].prog, t) \in Nat
    BY <2>0, SharesAreCounts DEF Sane, Guests, Reasonable
  <2> QED
    BY <2>1 DEF Dues
<1> QED
  BY <1>1, <1>2 DEF DueOf

\* What was handed on stays handed on, unless a crash takes the child from its parent's hand.
LEMMA BequestStays ==
    ASSUME GuestsAreThePorts, Sane, InHand, Next, NEW r \in RunIds, runs[r].status # "absent", Bequeathed(r)
    PROVE  Bequeathed(r)' \/ (exec[r].child # 0 /\ \E w \in Workers : Crash(w))
<1>1. IsSeq(runs[r].hist) /\ Table
  BY DEF Sane, Guests, Table, IsRow
<1>2. CASE runs[r].status \in Terminal
  BY <1>2, RunsStay DEF Sane, Bequeathed
<1>3. ASSUME NEW i \in DOMAIN runs[r].hist, runs[r].hist[i].op \in {"spawn", "detach"}
      PROVE  Bequeathed(r)'
  <2>1. runs'[r].hist = runs[r].hist \/ \E e : runs'[r].hist = Append(runs[r].hist, e)
    BY <1>1, EngineRecords DEF Records
  <2> QED
    BY <1>1, <1>3, <2>1, Grows DEF Bequeathed
<1>4. CASE exec[r].child # 0
  <2>1. Executing(r) /\ Asks(r).op \in {"spawn", "detach"}
    BY <1>4 DEF Sane, Hands, Idle, InHand
  <2>2. CASE exec'[r] = exec[r]
    BY <1>4, <2>2 DEF Bequeathed
  <2>3. CASE Perform(r, Asks(r))
    <3>1. RecordChild(r, Asks(r))
      BY <1>4, <2>1, <2>3
         DEF Perform, MakeCall, RefuseCall, RecordCall, RecordSend, RecordLocal, SleepBegins,
             InsertChild, AwaitAnswered, AwaitSuspends, ContinueRun, Finish
    <3>2. PICK e : e.op = Asks(r).op /\ Record(r, e)
      BY <3>1 DEF RecordChild, Answer
    <3>3. runs'[r].hist = Append(runs[r].hist, e)
      BY <1>1, <3>2 DEF Record, Table, IsRow, Fields
    <3> QED
      BY <1>1, <2>1, <3>2, <3>3, Grows DEF Bequeathed
  <2>4. CASE FenceLost(r)
    BY <2>4 DEF FenceLost, Bequeathed, Terminal
  <2> QED
    BY <1>1, <1>4, <2>1, <2>2, <2>3, <2>4, SegmentGoesOn DEF Sane
<1> QED
  BY <1>2, <1>3, <1>4 DEF Bequeathed

\* A run that starts another has not handed on what it asks for yet, or has nothing to hand on.
LEMMA StillToHandOn ==
    ASSUME GuestsAreThePorts, Sane, Working, InHand, NEW q \in RunIds, runs[q].status = "running",
           \/ Asks(q).op \in {"spawn", "detach"} /\ exec[q].child = 0
           \/ Asks(q).op = "continue"
    PROVE  ~Bequeathed(q) \/ \A t : Legacy(runs[q].prog, t) = 0
<1>1. AsksWell(q) /\ Followed(runs[q].prog, runs[q].hist)
  BY RunsAskWell DEF Sane, Working, Works, Consistent
<1>2. PICK p, h, c : p = runs[q].prog /\ h = runs[q].hist /\ c = Asks(q)
  OBVIOUS
<1>3. Len(h) \in Nat /\ DOMAIN h = 1..Len(h)
  BY <1>2, HeardIsPrefix DEF Sane, Guests, Table, IsRow
<1>4. exec[q].child = 0 /\ runs[q].status \notin Terminal
  BY DEF InHand, Terminal
<1>5. ASSUME NEW i \in DOMAIN h, h[i].op \in {"spawn", "detach"} PROVE \A t : Legacy(p, t) = 0
  <2>1. /\ p.w \notin Continuing
        /\ \/ i = 1 /\ p.w # "cancelchild"
           \/ p.w = "cancelchild" /\ \E j \in 1..i - 1 : h[j].res = "cancelled"
           \/ \A t : Legacy(p, t) = 0
    BY <1>1, <1>2, <1>5 DEF Followed
  <2>2. /\ c.op \in {"spawn", "detach"} =>
             \/ Len(h) = 0 /\ p.w # "cancelchild"
             \/ /\ p.w = "cancelchild" /\ Len(h) \in Nat \ {0} /\ h[Len(h)].res = "cancelled"
                /\ \A j \in 1..Len(h) - 1 : h[j].res # "cancelled"
             \/ \A t : Legacy(p, t) = 0
        /\ c.op = "continue" => p.w \in Continuing
    BY <1>1, <1>2 DEF AsksWell
  <2>3. c.op \in {"spawn", "detach"}
    BY <1>2, <2>1, <2>2
  <2>4. PICK n \in Nat : n = Len(h) /\ i \in 1..n
    BY <1>3, <1>5
  <2>5. n # 0 /\ 1..i - 1 \subseteq 1..n - 1
    BY <2>4
  <2> QED
    BY <2>1, <2>2, <2>3, <2>4, <2>5
<1> QED
  BY <1>2, <1>4, <1>5 DEF Bequeathed

LEMMA RowsInherit ==
    ASSUME GuestsAreThePorts, Sane, Working, InHand, Next, NEW q \in RunIds, Executing(q),
           runs[q].status = "running", NEW n \in RunIds, n = NewId, runs[n].status = "absent",
           runs'[n].status # "absent",
           InsertChild(q, Asks(q)) \/ ContinueRun(q, Asks(q)), NEW t
    PROVE  /\ q # n /\ Dues(n, t) = 0 /\ Dues(n, t)' + Dues(q, t)' <= Dues(q, t)
           /\ Worth(runs'[n].prog, t) <= Legacy(runs[q].prog, t)
<1>1. PICK c, p : c = Asks(q) /\ p = runs[q].prog
  OBVIOUS
<1>2. q # n /\ Dues(n, t) = 0
  BY DEF Dues
<1>3. /\ c.op \in {"spawn", "detach", "continue"}
      /\ c.op \in {"spawn", "detach"} => exec[q].child = 0
  BY <1>1 DEF InsertChild, ContinueRun
<1>4. Worth(c.prog, t) <= Legacy(p, t)
  BY <1>1, <1>3, RunsAskWell DEF Sane, Working, Works, AsksWell
<1>5. runs'[n].prog = c.prog /\ Bequeathed(q)'
  <2>1. \A x, parent, policy, from : Fresh(x, parent, policy, from).prog = x
    BY DEF Fresh, Absent
  <2>2. CASE InsertChild(q, c)
    <3>1. runs'[n].prog = c.prog
      BY <1>2, <2>1, <2>2 DEF InsertChild, Sane, Guests, Table
    <3>2. exec'[q].child = n
      BY <2>2 DEF InsertChild, Sane, Hands
    <3> QED
      BY <3>1, <3>2, RunIdsAreNumbers DEF Bequeathed
  <2>3. CASE ContinueRun(q, c)
    <3>1. runs'[n].prog = c.prog
      BY <1>2, <2>1, <2>3 DEF ContinueRun, Sane, Guests, Table
    <3>2. runs'[q].status = "done"
      BY <1>2, <2>3 DEF ContinueRun, Sane, Guests, Table, IsRow, Fields
    <3> QED
      BY <3>1, <3>2 DEF Bequeathed, Terminal
  <2> QED
    BY <1>1, <2>2, <2>3
<1>6. runs'[q].status # "absent" /\ runs'[q].prog = p
  BY <1>1, RunsStay DEF Sane
<1>7. /\ Share(p, t) \in Nat /\ Legacy(p, t) \in Nat
      /\ Share(c.prog, t) \in Nat /\ Legacy(c.prog, t) \in Nat
  <2>1. Sane'
    BY SaneStep
  <2>2. IsInput(c.prog)
    BY <1>5, <2>1 DEF Sane, Guests, Reasonable
  <2>3. IsInput(p)
    BY <1>1 DEF Sane, Guests, Reasonable
  <2> QED
    BY <2>2, <2>3, SharesAreCounts
<1>8. Dues(q, t)' = Share(p, t)
  BY <1>5, <1>6, <1>7 DEF Dues
<1>9. Dues(q, t) = Share(p, t) + Legacy(p, t)
  <2>1. ~Bequeathed(q) \/ Legacy(p, t) = 0
    BY <1>1, <1>3, StillToHandOn
  <2> QED
    BY <1>1, <1>7, <2>1 DEF Dues
<1>10. Dues(n, t)' \in Nat /\ Dues(n, t)' <= Worth(c.prog, t)
  BY <1>5, <1>7 DEF Dues, Worth
<1>11. PICK a, b, d, e : a = Dues(n, t)' /\ b = Share(p, t) /\ d = Legacy(p, t) /\ e = Worth(c.prog, t)
  OBVIOUS
<1>12. e \in Nat
  BY <1>7, <1>11 DEF Worth
<1>13. a + b <= b + d
  BY <1>4, <1>7, <1>10, <1>11, <1>12
<1> QED
  BY <1>1, <1>2, <1>4, <1>5, <1>8, <1>9, <1>11, <1>13

LEMMA DuesStay ==
    ASSUME GuestsAreThePorts, Sane, InHand, Next, NEW r \in RunIds, runs[r].status # "absent", NEW t
    PROVE  /\ \/ Dues(r, t)' <= Dues(r, t)
              \/ /\ exec[r].child # 0 /\ \E w \in Workers : Crash(w)
                 /\ Dues(r, t)' <= Dues(r, t) + Worth(runs[r].prog, t)
           /\ runs'[r].status # "absent" /\ runs'[r].prog = runs[r].prog
<1>1. runs'[r].status # "absent" /\ runs'[r].prog = runs[r].prog
  BY RunsStay DEF Sane
<1>2. PICK s, l : s = Share(runs[r].prog, t) /\ l = Legacy(runs[r].prog, t)
  OBVIOUS
<1>3. s \in Nat /\ l \in Nat
  BY <1>2, SharesAreCounts DEF Sane, Guests, Reasonable
<1>4. Dues(r, t) = s + (IF Bequeathed(r) THEN 0 ELSE l) /\ Dues(r, t)' = s + (IF Bequeathed(r)' THEN 0 ELSE l)
  BY <1>1, <1>2 DEF Dues
<1>5. Worth(runs[r].prog, t) = s + l
  BY <1>2 DEF Worth
<1>6. Bequeathed(r) => Bequeathed(r)' \/ (exec[r].child # 0 /\ \E w \in Workers : Crash(w))
  BY BequestStays
<1>7. CASE Bequeathed(r) => Bequeathed(r)'
  BY <1>1, <1>3, <1>4, <1>7
<1>8. CASE exec[r].child # 0 /\ \E w \in Workers : Crash(w)
  BY <1>1, <1>3, <1>4, <1>5, <1>8
<1> QED
  BY <1>6, <1>7, <1>8

LEMMA AllowedIsCount == ASSUME scenario \in Scenarios, NEW t PROVE Allowed(t) \in Nat
BY TestsAllowTheirGuests DEF Allowed, Expected

LEMMA DuesStep ==
    ASSUME GuestsAreThePorts, Sane, Working, InHand, DuesAreAllowed, Next PROVE DuesAreAllowed'
<1>0. scenario' = scenario
  BY TestStays
<1>1. \A t : Allowed(t)' = Allowed(t)
  BY <1>0 DEF Allowed
<1>2. ASSUME NEW t, NEW r \in RunIds, runs'[r].status # "absent"
      PROVE  Worth(runs'[r].prog, t) <= Allowed(t)
  <2>1. CASE runs[r].status # "absent"
    BY <2>1, RunsStay DEF Sane, DuesAreAllowed
  <2>2. CASE runs[r].status = "absent"
    <3>1. PICK q \in RunIds : /\ Executing(q) /\ runs[q].status = "running" /\ r = NewId
                              /\ InsertChild(q, Asks(q)) \/ ContinueRun(q, Asks(q))
      BY <1>2, <2>2, RowsAreInserted DEF Sane, Guests
    <3>2. Worth(runs'[r].prog, t) <= Legacy(runs[q].prog, t)
      BY <1>2, <2>2, <3>1, RowsInherit
    <3>3. PICK s, l, a, x : /\ s = Share(runs[q].prog, t) /\ l = Legacy(runs[q].prog, t)
                            /\ a = Allowed(t) /\ x = Worth(runs'[r].prog, t)
      OBVIOUS
    <3>4. s \in Nat /\ l \in Nat /\ s + l <= a
      BY <3>1, <3>3, SharesAreCounts DEF Sane, Guests, Reasonable, DuesAreAllowed, Worth
    <3>5. a \in Nat
      BY <3>3, AllowedIsCount DEF Sane, Guests, Table
    <3>6. x \in Nat
      <4>1. Sane'
        BY SaneStep
      <4> QED
        BY <1>2, <3>3, <4>1, SharesAreCounts DEF Sane, Guests, Reasonable, Worth
    <3>7. x <= a
      BY <3>2, <3>3, <3>4, <3>5, <3>6
    <3> QED
      BY <3>3, <3>7
  <2> QED
    BY <2>1, <2>2
<1>3. ASSUME NEW t
      PROVE  orphans' \in Nat /\ Cardinality(Pairs(DueOf(t)')) <= Allowed(t) * (1 + orphans')
  <2>1. PICK f, g : f = DueOf(t) /\ g = DueOf(t)' /\ f \in [RunIds -> Nat] /\ g \in [RunIds -> Nat]
    BY DuesIsCount
  <2>2. \A r \in RunIds : f[r] = Dues(r, t) /\ g[r] = Dues(r, t)'
    BY <2>1 DEF DueOf
  <2>3. PICK a \in Nat, o \in Nat : a = Allowed(t) /\ o = orphans
    BY AllowedIsCount DEF Sane, Guests, Table, DuesAreAllowed
  <2>4. Total(f) \in Nat /\ Total(g) \in Nat /\ Total(f) <= a * (1 + o)
    BY <2>1, <2>3, PairsAreFinite DEF DuesAreAllowed, Total
  <2>5. \A r \in RunIds : runs[r].status = "absent" /\ runs'[r].status = "absent" => g[r] <= f[r]
    BY <2>1, <2>2 DEF Dues
  <2>6. CASE ~\E w \in Workers : Crash(w)
    <3>1. orphans' = o
      BY <2>3, <2>6, TestStays
    <3>2. \A r \in RunIds : runs[r].status # "absent" => g[r] <= f[r]
      BY <2>2, <2>6, DuesStay
    <3>3. Total(g) <= Total(f)
      <4>1. CASE \A r \in RunIds : runs[r].status = "absent" => runs'[r].status = "absent"
        <5>1. \A r \in RunIds : g[r] <= f[r]
          BY <2>5, <3>2, <4>1
        <5> QED
          BY <2>1, <5>1, TotalsGrow
      <4>2. ASSUME NEW n \in RunIds, runs[n].status = "absent", runs'[n].status # "absent"
            PROVE  Total(g) <= Total(f)
        <5>1. PICK q \in RunIds : /\ Executing(q) /\ runs[q].status = "running" /\ n = NewId
                                  /\ InsertChild(q, Asks(q)) \/ ContinueRun(q, Asks(q))
          BY <4>2, RowsAreInserted DEF Sane, Guests
        <5>2. q # n /\ f[n] = 0 /\ g[n] + g[q] <= f[q]
          BY <2>2, <4>2, <5>1, RowsInherit
        <5>3. ASSUME NEW r \in RunIds, r # n PROVE g[r] <= f[r]
          <6>1. runs[r].status = "absent" => runs'[r].status = "absent"
            BY <5>1, <5>3, RowsAreInserted DEF Sane, Guests
          <6> QED
            BY <2>5, <3>2, <6>1
        <5>4. g[q] + g[n] <= f[q]
          BY <2>1, <5>2
        <5> QED
          BY <2>1, <5>2, <5>3, <5>4, TotalsMove
      <4> QED
        BY <4>1, <4>2
    <3>4. Total(g) <= a * (1 + o)
      <4>1. PICK x : x = a * (1 + o)
        OBVIOUS
      <4>2. x \in Nat
        BY <4>1
      <4> QED
        BY <2>4, <3>3, <4>1, <4>2
    <3> QED
      BY <2>1, <2>3, <3>1, <3>4 DEF Total
  <2>7. ASSUME NEW w \in Workers, Crash(w)
        PROVE  orphans' \in Nat /\ Cardinality(Pairs(DueOf(t)')) <= Allowed(t) * (1 + orphans')
    <3> DEFINE O == {r \in RunIds : exec[r].on = w /\ exec[r].child # 0}
    <3>1. orphans' = o + Cardinality(O) /\ runs' = runs
      <4>1. {r \in {q \in RunIds : exec[q].on = w} : exec[r].child # 0} = O
        OBVIOUS
      <4> HIDE DEF O
      <4> QED
        BY <2>3, <2>7, <4>1 DEF Crash
    <3>2. ASSUME NEW r \in RunIds PROVE (r \notin O => g[r] <= f[r]) /\ (r \in O => g[r] <= f[r] + a)
      <4>1. CASE runs[r].status = "absent"
        <5>1. g[r] <= f[r] /\ g[r] \in Nat /\ f[r] \in Nat
          BY <2>1, <2>5, <3>1, <4>1
        <5> QED
          BY <5>1
      <4>2. CASE runs[r].status # "absent" /\ exec[r].on # w
        <5>1. exec'[r] = exec[r] /\ runs' = runs
          BY <2>7, <4>2 DEF Crash
        <5>2. Dues(r, t)' = Dues(r, t)
          BY <5>1 DEF Dues, Bequeathed
        <5> QED
          BY <2>1, <2>2, <4>2, <5>2
      <4>3. CASE runs[r].status # "absent" /\ exec[r].on = w
        <5>1. \/ g[r] <= f[r]
              \/ exec[r].child # 0 /\ g[r] <= f[r] + Worth(runs[r].prog, t)
          BY <2>2, <4>3, DuesStay
        <5>2. PICK x : x = Worth(runs[r].prog, t)
          OBVIOUS
        <5>3. x \in Nat /\ x <= a
          BY <2>3, <4>3, <5>2, SharesAreCounts DEF Sane, Guests, Reasonable, Worth, DuesAreAllowed
        <5>4. PICK y \in Nat, z \in Nat : y = f[r] /\ z = g[r]
          BY <2>1
        <5>5. z <= y \/ (r \in O /\ z <= y + a)
          BY <4>3, <5>1, <5>2, <5>3, <5>4
        <5> QED
          BY <5>4, <5>5
      <4> QED
        BY <4>1, <4>2, <4>3
    <3>3. O \in SUBSET RunIds
      OBVIOUS
    <3> HIDE DEF O
    <3>4. Cardinality(O) \in Nat /\ Total(g) <= Total(f) + Cardinality(O) * a
      BY <2>1, <3>2, <3>3, TotalsSpread
    <3>5. PICK n, x, y : n \in Nat /\ n = Cardinality(O) /\ x = a * (1 + o) /\ y = n * a
      BY <3>4
    <3>6. a * (1 + (o + n)) = a * (1 + o) + n * a
      <4>1. n \in Nat
        BY <3>5
      <4> HIDE <3>5
      <4> QED
        BY <4>1
    <3>7. x \in Nat /\ y \in Nat
      BY <3>5
    <3>8. Total(g) <= x + y
      BY <2>4, <3>4, <3>5, <3>7
    <3> QED
      BY <2>1, <2>3, <3>1, <3>5, <3>6, <3>8 DEF Total
  <2> QED
    BY <2>6, <2>7
<1>4. orphans' \in Nat
  <2>1. PICK t : t = "work"
    OBVIOUS
  <2> QED
    BY <1>3, <2>1
<1>5. \A t : Cardinality(Pairs(DueOf(t)))' = Cardinality(Pairs(DueOf(t)'))
  BY DEF Pairs
<1> QED
  BY <1>1, <1>2, <1>3, <1>4, <1>5 DEF DuesAreAllowed

-----------------------------------------------------------------------------
(* At the start, and altogether.                                           *)

LEMMA UnaskedTags ==
    ASSUME NEW p, IsInput(p), NEW t, t \notin RequestTags PROVE Worth(p, t) = 0
<1>1. /\ t \notin {"before", "after", "early", "late", "body", "cleanup", "iteration", "Iteration",
                   "one", "two", "started", "finished", "work"}
      /\ t \notin SagaRequests("Notify")
  <2> DEFINE W == {"recovery", "send", "sendaftersleep", "defercleanup", "continueasnew",
                   "casnchild", "bulkcancel", "childsleeper"}
             of(w) == OnceTags([w |-> w])
  <2>1. /\ of("recovery") = {"before", "after"} /\ of("send") = {"early"}
        /\ of("sendaftersleep") = {"early", "late"} /\ of("defercleanup") = {"body", "cleanup"}
        /\ of("continueasnew") = {"iteration"} /\ of("casnchild") = {"Iteration"}
        /\ of("bulkcancel") = {"one", "two"} /\ of("childsleeper") = {"started", "finished"}
    BY DEF OnceTags
  <2>2. RequestTags = (UNION {of(w) : w \in W}) \cup SagaRequests("Notify") \cup {"work"}
    BY DEF RequestTags
  <2>3. /\ t \notin of("recovery") /\ t \notin of("send") /\ t \notin of("sendaftersleep")
        /\ t \notin of("defercleanup") /\ t \notin of("continueasnew") /\ t \notin of("casnchild")
        /\ t \notin of("bulkcancel") /\ t \notin of("childsleeper")
    <3> HIDE DEF of
    <3>1. \A w \in W : of(w) \subseteq RequestTags
      BY <2>2
    <3> QED
      BY <3>1
  <2>4. t \notin SagaRequests("Notify") /\ t # "work"
    <3> DEFINE Once == UNION {of(w) : w \in W}
    <3>1. RequestTags = Once \cup SagaRequests("Notify") \cup {"work"}
      BY DEF RequestTags
    <3> HIDE DEF Once
    <3> QED
      BY <3>1
  <2> HIDE DEF of, W
  <2> QED
    BY <2>1, <2>3, <2>4
<1>2. \A f : t \notin SagaRequests(f)
  <2>1. SagaRequests("Notify") = ToSet(SagaForward) \cup ToSet(SagaUndo)
    BY SagaRequestsAre
  <2>2. /\ ToSet(SagaForward) = {"Withdraw", "Deposit", "Notify"}
        /\ ToSet(SagaUndo) = {"WithdrawCompensation", "DepositCompensation"}
    BY DEF ToSet, SagaForward, SagaUndo
  <2> QED
    BY <1>1, <2>1, <2>2, SagaRequestsAre
<1>3. \A q : t \notin OnceTags(q)
  BY <1>1, <1>2 DEF OnceTags
<1>4. \A q : Share(q, t) = 0
  BY <1>1, <1>3 DEF Share
<1>5. Legacy(p, t) = 0
  BY <1>1, <1>4 DEF Legacy
<1> QED
  BY <1>4, <1>5 DEF Worth

LEMMA TestsAllowTheirRuns ==
    ASSUME NEW test \in Scenarios, NEW t
    PROVE  /\ t \in RequestTags => /\ IsFiniteSet(Asked(test, t))
                                  /\ Cardinality(Asked(test, t)) <= Expected(t, test.allows)
           /\ \A i \in DOMAIN test.starts : /\ Worth(test.starts[i], t) \in Nat
                                            /\ Worth(test.starts[i], t) <= Expected(t, test.allows)
<1>1. ASSUME NEW i \in DOMAIN test.starts PROVE IsInput(test.starts[i]) /\ Worth(test.starts[i], t) \in Nat
  <2>1. IsInput(test.starts[i])
    BY TestsStartGuests
  <2> QED
    BY <2>1, SharesAreCounts DEF Worth
<1>2. IsFiniteSet(DOMAIN test.starts) /\ Expected(t, test.allows) \in Nat
  BY TestsAllowTheirGuests DEF Expected
<1> DEFINE S == [i \in DOMAIN test.starts |-> {i} \X (1..Worth(test.starts[i], t))]
           F == {S[i] : i \in DOMAIN test.starts}
<1>3. Asked(test, t) = UNION F
  BY DEF Asked
<1>4. ASSUME NEW i \in DOMAIN test.starts
      PROVE  IsFiniteSet(S[i]) /\ Cardinality(S[i]) = Worth(test.starts[i], t)
  <2>1. PICK n \in Nat : n = Worth(test.starts[i], t)
    BY <1>1
  <2>2. IsFiniteSet({i}) /\ Cardinality({i}) = 1
    BY FS_Singleton
  <2>3. PICK A, B : A = {i} /\ B = 1..n
    OBVIOUS
  <2>4. IsFiniteSet(A) /\ Cardinality(A) = 1 /\ IsFiniteSet(B) /\ Cardinality(B) = n
    BY <2>2, <2>3, UpToIsFinite
  <2>5. IsFiniteSet(A \X B) /\ Cardinality(A \X B) = Cardinality(A) * Cardinality(B)
    BY <2>4, FS_Product
  <2>6. IsFiniteSet(A \X B) /\ Cardinality(A \X B) = n
    BY <2>4, <2>5
  <2>7. S[i] = A \X B
    BY <2>1, <2>3
  <2> QED
    BY <2>1, <2>6, <2>7
<1>5. S = [i \in DOMAIN test.starts |-> S[i]]
  OBVIOUS
<1> HIDE DEF S
<1>6. IsFiniteSet(F)
  BY <1>2, <1>5, ImageIsFinite
<1>7. IsFiniteSet(Asked(test, t))
  <2>1. \A T \in F : IsFiniteSet(T)
    BY <1>4
  <2> HIDE DEF F
  <2> QED
    BY <1>3, <1>6, <2>1, FS_UNION
<1>8. ASSUME NEW i \in DOMAIN test.starts PROVE Worth(test.starts[i], t) <= Expected(t, test.allows)
  <2>1. CASE t \notin RequestTags
    BY <1>1, <1>2, <2>1, UnaskedTags
  <2>2. CASE t \in RequestTags
    <3>1. S[i] \subseteq Asked(test, t)
      BY <1>3
    <3>2. Cardinality(S[i]) <= Cardinality(Asked(test, t)) /\ Cardinality(Asked(test, t)) \in Nat
      BY <1>7, <3>1, FS_Subset, FS_CardinalityType
    <3>3. Cardinality(Asked(test, t)) <= Expected(t, test.allows)
      BY <2>2, TestsAllowTheirGuests
    <3> QED
      BY <1>1, <1>2, <1>4, <3>2, <3>3
  <2> QED
    BY <2>1, <2>2
<1> QED
  BY <1>1, <1>7, <1>8, TestsAllowTheirGuests

EffectInv == Sane /\ Spends /\ Losses /\ InHand /\ Working /\ ReceiptsAreKnown /\ DuesAreAllowed

LEMMA EffectInit == ASSUME Init PROVE EffectInv
<1>1. Sane /\ scenario \in Scenarios
  BY SaneInit DEF Init
<1>2. DOMAIN <<>> = {}
  BY Tuples, HeardIsPrefix
<1>3. \A r \in RunIds : /\ runs[r].hist = <<>> /\ ~runs[r].cancel
                        /\ runs[r].status # "absent" => /\ r \in DOMAIN scenario.starts
                                                        /\ runs[r].prog = scenario.starts[r]
                        /\ exec[r].spent = 0 /\ exec[r].got = "none" /\ exec[r].child = 0
  BY DEF Init, Fresh, Absent, Idle
<1>4. Spends /\ InHand
  BY <1>3 DEF Spends, InHand
<1>5. Losses /\ lost = {} /\ outbox = {} /\ IsFiniteSet({})
  BY FS_EmptySet DEF Losses, Init
<1>6. Working
  <2>1. ASSUME NEW r \in RunIds PROVE Works(r)
    <3>1. ~Refused(r)
      BY <1>2, <1>3 DEF Refused
    <3>2. \A h : DOMAIN h = {} => \A p : Followed(p, h) /\ SagaHeard(p, h)
      BY DEF Followed, SagaHeard, FirstBroken
    <3>3. Consistent(r)
      BY <1>2, <1>3, <3>2 DEF Consistent
    <3>4. Replied(r)
      BY <1>3 DEF Replied
    <3> QED
      BY <3>1, <3>3, <3>4 DEF Works
  <2> QED
    BY <2>1 DEF Working
<1>7. ReceiptsAreKnown
  <2>1. ASSUME NEW t PROVE Received(t) + Tagged(outbox, t) <= Cardinality(Pairs(MadeBy(t))) + Tagged(lost, t)
    <3>1. Received(t) = 0
      <4>1. {i \in DOMAIN log : log[i] = t} = {}
        BY <1>2 DEF Init
      <4> QED
        BY <4>1, FS_EmptySet DEF Received, Count
    <3>2. Tagged(lost, t) = 0 /\ Tagged(outbox, t) = 0
      <4>1. {x \in {} : x.tag = t} = {}
        OBVIOUS
      <4> QED
        BY <1>5, <4>1, FS_EmptySet DEF Tagged
    <3>3. Cardinality(Pairs(MadeBy(t))) \in Nat
      BY <1>1, MadeIsCounted, PairsAreFinite DEF Total
    <3> QED
      BY <3>1, <3>2, <3>3
  <2> QED
    BY <1>5, <2>1 DEF ReceiptsAreKnown
<1>8. DuesAreAllowed
  <2>1. ASSUME NEW t, NEW r \in RunIds, runs[r].status # "absent"
        PROVE  /\ Worth(runs[r].prog, t) \in Nat /\ Worth(runs[r].prog, t) <= Allowed(t)
               /\ r \in DOMAIN scenario.starts /\ runs[r].prog = scenario.starts[r]
    BY <1>1, <1>3, <2>1, TestsAllowTheirRuns DEF Allowed
  <2>2. ASSUME NEW t PROVE Cardinality(Pairs(DueOf(t))) <= Allowed(t)
    <3>1. DueOf(t) \in [RunIds -> Nat] /\ Allowed(t) \in Nat
      BY <1>1, DuesIsCounted, AllowedIsCount
    <3>2. \A r \in RunIds : runs[r].status # "absent" => DueOf(t)[r] <= Worth(runs[r].prog, t)
      BY <1>1, SharesAreCounts DEF DueOf, Dues, Worth, Sane, Guests, Reasonable
    <3>3. ASSUME NEW x \in Pairs(DueOf(t))
          PROVE  \E r \in RunIds, n \in Nat : /\ x = <<r, n>> /\ 1 <= n /\ runs[r].status # "absent"
                                             /\ n <= Worth(runs[r].prog, t)
      <4>1. PICK r \in RunIds, n \in Nat : x = <<r, n>> /\ 1 <= n /\ n <= DueOf(t)[r]
        BY DEF Pairs
      <4>2. runs[r].status # "absent"
        BY <4>1 DEF DueOf, Dues
      <4> QED
        BY <2>1, <3>1, <3>2, <4>1, <4>2
    <3>4. CASE t \in RequestTags
      <4>1. Pairs(DueOf(t)) \subseteq Asked(scenario, t)
        <5>1. ASSUME NEW x \in Pairs(DueOf(t)) PROVE x \in Asked(scenario, t)
          <6>1. PICK r \in RunIds, n \in Nat : /\ x = <<r, n>> /\ 1 <= n /\ runs[r].status # "absent"
                                               /\ n <= Worth(runs[r].prog, t)
            BY <3>3
          <6>2. r \in DOMAIN scenario.starts /\ n \in 1..Worth(scenario.starts[r], t)
            BY <2>1, <6>1
          <6>3. x \in {r} \X (1..Worth(scenario.starts[r], t))
            BY <6>1, <6>2
          <6> QED
            BY <6>2, <6>3 DEF Asked
        <5> QED
          BY <5>1
      <4>2. IsFiniteSet(Asked(scenario, t)) /\ Cardinality(Asked(scenario, t)) <= Allowed(t)
        BY <1>1, <3>4, TestsAllowTheirRuns DEF Allowed
      <4>3. /\ Cardinality(Pairs(DueOf(t))) <= Cardinality(Asked(scenario, t))
            /\ Cardinality(Pairs(DueOf(t))) \in Nat /\ Cardinality(Asked(scenario, t)) \in Nat
        BY <4>1, <4>2, FS_Subset, FS_CardinalityType
      <4> QED
        BY <3>1, <4>2, <4>3
    <3>5. CASE t \notin RequestTags
      <4>1. Pairs(DueOf(t)) = {}
        <5>1. ASSUME NEW x \in Pairs(DueOf(t)) PROVE FALSE
          <6>1. PICK r \in RunIds, n \in Nat : /\ x = <<r, n>> /\ 1 <= n /\ runs[r].status # "absent"
                                               /\ n <= Worth(runs[r].prog, t)
            BY <3>3
          <6>2. Worth(runs[r].prog, t) = 0
            BY <1>1, <3>5, <6>1, UnaskedTags DEF Sane, Guests, Reasonable
          <6> QED
            BY <6>1, <6>2
        <5> QED
          BY <5>1
      <4> QED
        BY <3>1, <4>1, FS_EmptySet
    <3> QED
      BY <3>4, <3>5
  <2>3. orphans = 0
    BY DEF Init
  <2>4. \A t : Allowed(t) \in Nat /\ Allowed(t) * (1 + 0) = Allowed(t)
    BY <1>1, AllowedIsCount
  <2> QED
    BY <2>1, <2>2, <2>3, <2>4 DEF DuesAreAllowed
<1> QED
  BY <1>1, <1>4, <1>5, <1>6, <1>7, <1>8 DEF EffectInv

LEMMA EffectStep == ASSUME GuestsAreThePorts, EffectInv, [Next]_vars PROVE EffectInv'
<1>1. CASE Next
  <2> USE DEF EffectInv
  <2>1. Sane'
    BY <1>1, SaneStep
  <2>2. Spends' /\ Losses' /\ InHand'
    BY <1>1, SpendsStep, LossesStep, InHandStep DEF Sane, Guests
  <2>3. Working' /\ ReceiptsAreKnown' /\ DuesAreAllowed'
    BY <1>1, WorkingStep, ReceiptsStep, DuesStep
  <2> QED
    BY <2>1, <2>2, <2>3
<1>2. CASE UNCHANGED vars
  <2>1. Sane'
    BY <1>2, SaneStep DEF EffectInv
  <2>2. (Spends /\ Losses /\ InHand)'
    BY <1>2 DEF EffectInv, vars, Spends, Losses, InHand, Starts, Asks
  <2>3. Working'
    <3>1. \A r : Works(r)' <=> Works(r)
      BY <1>2 DEF vars, Works, Consistent, Refused, Replied, Asks, Received
    <3> QED
      BY <1>2, <3>1 DEF EffectInv, vars, Working
  <2>4. ReceiptsAreKnown'
    <3>1. \A t : MadeBy(t)' = MadeBy(t) /\ Received(t)' = Received(t)
      BY <1>2 DEF vars, MadeBy, Made, Told, Past, Asks, Executing, Received
    <3> QED
      BY <1>2, <3>1 DEF EffectInv, vars, ReceiptsAreKnown, Pairs, Tagged
  <2>5. DuesAreAllowed'
    <3>1. \A t : DueOf(t)' = DueOf(t) /\ Allowed(t)' = Allowed(t)
      BY <1>2 DEF vars, DueOf, Dues, Bequeathed, Allowed
    <3> QED
      BY <1>2, <3>1 DEF EffectInv, vars, DuesAreAllowed, Pairs
  <2> QED
    BY <2>1, <2>2, <2>3, <2>4, <2>5 DEF EffectInv
<1> QED
  BY <1>1, <1>2

\* A run has made no more requests than it was due.
LEMMA MadeIsDue == ASSUME GuestsAreThePorts, EffectInv, NEW t PROVE Total(MadeBy(t)) <= Total(DueOf(t))
<1> USE DEF EffectInv
<1>1. MadeBy(t) \in [RunIds -> Nat] /\ DueOf(t) \in [RunIds -> Nat]
  BY MadeIsCounted, DuesIsCounted
<1>2. ASSUME NEW r \in RunIds PROVE Made(r, t) <= Dues(r, t)
  <2>1. CASE runs[r].status = "absent"
    BY <2>1 DEF Made, Dues
  <2>2. CASE runs[r].status # "absent"
    <3>1. PICK s, l : s = Share(runs[r].prog, t) /\ l = Legacy(runs[r].prog, t)
      OBVIOUS
    <3>2. s \in Nat /\ l \in Nat
      BY <2>2, <3>1, SharesAreCounts DEF Sane, Guests, Reasonable
    <3>3. Dues(r, t) = s + (IF Bequeathed(r) THEN 0 ELSE l)
      BY <2>2, <3>1 DEF Dues
    <3>4. Asks(r).op = "call" /\ Asks(r).tag = t => exec[r].spent <= s
      BY <2>2, <3>1, SpentFits, RunsAskWell DEF Sane, Working, Works
    <3>5. Made(r, t) \in Nat /\ Made(r, t) <= s
      <4>1. Made(r, t) = s \/ Made(r, t) = 0
            \/ (Asks(r).op = "call" /\ Asks(r).tag = t /\ Made(r, t) = exec[r].spent)
        BY <2>2, <3>1 DEF Made
      <4> QED
        BY <1>1, <3>2, <3>4, <4>1 DEF MadeBy
    <3> QED
      BY <3>2, <3>3, <3>5
  <2> QED
    BY <2>1, <2>2
<1>3. \A r \in RunIds : MadeBy(t)[r] <= DueOf(t)[r]
  BY <1>2 DEF MadeBy, DueOf
<1> QED
  BY <1>1, <1>3, TotalsGrow

\* A request whose event is durable is never made again, by this worker or by the one that takes
\* the run over: for any tests whose assertions allow what their guests ask for once, any number
\* of runs, workers and crashes, the fixture receives no more under a tag than the test allows,
\* but for the receipts whose event a crash lost and the work of the children it orphaned.
THEOREM EffectsComeOnce == ASSUME GuestsAreThePorts PROVE Spec => []EffectsHappenOnce
<1>1. ASSUME EffectInv PROVE EffectsHappenOnce
  <2> USE <1>1 DEF EffectInv
  <2>1. ASSUME NEW t PROVE Received(t) <= Expected(t, scenario.allows) * (1 + orphans) + Tagged(lost, t)
    <3>1. /\ Received(t) \in Nat /\ Tagged(outbox, t) \in Nat /\ Tagged(lost, t) \in Nat
          /\ Total(MadeBy(t)) \in Nat /\ Total(DueOf(t)) \in Nat
      <4>1. Received(t) \in Nat
        BY CountGrows DEF Received, Sane
      <4>2. Tagged(outbox, t) \in Nat /\ Tagged(lost, t) \in Nat
        BY TagsAreCounted DEF ReceiptsAreKnown, Losses
      <4> QED
        BY <4>1, <4>2, MadeIsCounted, DuesIsCounted, PairsAreFinite
    <3>2. Received(t) + Tagged(outbox, t) <= Total(MadeBy(t)) + Tagged(lost, t)
      BY DEF ReceiptsAreKnown, Total
    <3>3. Total(MadeBy(t)) <= Total(DueOf(t))
      BY MadeIsDue
    <3>4. PICK a : a = Allowed(t) * (1 + orphans)
      OBVIOUS
    <3>5. a \in Nat /\ Total(DueOf(t)) <= a
      <4>1. Allowed(t) \in Nat /\ orphans \in Nat
        BY AllowedIsCount DEF Sane, Guests, Table, DuesAreAllowed
      <4> QED
        BY <3>4, <4>1 DEF DuesAreAllowed, Total
    <3>6. Received(t) <= a + Tagged(lost, t)
      BY <3>1, <3>2, <3>3, <3>5
    <3> QED
      BY <3>4, <3>6 DEF Allowed
  <2> QED
    BY <2>1 DEF EffectsHappenOnce
<1>2. EffectInv /\ [Next]_vars => EffectInv'
  BY EffectStep
<1> QED
  BY <1>1, <1>2, EffectInit, PTL DEF Spec

-----------------------------------------------------------------------------
(* The sequence of a guest's requests.                                     *)

\* How many requests of its sequence a run given p has recorded with the answers h.
Reached(p, h) == IF p.w = "recovery" /\ Len(h) >= 2 THEN Len(h) - 1 ELSE Len(h)

\* The n-th answer of a guest given p is to the call c, and no sleep but recovery's comes between.
Continues(p, h, c) ==
    LET n == Reached(p, h)
        o == ScriptOrder(p)
    IN /\ c.op \in {"call", "sleep", "return", "fail"}
       /\ c.op = "call" => /\ n + 1 \in DOMAIN o /\ c.tag = o[n + 1]
                           /\ p.w = "recovery" => Len(h) # 1
       /\ c.op = "sleep" => p.w = "recovery" /\ Len(h) = 1

LEMMA OrdersAreSequences ==
    ASSUME NEW p, p.w \in {"recovery", "saga"}
    PROVE  \A i \in DOMAIN ScriptOrder(p) : i \in Nat \ {0}
BY DEF ScriptOrder, SagaOrder, SagaForward

LEMMA RecoveryContinues ==
    ASSUME NEW p, p.w = "recovery", NEW h, IsSeq(h)
    PROVE  Continues(p, h, Recovery(p, h))
<1> DEFINE calls == <<Call("before"), Sleep, Call("after")>>
<1>1. Recovery(p, h) = IF Failed(h) THEN Wrapped ELSE Script(calls, Return("completed"), h)
  BY DEF Recovery, Propagating
<1>2. PICK n \in Nat : n = Len(h)
  BY LenProperties DEF IsSeq
<1>3. IsSeq(calls) /\ Len(calls) = 3 /\ calls[1] = Call("before") /\ calls[2] = Sleep /\ calls[3] = Call("after")
  BY Tuples
<1> HIDE DEF calls
<1>4. PICK c : c = Recovery(p, h)
  OBVIOUS
<1>5. ScriptOrder(p) = <<"before", "after">>
  BY DEF ScriptOrder
<1>6. /\ Call("before").op = "call" /\ Call("before").tag = "before"
      /\ Call("after").op = "call" /\ Call("after").tag = "after"
      /\ Sleep.op = "sleep" /\ Wrapped.op = "fail" /\ Return("completed").op = "return"
  BY DEF Call, CallRetrying, Sleep, SleepFor, Wrapped, Return
<1>7. \/ c.op \in {"return", "fail"}
      \/ n = 0 /\ c.op = "call" /\ c.tag = "before"
      \/ n = 1 /\ c.op = "sleep"
      \/ n = 2 /\ c.op = "call" /\ c.tag = "after"
  <2>1. \/ c = Wrapped
        \/ c = Return("completed")
        \/ n + 1 \in 1..3 /\ c = calls[n + 1]
    BY <1>1, <1>2, <1>3, <1>4, ScriptFollows
  <2>2. n + 1 \in 1..3 => n = 0 \/ n = 1 \/ n = 2
    OBVIOUS
  <2> QED
    BY <1>3, <1>6, <2>1, <2>2
<1>8. DOMAIN <<"before", "after">> = 1..2 /\ <<"before", "after">>[1] = "before" /\ <<"before", "after">>[2] = "after"
  OBVIOUS
<1>9. Reached(p, h) = IF n >= 2 THEN n - 1 ELSE n
  BY <1>2 DEF Reached
<1>10. CASE c.op \in {"return", "fail"}
  BY <1>4, <1>10 DEF Continues
<1>11. CASE n = 0 /\ c.op = "call" /\ c.tag = "before"
  <2>1. Reached(p, h) = 0
    BY <1>9, <1>11
  <2> QED
    BY <1>2, <1>4, <1>5, <1>8, <1>11, <2>1 DEF Continues
<1>12. CASE n = 1 /\ c.op = "sleep"
  BY <1>2, <1>4, <1>12 DEF Continues
<1>13. CASE n = 2 /\ c.op = "call" /\ c.tag = "after"
  <2>1. Reached(p, h) = 1
    BY <1>9, <1>13
  <2> QED
    BY <1>2, <1>4, <1>5, <1>8, <1>13, <2>1 DEF Continues
<1> QED
  BY <1>7, <1>10, <1>11, <1>12, <1>13

LEMMA SagaContinues ==
    ASSUME NEW p, p.w = "saga", NEW h, IsSeq(h), SagaHeard(p, h),
           \A i \in DOMAIN h : h[i].res # "refused"
    PROVE  Continues(p, h, Saga(p, h))
<1>1. PICK c : c = Saga(p, h)
  OBVIOUS
<1>2. SagaNext(p, h, c)
  BY <1>1, SagaAsks
<1>3. PICK n \in Nat : n = Len(h) /\ DOMAIN h = 1..n
  BY LenProperties DEF IsSeq
<1>4. Reached(p, h) = n /\ ScriptOrder(p) = SagaOrder(p.failAt)
  BY <1>3 DEF Reached, ScriptOrder
<1>5. CASE c.op = "call"
  <2>1. CASE /\ \A j \in DOMAIN h : h[j].res = "ok"
             /\ n + 1 \in 1..3 /\ c.tag = SagaForward[n + 1]
    <3>1. \A j \in 1..n : SagaForward[j] # p.failAt
      BY <1>3, <2>1 DEF SagaHeard
    <3>2. n = 0 => c.tag = "Withdraw"
      BY <2>1 DEF SagaForward
    <3>3. n = 1 => c.tag = "Deposit" /\ p.failAt # "Withdraw"
      BY <2>1, <3>1 DEF SagaForward
    <3>4. n = 2 => c.tag = "Notify" /\ p.failAt \notin {"Withdraw", "Deposit"}
      <4>1. n = 2 => 1 \in 1..n /\ 2 \in 1..n
        OBVIOUS
      <4> QED
        BY <2>1, <3>1, <4>1 DEF SagaForward
    <3>5. n = 0 \/ n = 1 \/ n = 2
      BY <2>1
    <3>6. n + 1 \in DOMAIN SagaOrder(p.failAt) /\ c.tag = SagaOrder(p.failAt)[n + 1]
      <4>1. CASE n = 0
        BY <3>2, <4>1 DEF SagaOrder, SagaForward
      <4>2. CASE n = 1
        BY <3>3, <4>2 DEF SagaOrder, SagaForward
      <4>3. CASE n = 2
        BY <3>4, <4>3 DEF SagaOrder, SagaForward
      <4> QED
        BY <3>5, <4>1, <4>2, <4>3
    <3> QED
      BY <1>1, <1>3, <1>4, <1>5, <3>6 DEF Continues
  <2>2. ASSUME NEW b \in 1..3, FirstBroken(h, b), 2 * b - (n + 1) \in 1..2,
               c.tag = SagaUndo[2 * b - (n + 1)]
        PROVE  Continues(p, h, c)
    <3>1. b \in 1..n /\ SagaForward[b] = p.failAt
      BY <1>3, <2>2 DEF SagaHeard, FirstBroken
    <3>2. (b = 2 /\ n = 2) \/ (b = 3 /\ n \in {3, 4})
      <4>1. b # 1
        BY <2>2, <3>1
      <4>2. b = 2 => n = 2
        BY <2>2, <3>1
      <4>3. b = 3 => n = 3 \/ n = 4
        BY <2>2, <3>1
      <4> QED
        BY <4>1, <4>2, <4>3
    <3>3. CASE b = 2 /\ n = 2
      <4>1. p.failAt = "Deposit" /\ c.tag = "WithdrawCompensation"
        BY <2>2, <3>1, <3>3 DEF SagaForward, SagaUndo
      <4>2. n + 1 \in DOMAIN SagaOrder(p.failAt) /\ c.tag = SagaOrder(p.failAt)[n + 1]
        BY <3>3, <4>1 DEF SagaOrder
      <4> QED
        BY <1>1, <1>3, <1>4, <1>5, <4>2 DEF Continues
    <3>4. CASE b = 3 /\ n \in {3, 4}
      <4>1. p.failAt = "Notify" /\ (n = 3 => c.tag = "DepositCompensation")
            /\ (n = 4 => c.tag = "WithdrawCompensation")
        BY <2>2, <3>1, <3>4 DEF SagaForward, SagaUndo
      <4>2. n + 1 \in DOMAIN SagaOrder(p.failAt) /\ c.tag = SagaOrder(p.failAt)[n + 1]
        BY <3>4, <4>1 DEF SagaOrder
      <4> QED
        BY <1>1, <1>3, <1>4, <1>5, <4>2 DEF Continues
    <3> QED
      BY <3>2, <3>3, <3>4
  <2> QED
    BY <1>1, <1>2, <1>3, <1>5, <2>1, <2>2 DEF SagaNext
<1>6. CASE c.op # "call"
  BY <1>1, <1>2, <1>6 DEF SagaNext, Continues
<1> QED
  BY <1>5, <1>6

LEMMA RunsContinue ==
    ASSUME GuestsAreThePorts, Guests, NEW r \in RunIds, runs[r].status # "absent", Works(r),
           ~runs[r].cancel, runs[r].prog.w \in {"recovery", "saga"}
    PROVE  Continues(runs[r].prog, runs[r].hist, Asks(r))
<1> DEFINE c == Asks(r)
           p == runs[r].prog
           h == runs[r].hist
<1>1. IsSeq(h) /\ Reasonable(r)
  BY DEF Guests, Table, IsRow
<1>2. c = Intends(r)
  <2>1. c.op # "deferred"
    BY DrainsOnce DEF Works, DeferGuests
  <2> QED
    BY <2>1, AsksOrDrains DEF Drains
<1>3. CASE c.op \in {"return", "fail"}
  BY <1>3 DEF Continues
<1>4. CASE c.op \notin {"return", "fail"}
  <2>1. Heard(h) = h /\ c = Body(p, h)
    BY <1>1, <1>2, <1>4 DEF Reasonable, Ended, Intends
  <2>2. CASE p.w = "recovery"
    <3>1. c = Recovery(p, h)
      BY <2>1, <2>2 DEF Body
    <3> QED
      BY <1>1, <2>2, <3>1, RecoveryContinues
  <2>3. CASE p.w = "saga"
    <3>1. c = Saga(p, h)
      BY <2>1, <2>3 DEF Body
    <3>2. SagaHeard(p, h) /\ \A i \in DOMAIN h : h[i].res # "refused"
      BY <2>3 DEF Works, Consistent, Refused
    <3> QED
      BY <1>1, <2>3, <3>1, <3>2, SagaContinues
  <2> QED
    BY <2>2, <2>3
<1> QED
  BY <1>3, <1>4

-----------------------------------------------------------------------------
\* The one run of a test that lists a sequence: the fixture has its requests up to the last one
\* recorded, or the one after it, whose answer is in hand or was lost with a worker.
InScript(r) ==
    LET n == Reached(runs[r].prog, runs[r].hist)
        o == scenario.order
    IN /\ runs[r].prog = scenario.starts[1]
       /\ ~runs[r].cancel /\ runs[r].policy = "ABANDON"
       /\ Len(log) = 0 => n = 0
       /\ Len(log) # 0 => \/ n \in DOMAIN o /\ log[Len(log)] = o[n]
                          \/ n + 1 \in DOMAIN o /\ log[Len(log)] = o[n + 1]
       /\ exec[r].got # "none" => Len(log) # 0 /\ n + 1 \in DOMAIN o /\ log[Len(log)] = o[n + 1]

Ordered ==
    scenario.order # <<>> =>
        /\ RequestsComeInOrder
        /\ outbox = {} /\ cancels = {}
        /\ \A r \in RunIds : runs[r].status # "absent" => r = 1 /\ InScript(r)

LEMMA OrderedInit == ASSUME Init PROVE Ordered
<1> SUFFICES ASSUME scenario.order # <<>> PROVE Ordered
  BY DEF Ordered
<1>1. log = <<>> /\ outbox = {} /\ cancels = {} /\ scenario \in Scenarios
  BY DEF Init
<1>2. Len(<<>>) = 0 /\ DOMAIN <<>> = {}
  OBVIOUS
<1>3. RequestsComeInOrder
  BY <1>1, <1>2 DEF RequestsComeInOrder
<1>4. ASSUME NEW r \in RunIds, runs[r].status # "absent" PROVE r = 1 /\ InScript(r)
  <2>1. /\ r \in DOMAIN scenario.starts /\ runs[r].prog = scenario.starts[r]
        /\ runs[r].hist = <<>> /\ ~runs[r].cancel /\ runs[r].policy = "ABANDON"
        /\ exec[r].got = "none"
    BY <1>4 DEF Init, Fresh, Absent, Idle
  <2>2. r = 1
    BY <1>1, <2>1, TestsListTheirGuests
  <2>3. Reached(runs[r].prog, runs[r].hist) = 0
    BY <1>2, <2>1 DEF Reached
  <2> QED
    BY <1>1, <1>2, <2>1, <2>2, <2>3 DEF InScript
<1> QED
  BY <1>1, <1>3, <1>4 DEF Ordered

LEMMA CancelsAreRequested ==
    ASSUME Next PROVE cancels' = cancels \/ \E r \in RunIds : RequestCancel(r)
<1>1. ASSUME NEW r \in RunIds, NEW c, Perform(r, c) PROVE cancels' = cancels
  BY <1>1 DEF Perform, MakeCall, RefuseCall, RecordCall, RecordSend, RecordLocal, SleepBegins,
              InsertChild, RecordChild, AwaitAnswered, AwaitSuspends, ContinueRun, Finish
<1> QED
  BY <1>1 DEF Next, Progress, Claim, SleepEnds, ChildWakes, FenceLost, Reap,
              CancelPropagates, Dispatch, Tick, Crash

LEMMA OrderedStep == ASSUME GuestsAreThePorts, EffectInv, Ordered, Next PROVE Ordered'
<1> SUFFICES ASSUME scenario'.order # <<>> PROVE Ordered'
  BY DEF Ordered
<1> USE DEF EffectInv
<1>1. /\ Guests /\ Table /\ Hands /\ Spends /\ IsSeq(log) /\ scenario' = scenario /\ scenario \in Scenarios
  BY TestStays DEF Sane, Guests, Table
<1>2. PICK o : o = scenario.order
  OBVIOUS
<1>3. /\ o # <<>> /\ RequestsComeInOrder /\ outbox = {} /\ cancels = {}
      /\ \A r \in RunIds : runs[r].status # "absent" => r = 1 /\ InScript(r)
  BY <1>1, <1>2 DEF Ordered
<1>4. /\ scenario.starts[1].w \in {"recovery", "saga"}
      /\ o = ScriptOrder(scenario.starts[1]) /\ scenario.cancellable = {}
  BY <1>1, <1>2, <1>3, TestsListTheirGuests
<1>5. \A i \in DOMAIN o : i \in Nat \ {0}
  BY <1>4, OrdersAreSequences
<1>6. ASSUME NEW r \in RunIds, runs[r].status # "absent"
      PROVE  r = 1 /\ InScript(r) /\ Continues(runs[r].prog, runs[r].hist, Asks(r))
  BY <1>1, <1>3, <1>4, <1>6, RunsContinue DEF InScript, Working
<1>7. cancels' = {}
  BY <1>1, <1>3, <1>4, CancelsAreRequested DEF RequestCancel
<1>8. \A r \in RunIds : Segment(r) => runs[r].status # "absent"
  BY DEF Segment
<1>9. outbox' = {}
  BY <1>3, <1>6, <1>8, EngineWrites DEF Queues, Continues
<1>10. ASSUME NEW r \in RunIds, runs'[r].status # "absent" PROVE runs[r].status # "absent"
  <2>1. ~Born(r)
    BY <1>6, <1>8 DEF Born, BornOf, Continues
  <2> QED
    BY <1>1, <1>10, <2>1, EngineRows DEF Evolves, Went
<1>11. ASSUME NEW r \in RunIds, runs[r].status # "absent"
       PROVE  /\ runs'[r].prog = runs[r].prog /\ ~runs'[r].cancel /\ runs'[r].policy = "ABANDON"
              /\ runs'[r].hist = runs[r].hist \/ Spoke(r)
  <2>1. CASE runs'[r] = runs[r]
    BY <1>6, <1>11, <2>1 DEF InScript
  <2>2. CASE Went(r)
    <3>1. runs'[r].policy = "ABANDON" /\ ~Warned(r)
      BY <1>6, <1>7, <1>11, <2>2 DEF InScript, Went, Warned, Keeps
    <3>2. runs'[r].cancel = runs[r].cancel
      BY <2>2, <3>1 DEF Went, Spoke, Returned, Continued, Swept, Moved, Keeps
    <3> QED
      BY <1>1, <1>6, <1>11, <3>1, <3>2, HistoriesGrow DEF InScript
  <2> QED
    BY <1>1, <1>11, <2>1, <2>2, EngineRows, NewIdIsAbsent DEF Evolves, Born
<1>12. PICK m \in Nat : m = Len(log) /\ DOMAIN log = 1..m
  BY <1>1, LenProperties DEF IsSeq
<1>13. ASSUME NEW r \in RunIds, runs[r].status # "absent"
       PROVE  Reached(runs[r].prog, runs[r].hist) \in Nat
  <2>1. Len(runs[r].hist) \in Nat
    BY <1>1, LenProperties DEF Table, IsRow, IsSeq
  <2> QED
    BY <2>1 DEF Reached
<1>14. CASE \E r \in RunIds : Executing(r) /\ MakeCall(r, Asks(r))
  <2>1. PICK r \in RunIds : Executing(r) /\ MakeCall(r, Asks(r))
    BY <1>14
  <2>2. runs[r].status # "absent"
    BY <1>1, <2>1 DEF Hands
  <2>3. PICK c, n : c = Asks(r) /\ n = Reached(runs[r].prog, runs[r].hist)
    OBVIOUS
  <2>4. /\ c.op = "call" /\ runs' = runs /\ log' = Append(log, c.tag)
        /\ n \in Nat /\ n + 1 \in DOMAIN o /\ c.tag = o[n + 1]
    BY <1>4, <1>6, <1>13, <2>1, <2>2, <2>3 DEF MakeCall, Continues, InScript
  <2>5. /\ Len(log') = m + 1 /\ DOMAIN log' = 1..m + 1 /\ log'[m + 1] = o[n + 1]
        /\ \A i \in 1..m : log'[i] = log[i]
    BY <1>1, <1>12, <2>4, Grows
  <2>6. /\ m = 0 => n = 0
        /\ m # 0 => \/ n \in DOMAIN o /\ log[m] = o[n]
                    \/ n + 1 \in DOMAIN o /\ log[m] = o[n + 1]
    BY <1>2, <1>6, <1>12, <2>2, <2>3 DEF InScript
  <2>7. RequestsComeInOrder'
    <3>1. ASSUME NEW k \in 1..m + 1
          PROVE  \E i \in DOMAIN o : /\ log'[k] = o[i]
                                     /\ k = 1 => i = 1
                                     /\ k > 1 => log'[k - 1] = log'[k] \/ (i > 1 /\ log'[k - 1] = o[i - 1])
      <4>1. CASE k \in 1..m
        <5>1. log'[k] = log[k] /\ (k > 1 => log'[k - 1] = log[k - 1])
          BY <2>5, <4>1
        <5> QED
          BY <1>2, <1>3, <1>12, <4>1, <5>1 DEF RequestsComeInOrder
      <4>2. CASE k = m + 1
        <5>1. k = 1 => n + 1 = 1
          BY <2>6, <4>2
        <5>2. ASSUME k > 1
              PROVE  log'[k - 1] = o[n + 1] \/ (n + 1 > 1 /\ log'[k - 1] = o[(n + 1) - 1])
          <6>1. k - 1 = m /\ m # 0 /\ log'[m] = log[m] /\ (n + 1) - 1 = n
            BY <2>4, <2>5, <4>2, <5>2
          <6>2. n \in DOMAIN o => n + 1 > 1
            BY <1>5
          <6> QED
            BY <2>6, <6>1, <6>2
        <5> QED
          BY <2>4, <2>5, <4>2, <5>1, <5>2
      <4> QED
        BY <4>1, <4>2
    <3> QED
      BY <1>1, <1>2, <2>5, <3>1 DEF RequestsComeInOrder
  <2>8. ASSUME NEW q \in RunIds, runs'[q].status # "absent" PROVE q = 1 /\ InScript(q)'
    <3>1. q = 1 /\ r = 1 /\ InScript(q)
      BY <1>6, <2>2, <2>4, <2>8
    <3>2. Len(log') # 0 /\ log'[Len(log')] = o[n + 1]
      BY <2>5
    <3>3. Reached(runs'[q].prog, runs'[q].hist) = n
      BY <2>3, <2>4, <3>1
    <3> QED
      BY <1>1, <1>2, <2>4, <3>1, <3>2, <3>3 DEF InScript
  <2> QED
    BY <1>7, <1>9, <2>7, <2>8 DEF Ordered
<1>15. CASE ~\E r \in RunIds : Executing(r) /\ MakeCall(r, Asks(r))
  <2>1. log' = log
    BY <1>3, <1>15, EngineWrites DEF Writes
  <2>2. RequestsComeInOrder'
    BY <1>1, <1>3, <2>1 DEF RequestsComeInOrder
  <2>3. ASSUME NEW r \in RunIds, runs'[r].status # "absent" PROVE r = 1 /\ InScript(r)'
    <3>1. runs[r].status # "absent" /\ r = 1 /\ InScript(r)
      BY <1>6, <1>10, <2>3
    <3>2. PICK n \in Nat : n = Reached(runs[r].prog, runs[r].hist)
      BY <1>13, <3>1
    <3>3. PICK g : g = exec[r].got
      OBVIOUS
    <3> DEFINE Stands(x) == /\ m = 0 => x = 0
                            /\ m # 0 => \/ x \in DOMAIN o /\ log[m] = o[x]
                                        \/ x + 1 \in DOMAIN o /\ log[m] = o[x + 1]
               Awaited(x) == m # 0 /\ x + 1 \in DOMAIN o /\ log[m] = o[x + 1]
    <3>4. Stands(n) /\ (g # "none" => Awaited(n))
      BY <1>2, <1>12, <3>1, <3>2, <3>3 DEF InScript
    <3>5. PICK x, y : x = Reached(runs'[r].prog, runs'[r].hist) /\ y = exec'[r].got
      OBVIOUS
    <3>6. Stands(x) /\ (y # "none" => Awaited(x)) => InScript(r)'
      <4>1. runs'[r].prog = scenario.starts[1] /\ ~runs'[r].cancel /\ runs'[r].policy = "ABANDON"
        BY <1>11, <3>1 DEF InScript
      <4>2. log' = log /\ scenario'.order = o /\ m = Len(log)
        BY <1>1, <1>2, <1>12, <2>1
      <4>3. ASSUME Stands(x), y # "none" => Awaited(x) PROVE InScript(r)'
        <5>1. /\ Len(log') = 0 => x = 0
              /\ Len(log') # 0 => \/ x \in DOMAIN scenario'.order /\ log'[Len(log')] = scenario'.order[x]
                                  \/ x + 1 \in DOMAIN scenario'.order /\ log'[Len(log')] = scenario'.order[x + 1]
          BY <4>2, <4>3
        <5>2. y # "none" => /\ Len(log') # 0 /\ x + 1 \in DOMAIN scenario'.order
                            /\ log'[Len(log')] = scenario'.order[x + 1]
          BY <4>2, <4>3
        <5> QED
          BY <1>1, <3>5, <4>1, <5>1, <5>2 DEF InScript
      <4> QED
        BY <4>3
    <3>7. CASE runs'[r].hist = runs[r].hist
      <4>1. Reached(runs'[r].prog, runs'[r].hist) = n
        BY <1>11, <3>1, <3>2, <3>7
      <4>2. exec'[r].got = g \/ exec'[r].got = "none"
        <5>1. ~(Executing(r) /\ RefuseCall(r, Asks(r)))
          BY <3>1 DEF RefuseCall, InScript
        <5> QED
          BY <1>1, <1>15, <3>3, <5>1, EngineSegment
      <4> QED
        BY <3>1, <3>4, <3>5, <3>6, <4>1, <4>2
    <3>8. CASE runs'[r].hist # runs[r].hist
      <4>1. PICK e : Recorded(r, Asks(r), e) /\ runs'[r].hist = Append(runs[r].hist, e)
        BY <1>11, <3>1, <3>8 DEF Spoke
      <4>2. Asks(r).op \in EngineOps
        BY <1>11, <3>1, <3>8 DEF Spoke
      <4>3. PICK l \in Nat : l = Len(runs[r].hist) /\ Len(runs'[r].hist) = l + 1
        BY <1>1, <4>1, Grows DEF Table, IsRow
      <4>4. exec'[r].got = "none"
        <5>1. ~(Executing(r) /\ RefuseCall(r, Asks(r)))
          BY <3>1 DEF RefuseCall, InScript
        <5> QED
          BY <1>1, <1>15, <3>8, <5>1, EngineSegment
      <4>5. PICK c : c = Asks(r)
        OBVIOUS
      <4>6. Continues(runs[r].prog, runs[r].hist, c)
        BY <1>6, <3>1, <4>5
      <4>7. n = (IF runs[r].prog.w = "recovery" /\ l >= 2 THEN l - 1 ELSE l)
        BY <3>2, <4>3 DEF Reached
      <4>8. Reached(runs'[r].prog, runs'[r].hist) = IF runs[r].prog.w = "recovery" /\ l + 1 >= 2 THEN (l + 1) - 1 ELSE l + 1
        BY <1>11, <3>1, <4>3 DEF Reached
      <4>9. CASE c.op = "call"
        <5>1. Reached(runs'[r].prog, runs'[r].hist) = n + 1
          <6>1. runs[r].prog.w = "recovery" => l # 1
            BY <4>3, <4>6, <4>9 DEF Continues
          <6> QED
            BY <4>7, <4>8, <6>1
        <5>2. Awaited(n)
          BY <3>3, <3>4, <4>1, <4>5, <4>9 DEF Recorded
        <5>3. Stands(n + 1)
          BY <5>2
        <5> QED
          BY <3>1, <3>5, <3>6, <4>4, <5>1, <5>3
      <4>10. CASE c.op = "sleep"
        <5>1. runs[r].prog.w = "recovery" /\ l = 1
          BY <4>3, <4>6, <4>10 DEF Continues
        <5>2. Reached(runs'[r].prog, runs'[r].hist) = n
          BY <4>7, <4>8, <5>1
        <5> QED
          BY <3>1, <3>4, <3>5, <3>6, <4>4, <5>2
      <4> QED
        BY <4>2, <4>5, <4>6, <4>9, <4>10 DEF Continues, EngineOps
    <3> QED
      BY <3>1, <3>7, <3>8
  <2> QED
    BY <1>7, <1>9, <2>2, <2>3 DEF Ordered
<1> QED
  BY <1>14, <1>15

\* A saga compensates in reverse what completed and nothing else, and a run that is taken over
\* goes on where its history ends: for any tests of one such guest, any workers and any crashes,
\* each request the fixture receives repeats the one before it, whose event was lost, or is the
\* next one of the sequence the test lists.
THEOREM RequestsKeepTheOrder == ASSUME GuestsAreThePorts PROVE Spec => []RequestsComeInOrder
<1>1. Init => EffectInv /\ Ordered
  BY EffectInit, OrderedInit
<1>2. EffectInv /\ Ordered /\ [Next]_vars => (EffectInv /\ Ordered)'
  <2> SUFFICES ASSUME EffectInv, Ordered, [Next]_vars PROVE EffectInv' /\ Ordered'
    OBVIOUS
  <2>1. EffectInv'
    BY EffectStep
  <2>2. CASE Next
    BY <2>1, <2>2, OrderedStep
  <2>3. CASE UNCHANGED vars
    BY <2>1, <2>3 DEF vars, Ordered, InScript, RequestsComeInOrder
  <2> QED
    BY <2>2, <2>3
<1>3. Ordered => RequestsComeInOrder
  BY DEF Ordered, RequestsComeInOrder
<1> QED
  BY <1>1, <1>2, <1>3, PTL DEF Spec
=============================================================================
