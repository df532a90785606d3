--------------------------- MODULE GuestRunsProofs ---------------------------
(***************************************************************************)
(* What the tests assert of the guests that start children, are cancelled, *)
(* defer or continue as new, proved for every such test: any inputs, any   *)
(* number of runs, workers and crashes, any cancels at any moment.         *)
(***************************************************************************)
EXTENDS GuestRuns, DurableRunsProofs

\* The registry and the generated entry points are the ports'.
GuestsAreThePorts == \A p, h : Guest(p, h) = HostCall(p, h)

-----------------------------------------------------------------------------
(* What a guest asks for.                                                  *)

LEMMA HeardIsPrefix ==
    ASSUME NEW h, IsSeq(h)
    PROVE  /\ IsSeq(Heard(h))
           /\ Len(Heard(h)) \in Nat /\ Len(h) \in Nat /\ Len(Heard(h)) <= Len(h)
           /\ DOMAIN h = 1..Len(h) /\ DOMAIN Heard(h) = 1..Len(Heard(h))
           /\ \A i \in 1..Len(Heard(h)) : Heard(h)[i] = h[i] /\ h[i].op # "deferred"
           /\ Len(Heard(h)) < Len(h) => h[Len(Heard(h)) + 1].op = "deferred"
           /\ Heard(h) = h <=> \A i \in 1..Len(h) : h[i].op # "deferred"
<1> DEFINE I == {i \in 1..Len(h) : h[i].op = "deferred"}
           d == IF I # {} THEN Min(I) ELSE 0
<1>1. Len(h) \in Nat /\ DOMAIN h = 1..Len(h) /\ h \in Seq(Range(h)) /\ \A i \in 1..Len(h) : h[i] \in Range(h)
  BY LenProperties, ElementOfSeq DEF IsSeq
<1>2. Heard(h) = IF d = 0 THEN h ELSE SubSeq(h, 1, d - 1)
  BY DEF Heard, SelectInSeq
<1>3. CASE I = {}
  BY <1>1, <1>2, <1>3 DEF IsSeq
<1>4. CASE I # {}
  <2>1. d \in I /\ \A i \in I : d <= i
    <3>1. I \in SUBSET Nat
      BY <1>1
    <3> QED
      BY <1>4, <3>1, LeastExists
  <2> HIDE DEF d
  <2>2. d \in 1..Len(h) /\ d # 0 /\ h[d].op = "deferred" /\ \A i \in 1..d - 1 : h[i].op # "deferred"
    BY <1>1, <2>1
  <2>3. \A i \in 1..d - 1 : h[i] \in Range(h)
    BY <1>1, <2>2
  <2>4. /\ SubSeq(h, 1, d - 1) \in Seq(Range(h)) /\ Len(SubSeq(h, 1, d - 1)) = d - 1
        /\ \A i \in 1..d - 1 : SubSeq(h, 1, d - 1)[i] = h[i]
    BY <1>1, <2>2, <2>3, SubSeqProperties
  <2>5. IsSeq(SubSeq(h, 1, d - 1)) /\ DOMAIN SubSeq(h, 1, d - 1) = 1..d - 1
    BY <2>4, SeqOfRange, LenProperties DEF IsSeq
  <2>6. Heard(h) = SubSeq(h, 1, d - 1)
    BY <1>2, <2>2
  <2>7. Heard(h) # h
    BY <1>1, <2>2, <2>4, <2>6
  <2> QED
    BY <1>1, <2>2, <2>4, <2>5, <2>6, <2>7
<1> QED
  BY <1>3, <1>4

\* A deferred send is not heard, and nothing after the first of them is.
LEMMA HeardGrows ==
    ASSUME NEW h, IsSeq(h), NEW e
    PROVE  /\ e.op = "deferred" \/ Heard(h) # h => Heard(Append(h, e)) = Heard(h)
           /\ e.op # "deferred" /\ Heard(h) = h => Heard(Append(h, e)) = Append(h, e)
<1>1. PICK t : t = Append(h, e)
  OBVIOUS
<1>2. /\ IsSeq(t) /\ Len(h) \in Nat /\ Len(t) = Len(h) + 1
      /\ \A i \in 1..Len(h) : t[i] = h[i]
      /\ t[Len(h) + 1] = e
  BY <1>1, Grows
<1>3. PICK a, b : a = Heard(h) /\ b = Heard(t)
  OBVIOUS
<1>4. /\ IsSeq(a) /\ Len(a) \in Nat /\ Len(a) <= Len(h) /\ DOMAIN a = 1..Len(a)
      /\ \A i \in 1..Len(a) : a[i] = h[i] /\ h[i].op # "deferred"
      /\ Len(a) < Len(h) => h[Len(a) + 1].op = "deferred"
      /\ a = h <=> \A i \in 1..Len(h) : h[i].op # "deferred"
  BY <1>3, HeardIsPrefix
<1>5. /\ IsSeq(b) /\ Len(b) \in Nat /\ Len(b) <= Len(t) /\ DOMAIN b = 1..Len(b)
      /\ \A i \in 1..Len(b) : b[i] = t[i] /\ t[i].op # "deferred"
      /\ Len(b) < Len(t) => t[Len(b) + 1].op = "deferred"
      /\ b = t <=> \A i \in 1..Len(t) : t[i].op # "deferred"
  BY <1>2, <1>3, HeardIsPrefix
<1>6. CASE e.op # "deferred" /\ a = h
  <2>1. \A i \in 1..Len(t) : t[i].op # "deferred"
    BY <1>2, <1>4, <1>6
  <2>2. b = t
    BY <1>5, <2>1
  <2> QED
    BY <1>1, <1>3, <1>6, <2>2
<1>7. CASE e.op = "deferred" \/ a # h
  <2>1. a # h => Len(a) < Len(h)
    <3>1. ASSUME Len(a) = Len(h) PROVE a = h
      BY <1>2, <1>4, <3>1
    <3> QED
      BY <1>2, <1>4, <3>1
  <2>2. Len(a) < Len(t) /\ t[Len(a) + 1].op = "deferred"
    BY <1>2, <1>4, <1>7, <2>1
  <2>3. ~(Len(a) < Len(b))
    BY <1>4, <1>5, <2>2
  <2>4. ASSUME Len(b) < Len(a) PROVE FALSE
    <3>1. t[Len(b) + 1].op = "deferred"
      BY <1>2, <1>4, <1>5, <2>4
    <3>2. Len(b) + 1 \in 1..Len(a) /\ Len(b) + 1 \in 1..Len(h)
      BY <1>2, <1>4, <1>5, <2>4
    <3> QED
      BY <1>2, <1>4, <3>1, <3>2
  <2>5. Len(a) = Len(b)
    <3>1. Len(a) \in Nat /\ Len(b) \in Nat /\ ~(Len(b) < Len(a))
      BY <1>4, <1>5, <2>4
    <3> QED
      BY <2>3, <3>1
  <2>6. \A i \in 1..Len(a) : a[i] = b[i]
    BY <1>2, <1>4, <1>5, <2>5
  <2>7. a \in Seq(Range(a) \cup Range(b)) /\ b \in Seq(Range(a) \cup Range(b))
    <3> DEFINE T == Range(a) \cup Range(b)
    <3>1. Range(a) \subseteq T /\ Range(b) \subseteq T
      OBVIOUS
    <3>2. a \in Seq(Range(a)) /\ b \in Seq(Range(b))
      BY <1>4, <1>5 DEF IsSeq
    <3> HIDE DEF T
    <3>3. a \in Seq(T) /\ b \in Seq(T)
      BY <3>1, <3>2, SeqMonotonic
    <3> QED
      BY <3>3 DEF T
  <2>8. a = b
    BY <2>5, <2>6, <2>7, SeqEqual
  <2> QED
    BY <1>1, <1>3, <1>7, <2>8
<1> QED
  BY <1>6, <1>7

\* A script is followed call by call.
LEMMA ScriptFollows ==
    ASSUME NEW calls, IsSeq(calls), NEW end, NEW h, IsSeq(h)
    PROVE  \/ /\ Len(h) >= Len(calls)
              /\ Script(calls, end, h) = end
           \/ /\ Len(h) + 1 \in 1..Len(calls)
              /\ Script(calls, end, h) = calls[Len(h) + 1]
<1>1. Len(h) \in Nat /\ Len(calls) \in Nat
  BY LenProperties DEF IsSeq
<1> QED
  BY <1>1 DEF Script

-----------------------------------------------------------------------------
DeferGuests == {"defercleanup", "deferdeadletter"}

\* The guests that are started by others.
Spawned == {"retry", "casnchild", "childleaf", "failingchild", "terminateleaf", "childsleeper",
            "cancellable"}

\* The policies children are started under.
Declares(p, c) ==
    /\ p.w = "terminateroot" => c.policy = "TERMINATE"
    /\ p.w = "cancelawaitingparent" =>
          c.policy = "REQUEST_CANCEL" /\ c.prog.w \in {"cancellable", "childleaf"}
    /\ c.policy = "REQUEST_CANCEL" =>
          p.w = "cancelawaitingparent" \/ c.prog.w \in {"childsleeper", "childleaf"}

\* What holds of every host call c that the body of p makes after the answers h.
Speaks(p, h, c) ==
    /\ c.op # "deferred"
    /\ c.op \in {"call", "send"} => c.tag # "cleanup"
    /\ c.op = "send" => c.tag \notin {"two", "Iteration"}
    /\ c.op = "call" => (c.tag = "two" => p.w = "bulkcancel")
    /\ c.op = "call" => (c.tag = "Iteration" => p.w = "casnchild")
    /\ c.op = "defer" => p.w \in DeferGuests /\ c.tag = "cleanup"
    /\ c.op = "return" =>
          (c.outcome = "cancelled" => Observed(h) /\ p.w \in {"cancellable", "bulkcancel"})
    /\ c.op \in {"spawn", "detach"} => IsInput(c.prog) /\ c.prog.w \in Spawned
    /\ c.op = "spawn" => Declares(p, c)
    /\ c.op = "continue" =>
          p.w \in {"continueasnew", "casnchild"} /\ IsInput(c.prog) /\ c.prog.w = p.w

\* A saga goes back at the first step that failed, and there are three.
GoesBackInTime(p, h) ==
    p.w = "saga" => Len(h) <= 3 \/ \E i \in 1..3 : h[i].res # "ok"

AllSpeak(p, h, calls) ==
    IsSeq(calls) /\ \A i \in 1..Len(calls) : Speaks(p, h, calls[i])

LEMMA ScriptSpeaks ==
    ASSUME NEW p, NEW g, NEW h, IsSeq(h), NEW calls, AllSpeak(p, g, calls),
           NEW end, Speaks(p, g, end)
    PROVE  Speaks(p, g, Script(calls, end, h))
BY ScriptFollows DEF AllSpeak

LEMMA EndsSpeak ==
    ASSUME NEW p, NEW h
    PROVE  /\ Speaks(p, h, Wrapped) /\ Speaks(p, h, OwnWords)
           /\ \A outcome : outcome # "cancelled" => Speaks(p, h, Return(outcome))
BY DEF Speaks, Wrapped, OwnWords, Return

LEMMA PropagatingSpeaks ==
    ASSUME NEW p, NEW h, IsSeq(h), NEW calls, AllSpeak(p, h, calls)
    PROVE  Speaks(p, h, Propagating(calls, h))
<1>1. Speaks(p, h, Wrapped) /\ Speaks(p, h, Return("completed"))
  BY EndsSpeak
<1> QED
  BY <1>1, ScriptSpeaks DEF Propagating

LEMMA Tuples ==
    ASSUME NEW a, NEW b, NEW c
    PROVE  /\ IsSeq(<<>>) /\ Len(<<>>) = 0
           /\ IsSeq(<<a>>) /\ Len(<<a>>) = 1
           /\ IsSeq(<<a, b>>) /\ Len(<<a, b>>) = 2
           /\ IsSeq(<<a, b, c>>) /\ Len(<<a, b, c>>) = 3
BY DEF IsSeq, Range

LEMMA TuplesSpeak ==
    ASSUME NEW p, NEW h, NEW a, Speaks(p, h, a), NEW b, Speaks(p, h, b), NEW c, Speaks(p, h, c)
    PROVE  /\ AllSpeak(p, h, <<>>) /\ AllSpeak(p, h, <<a>>)
           /\ AllSpeak(p, h, <<a, b>>) /\ AllSpeak(p, h, <<a, b, c>>)
<1>1. /\ \A i \in 1..1 : <<a>>[i] = a
      /\ \A i \in 1..2 : <<a, b>>[i] \in {a, b}
      /\ \A i \in 1..3 : <<a, b, c>>[i] \in {a, b, c}
  OBVIOUS
<1> QED
  BY <1>1, Tuples DEF AllSpeak

LEMMA JoinsSpeak ==
    ASSUME NEW p, NEW h, NEW s, AllSpeak(p, h, s), NEW t, AllSpeak(p, h, t)
    PROVE  AllSpeak(p, h, s \o t)
<1>1. /\ IsSeq(s \o t)
      /\ Len(s) \in Nat /\ Len(t) \in Nat /\ Len(s \o t) = Len(s) + Len(t)
      /\ \A i \in 1..Len(s \o t) :
            (s \o t)[i] = IF i <= Len(s) THEN s[i] ELSE t[i - Len(s)]
  BY Joins DEF AllSpeak
<1>2. ASSUME NEW i \in 1..Len(s \o t) PROVE Speaks(p, h, (s \o t)[i])
  <2>1. CASE i <= Len(s)
    BY <1>1, <2>1 DEF AllSpeak
  <2>2. CASE ~(i <= Len(s))
    <3>1. i - Len(s) \in 1..Len(t) /\ (s \o t)[i] = t[i - Len(s)]
      BY <1>1, <2>2
    <3> QED
      BY <3>1 DEF AllSpeak
  <2> QED
    BY <2>1, <2>2
<1> QED
  BY <1>1, <1>2 DEF AllSpeak

LEMMA CallsSpeak ==
    ASSUME NEW p, NEW h
    PROVE  /\ Speaks(p, h, Sleep) /\ Speaks(p, h, Poll)
           /\ \A tag : tag \notin {"cleanup", "two", "Iteration"} =>
                 /\ Speaks(p, h, Call(tag)) /\ Speaks(p, h, Send(tag))
                 /\ \A m, n : Speaks(p, h, CallRetrying(tag, m, n))
                 /\ \A b : Speaks(p, h, CallFailing(tag, b))
           /\ p.w \in DeferGuests => Speaks(p, h, Defer("cleanup"))
           /\ \A kids : Speaks(p, h, AwaitAll(kids)) /\ Speaks(p, h, AwaitAny(kids))
           /\ \A k : Speaks(p, h, Await(k))
BY DEF Speaks, Call, CallRetrying, CallFailing, Send, Defer, Sleep, SleepFor, Poll, AwaitAll,
       AwaitAny, Await

\* The call of the guests that are to exhaust their budget.
LEMMA HopelessCallSpeaks ==
    ASSUME NEW p, NEW h PROVE Speaks(p, h, CallRetrying("work", p.attempts, 999))
BY DEF Speaks, CallRetrying

LEMMA ChildrenSpeak ==
    ASSUME NEW p, NEW h, p.w \notin {"terminateroot", "cancelawaitingparent"}
    PROVE  /\ \A child, policy :
                 /\ IsInput(child) /\ child.w \in Spawned
                 /\ policy = "REQUEST_CANCEL" => child.w \in {"childsleeper", "childleaf"}
                 => Speaks(p, h, ChildUnder(child, policy))
           /\ \A child : IsInput(child) /\ child.w \in Spawned =>
                 Speaks(p, h, Child(child)) /\ Speaks(p, h, Detach(child))
           /\ \A w \in {"childleaf", "failingchild"} : Speaks(p, h, Child([w |-> w]))
           /\ IsInput(p) /\ p.w \in {"recoveryparent", "cancelchild", "detached", "casnparent"} =>
                 Speaks(p, h, Child(p.child)) /\ Speaks(p, h, Detach(p.child))
<1>1. \A child, policy :
         /\ IsInput(child) /\ child.w \in Spawned
         /\ policy = "REQUEST_CANCEL" => child.w \in {"childsleeper", "childleaf"}
         => Speaks(p, h, ChildUnder(child, policy))
  BY DEF Speaks, ChildUnder, Declares
<1>2. \A child : IsInput(child) /\ child.w \in Spawned => Speaks(p, h, Child(child))
  BY <1>1 DEF Child
<1>3. \A child : IsInput(child) /\ child.w \in Spawned => Speaks(p, h, Detach(child))
  BY DEF Speaks, Detach
<1>4. ASSUME NEW w \in {"childleaf", "failingchild"}
      PROVE  IsInput([w |-> w]) /\ [w |-> w].w \in Spawned
  BY DEF IsInput, Spawned
<1>5. IsInput(p) /\ p.w \in {"recoveryparent", "cancelchild", "detached", "casnparent"} =>
         IsInput(p.child) /\ p.child.w \in Spawned
  BY DEF IsInput, Spawned
<1> QED
  BY <1>1, <1>2, <1>3, <1>4, <1>5

LEMMA PollLoopSpeaks ==
    ASSUME NEW p, NEW h, NEW n \in Nat
    PROVE  LET loop == PollLoop(n)
           IN /\ AllSpeak(p, h, loop) /\ Len(loop) = 2 * n
              /\ \A i \in 1..2 * n : loop[i] \in {Poll, Sleep}
<1>1. 2 * n \in Nat
  OBVIOUS
<1>2. /\ PollLoop(n) = [i \in 1..2 * n |-> PollLoop(n)[i]]
      /\ \A i \in 1..2 * n : PollLoop(n)[i] \in {Poll, Sleep}
  BY DEF PollLoop
<1>3. IsSeq(PollLoop(n)) /\ Len(PollLoop(n)) = 2 * n
  BY <1>1, <1>2, Tabulated
<1> QED
  BY <1>2, <1>3, CallsSpeak DEF AllSpeak

LEMMA SagaSpeaks ==
    ASSUME NEW p, p.w = "saga", NEW h, IsSeq(h), GoesBackInTime(p, h)
    PROVE  Speaks(p, h, Saga(p, h))
<1> DEFINE Forward(i) == CallFailing(SagaForward[i], SagaForward[i] = p.failAt)
           Undo(i)    == CallFailing(SagaUndo[i], SagaUndo[i] = p.failCompensationAt)
           I          == {i \in 1..Len(h) : h[i].res # "ok"}
           broken     == IF I # {} THEN Min(I) ELSE 0
           there      == [i \in 1..3 |-> Forward(i)]
           back       == [i \in 1..(broken - 1) |-> Undo(broken - i)]
           rest       == SubSeq(h, broken + 1, Len(h))
<1>1. Len(h) \in Nat /\ DOMAIN h = 1..Len(h) /\ h \in Seq(Range(h)) /\ \A i \in 1..Len(h) : h[i] \in Range(h)
  BY LenProperties, ElementOfSeq DEF IsSeq
<1>2. /\ \A i \in 1..3 : Speaks(p, h, Forward(i))
      /\ \A i \in 1..2 : Speaks(p, h, Undo(i))
  <2>1. /\ \A i \in 1..3 : SagaForward[i] \notin {"cleanup", "two", "Iteration"}
        /\ \A i \in 1..2 : SagaUndo[i] \notin {"cleanup", "two", "Iteration"}
    BY DEF SagaForward, SagaUndo
  <2> QED
    BY <2>1, CallsSpeak
<1>3. Speaks(p, h, Wrapped) /\ Speaks(p, h, Return("transferred"))
  BY EndsSpeak
<1>4. Saga(p, h) = IF broken = 0 THEN Script(there, Return("transferred"), h)
                                 ELSE Script(back, Wrapped, rest)
  BY DEF Saga, SelectInSeq
<1> HIDE DEF Forward, Undo
<1>5. CASE I = {}
  <2>1. AllSpeak(p, h, there)
    BY <1>2, Tabulated DEF AllSpeak
  <2>3. broken = 0
    BY <1>5
  <2> HIDE DEF there, back, broken
  <2> QED
    BY <1>3, <1>4, <2>1, <2>3, ScriptSpeaks
<1>6. CASE I # {}
  <2>1. broken \in I /\ \A i \in I : broken <= i
    <3>1. I \in SUBSET Nat
      BY <1>1
    <3> QED
      BY <1>6, <3>1, LeastExists
  <2> HIDE DEF broken
  <2>2. broken \in 1..Len(h) /\ broken \in 1..3
    BY <1>1, <2>1 DEF GoesBackInTime
  <2>3. IsSeq(back) /\ Len(back) = broken - 1 /\ \A i \in 1..broken - 1 : back[i] = Undo(broken - i)
    <3>1. broken - 1 \in Nat
      BY <2>2
    <3> QED
      BY <3>1, Tabulated
  <2>4. AllSpeak(p, h, back)
    BY <1>2, <2>2, <2>3 DEF AllSpeak
  <2>5. IsSeq(rest)
    <3>1. broken + 1 \in 1..Len(h) + 1 /\ \A i \in broken + 1..Len(h) : h[i] \in Range(h)
      BY <1>1, <2>2
    <3>2. rest \in Seq(Range(h))
      BY <1>1, <3>1, SubSeqProperties
    <3> QED
      BY <3>2, SeqOfRange DEF IsSeq
  <2>6. broken # 0
    BY <2>2
  <2> HIDE DEF there, back, rest
  <2> QED
    BY <1>3, <1>4, <2>3, <2>4, <2>5, <2>6, ScriptSpeaks
<1> QED
  BY <1>5, <1>6

LEMMA CancelChildSpeaks ==
    ASSUME NEW p, IsInput(p), p.w = "cancelchild", NEW h, IsSeq(h)
    PROVE  Speaks(p, h, CancelChild(p, h))
<1> DEFINE I    == {i \in 1..Len(h) : h[i].res = "cancelled"}
           seen == IF I # {} THEN Min(I) ELSE 0
           rest == SubSeq(h, seen + 1, Len(h))
<1>1. Len(h) \in Nat /\ DOMAIN h = 1..Len(h) /\ h \in Seq(Range(h)) /\ \A i \in 1..Len(h) : h[i] \in Range(h)
  BY LenProperties, ElementOfSeq DEF IsSeq
<1>2. CancelChild(p, h) =
         IF seen = 0 THEN Script(PollLoop(p.slices), Return("never-observed"), h)
                     ELSE Script(<<Child(p.child)>>, Return("child-started"), rest)
  BY DEF CancelChild, SelectInSeq
<1>3. Speaks(p, h, Return("never-observed")) /\ Speaks(p, h, Return("child-started"))
  BY EndsSpeak
<1>4. CASE seen = 0
  <2>1. AllSpeak(p, h, PollLoop(p.slices))
    BY PollLoopSpeaks DEF IsInput
  <2> HIDE DEF seen
  <2> QED
    BY <1>2, <1>3, <1>4, <2>1, ScriptSpeaks
<1>5. CASE seen # 0
  <2>1. seen \in I
    <3>1. I \in SUBSET Nat
      BY <1>1
    <3> QED
      BY <1>5, <3>1, LeastExists
  <2> HIDE DEF seen
  <2>2. seen \in 1..Len(h)
    BY <2>1
  <2>3. IsSeq(rest)
    <3>1. seen + 1 \in 1..Len(h) + 1 /\ \A i \in seen + 1..Len(h) : h[i] \in Range(h)
      BY <1>1, <2>2
    <3>2. rest \in Seq(Range(h))
      BY <1>1, <3>1, SubSeqProperties
    <3> QED
      BY <3>2, SeqOfRange DEF IsSeq
  <2>4. AllSpeak(p, h, <<Child(p.child)>>)
    BY ChildrenSpeak, TuplesSpeak
  <2> HIDE DEF rest
  <2>5. Speaks(p, h, Script(<<Child(p.child)>>, Return("child-started"), rest))
    BY <1>3, <2>3, <2>4, ScriptSpeaks
  <2> QED
    BY <1>2, <1>5, <2>5 DEF rest
<1> QED
  BY <1>4, <1>5

LEMMA LongAndShortSpeaks ==
    ASSUME NEW p, IsInput(p), NEW h, IsSeq(h), NEW policy,
           \/ p.w = "cancelawaitingparent" /\ policy = "REQUEST_CANCEL"
           \/ p.w = "abandonvariant" /\ policy = "ABANDON"
    PROVE  Speaks(p, h, LongAndShort(p, policy, h))
<1> DEFINE long  == ChildUnder([w |-> "cancellable", poll |-> TRUE, slices |-> p.slices], policy)
           short == ChildUnder([w |-> "childleaf"], "REQUEST_CANCEL")
           calls == <<long, short, Await(Kid(h, 2))>>
<1>1. Speaks(p, h, long) /\ Speaks(p, h, short) /\ Speaks(p, h, Await(Kid(h, 2)))
  <2>1. Speaks(p, h, Await(Kid(h, 2))) /\ p.slices \in Nat
    BY CallsSpeak DEF IsInput
  <2>2. PICK x : x = [w |-> "cancellable", poll |-> TRUE, slices |-> p.slices]
    OBVIOUS
  <2>3. IsInput(x) /\ x.w = "cancellable" /\ IsInput([w |-> "childleaf"])
    BY <2>1, <2>2 DEF IsInput
  <2>4. Speaks(p, h, ChildUnder(x, policy))
    BY <2>3 DEF Speaks, Declares, ChildUnder, Spawned
  <2>5. Speaks(p, h, short)
    BY <2>3 DEF Speaks, Declares, ChildUnder, Spawned
  <2> QED
    BY <2>1, <2>2, <2>4, <2>5
<1> HIDE DEF long, short
<1>2. AllSpeak(p, h, calls)
  BY <1>1, TuplesSpeak
<1>4. Speaks(p, h, Propagating(calls, h))
  BY <1>2, PropagatingSpeaks
<1>5. Speaks(p, h, Return("await-error"))
  BY EndsSpeak
<1> QED
  BY <1>4, <1>5 DEF LongAndShort, long, short

LEMMA BodySpeaks ==
    ASSUME NEW p, IsInput(p), NEW h, IsSeq(h), GoesBackInTime(p, h)
    PROVE  Speaks(p, h, Body(p, h))
<1>1. CASE p.w = "recovery"
  <2>1. Speaks(p, h, Call("before")) /\ Speaks(p, h, Sleep) /\ Speaks(p, h, Call("after"))
    BY <1>1, CallsSpeak
  <2>2. AllSpeak(p, h, <<Call("before"), Sleep, Call("after")>>)
    BY <2>1, TuplesSpeak
  <2> QED
    BY <1>1, <2>2, PropagatingSpeaks DEF Body, Recovery
<1>2. CASE p.w = "deadletter"
  <2>1. PICK x : x = CallRetrying("work", p.attempts, 999)
    OBVIOUS
  <2>2. Speaks(p, h, x)
    BY <2>1, HopelessCallSpeaks
  <2>3. AllSpeak(p, h, <<x>>)
    BY <2>2, TuplesSpeak
  <2>4. Speaks(p, h, Propagating(<<x>>, h))
    BY <2>3, PropagatingSpeaks
  <2> QED
    BY <1>2, <2>1, <2>4 DEF Body, DeadLetter
<1>3. CASE p.w = "send"
  <2>1. Speaks(p, h, Send("early")) /\ Speaks(p, h, Sleep)
    BY <1>3, CallsSpeak
  <2>2. AllSpeak(p, h, <<Send("early"), Sleep>>)
    BY <2>1, TuplesSpeak
  <2> QED
    BY <1>3, <2>2, PropagatingSpeaks DEF Body, SendOnce
<1>4. CASE p.w = "sendaftersleep"
  <2>1. Speaks(p, h, Send("early")) /\ Speaks(p, h, Sleep) /\ Speaks(p, h, Send("late"))
    BY <1>4, CallsSpeak
  <2>2. AllSpeak(p, h, <<Send("early"), Sleep, Send("late")>>)
    BY <2>1, TuplesSpeak
  <2> QED
    BY <1>4, <2>2, PropagatingSpeaks DEF Body, SendAfterSleep
<1>5. CASE p.w = "defercleanup"
  <2>1. Speaks(p, h, Send("body")) /\ Speaks(p, h, Defer("cleanup")) /\ Speaks(p, h, Sleep)
    BY <1>5, CallsSpeak DEF DeferGuests
  <2>2. AllSpeak(p, h, <<Send("body"), Defer("cleanup"), Sleep>>)
    BY <2>1, TuplesSpeak
  <2> QED
    BY <1>5, <2>2, PropagatingSpeaks DEF Body, DeferCleanup
<1>6. CASE p.w = "deferdeadletter"
  <2>1. PICK x : x = CallRetrying("work", p.attempts, 999)
    OBVIOUS
  <2>2. Speaks(p, h, x)
    BY <2>1, HopelessCallSpeaks
  <2>3. Speaks(p, h, Send("body")) /\ Speaks(p, h, Defer("cleanup"))
    BY <1>6, CallsSpeak DEF DeferGuests
  <2>4. AllSpeak(p, h, <<Send("body"), Defer("cleanup"), x>>)
    BY <2>2, <2>3, TuplesSpeak
  <2>5. Speaks(p, h, Propagating(<<Send("body"), Defer("cleanup"), x>>, h))
    BY <2>4, PropagatingSpeaks
  <2> QED
    BY <1>6, <2>1, <2>5 DEF Body, DeferDeadLetter
<1>7. CASE p.w = "childsleeper"
  <2>1. Speaks(p, h, Call("started")) /\ Speaks(p, h, Sleep) /\ Speaks(p, h, Call("finished"))
    BY <1>7, CallsSpeak
  <2>2. AllSpeak(p, h, <<Call("started"), Sleep, Call("finished")>>)
    BY <2>1, TuplesSpeak
  <2> QED
    BY <1>7, <2>2, PropagatingSpeaks DEF Body, ChildSleeper
<1>8. CASE p.w = "recoveryparent"
  <2>1. Speaks(p, h, Child(p.child)) /\ Speaks(p, h, Sleep) /\ Speaks(p, h, Await(Kid(h, 1)))
    BY <1>8, CallsSpeak, ChildrenSpeak
  <2>2. AllSpeak(p, h, <<Child(p.child), Sleep, Await(Kid(h, 1))>>)
    BY <2>1, TuplesSpeak
  <2> QED
    BY <1>8, <2>2, PropagatingSpeaks DEF Body, RecoveryParent
<1>9. CASE p.w = "awaitonechild"
  <2>1. Speaks(p, h, Child([w |-> "childleaf"])) /\ Speaks(p, h, Await(Kid(h, 1)))
    BY <1>9, CallsSpeak, ChildrenSpeak
  <2>2. AllSpeak(p, h, <<Child([w |-> "childleaf"]), Await(Kid(h, 1))>>)
    BY <2>1, TuplesSpeak
  <2> QED
    BY <1>9, <2>2, PropagatingSpeaks DEF Body, AwaitOneChild
<1>10. CASE p.w = "failparent"
  <2>1. Speaks(p, h, Child([w |-> "failingchild"])) /\ Speaks(p, h, Await(Kid(h, 1)))
    BY <1>10, CallsSpeak, ChildrenSpeak
  <2>2. AllSpeak(p, h, <<Child([w |-> "failingchild"]), Await(Kid(h, 1))>>)
    BY <2>1, TuplesSpeak
  <2> QED
    BY <1>10, <2>2, PropagatingSpeaks DEF Body, FailParent
<1>11. CASE p.w = "casnparent"
  <2>1. Speaks(p, h, Child(p.child)) /\ Speaks(p, h, Await(Kid(h, 1)))
    BY <1>11, CallsSpeak, ChildrenSpeak
  <2>2. AllSpeak(p, h, <<Child(p.child), Await(Kid(h, 1))>>)
    BY <2>1, TuplesSpeak
  <2> QED
    BY <1>11, <2>2, PropagatingSpeaks DEF Body, CasnParent
<1>12. CASE p.w = "detached"
  <2>1. Speaks(p, h, Detach(p.child))
    BY <1>12, CallsSpeak, ChildrenSpeak
  <2>2. AllSpeak(p, h, <<Detach(p.child)>>)
    BY <2>1, TuplesSpeak
  <2> QED
    BY <1>12, <2>2, PropagatingSpeaks DEF Body, Detached
<1>13. CASE p.w = "retry"
  <2>1. AllSpeak(p, h, <<CallRetrying("work", p.attempts, p.failTimes)>>)
    BY CallsSpeak, TuplesSpeak
  <2>2. Speaks(p, h, Return("succeeded")) /\ Speaks(p, h, Return("failed"))
    BY EndsSpeak
  <2> QED
    BY <1>13, <2>1, <2>2, ScriptSpeaks DEF Body, RetryCall
<1>14. CASE p.w = "deadletteropaque"
  <2>1. PICK x : x = CallRetrying("work", p.attempts, 999)
    OBVIOUS
  <2>2. Speaks(p, h, x)
    BY <2>1, HopelessCallSpeaks
  <2>3. AllSpeak(p, h, <<x>>)
    BY <2>2, TuplesSpeak
  <2>4. Speaks(p, h, Return("completed")) /\ Speaks(p, h, OwnWords)
    BY EndsSpeak
  <2>5. Speaks(p, h, Script(<<x>>, Return("completed"), h))
    BY <2>3, <2>4, ScriptSpeaks
  <2> QED
    BY <1>14, <2>1, <2>4, <2>5 DEF Body, DeadLetterOpaque
<1>15. CASE p.w = "continueasnew"
  <2> DEFINE next == Continue([p EXCEPT !.remaining = @ - 1])
             calls == <<Call("iteration")>> \o (IF p.remaining > 1 THEN <<next>> ELSE <<>>)
  <2>1. p.remaining > 1 =>
           IsInput([p EXCEPT !.remaining = @ - 1]) /\ [p EXCEPT !.remaining = @ - 1].w = p.w
    BY <1>15 DEF IsInput
  <2>2. Speaks(p, h, Call("iteration")) /\ (p.remaining > 1 => Speaks(p, h, next))
    BY <1>15, <2>1, CallsSpeak DEF Speaks, Continue
  <2> HIDE DEF next
  <2>3. AllSpeak(p, h, calls)
    BY <2>2, TuplesSpeak, JoinsSpeak
  <2> QED
    BY <1>15, <2>2, <2>3, PropagatingSpeaks DEF Body, ContinueAsNew, next
<1>16. CASE p.w = "casnchild"
  <2> DEFINE next == Continue([p EXCEPT !.iterations = @ - 1])
             calls == <<Call("Iteration")>> \o (IF p.iterations > 1 THEN <<next>> ELSE <<>>)
  <2>1. p.iterations > 1 =>
           IsInput([p EXCEPT !.iterations = @ - 1]) /\ [p EXCEPT !.iterations = @ - 1].w = p.w
    BY <1>16 DEF IsInput
  <2>2. Speaks(p, h, Call("Iteration")) /\ (p.iterations > 1 => Speaks(p, h, next))
    BY <1>16, <2>1 DEF Speaks, Call, CallRetrying, Continue
  <2> HIDE DEF next
  <2>3. AllSpeak(p, h, calls)
    BY <2>2, TuplesSpeak, JoinsSpeak
  <2> QED
    BY <1>16, <2>2, <2>3, PropagatingSpeaks DEF Body, CasnChild, next
<1>17. CASE p.w = "saga"
  BY <1>17, SagaSpeaks DEF Body
<1>18. CASE p.w = "cancellable"
  <2> DEFINE calls == IF p.poll THEN PollLoop(p.slices) ELSE [i \in 1..p.slices |-> Sleep]
  <2>1. AllSpeak(p, h, calls)
    <3>1. p.slices \in Nat
      BY <1>18 DEF IsInput
    <3>2. AllSpeak(p, h, [i \in 1..p.slices |-> Sleep])
      BY <3>1, CallsSpeak, Tabulated DEF AllSpeak
    <3> QED
      BY <3>1, <3>2, PollLoopSpeaks
  <2>2. Observed(h) => Speaks(p, h, Return("cancelled"))
    BY <1>18 DEF Speaks, Return
  <2>3. Speaks(p, h, Return("completed"))
    BY EndsSpeak
  <2> HIDE DEF calls
  <2>4. Speaks(p, h, Script(calls, Return("completed"), h))
    BY <2>1, <2>3, ScriptSpeaks
  <2> QED
    BY <1>18, <2>2, <2>4 DEF Body, Cancellable, calls
<1>19. CASE p.w = "bulkcancel"
  <2> DEFINE calls == <<Call("one")>> \o PollLoop(p.slices) \o <<Call("two")>>
  <2>1. Speaks(p, h, Call("one")) /\ Speaks(p, h, Call("two"))
    BY <1>19 DEF Speaks, Call, CallRetrying
  <2>2. AllSpeak(p, h, calls)
    <3>1. AllSpeak(p, h, PollLoop(p.slices))
      BY <1>19, PollLoopSpeaks DEF IsInput
    <3>2. AllSpeak(p, h, <<Call("one")>>) /\ AllSpeak(p, h, <<Call("two")>>)
      BY <2>1, TuplesSpeak
    <3> QED
      BY <3>1, <3>2, JoinsSpeak
  <2>3. Observed(h) => Speaks(p, h, Return("cancelled"))
    BY <1>19 DEF Speaks, Return
  <2>4. Speaks(p, h, Return("completed")) /\ Speaks(p, h, Return("step_failed"))
    BY EndsSpeak
  <2> HIDE DEF calls
  <2>5. Speaks(p, h, Script(calls, Return("completed"), h))
    BY <2>2, <2>4, ScriptSpeaks
  <2> QED
    BY <1>19, <2>3, <2>4, <2>5 DEF Body, BulkCancel, calls
<1>20. CASE p.w = "cancelchild"
  BY <1>20, CancelChildSpeaks DEF Body
<1>21. CASE p.w \in {"childleaf", "terminateleaf"}
  <2>1. AllSpeak(p, h, <<Sleep>>) /\ Speaks(p, h, Return("completed"))
    BY CallsSpeak, TuplesSpeak, EndsSpeak
  <2>2. Speaks(p, h, Script(<<Sleep>>, Return("completed"), h))
    BY <2>1, ScriptSpeaks
  <2> QED
    BY <1>21, <2>2 DEF Body, ChildLeaf, TerminateLeaf
<1>22. CASE p.w = "failingchild"
  BY <1>22, EndsSpeak DEF Body, FailingChild
<1>23. CASE p.w = "parentfanout"
  <2> DEFINE kid == Child([w |-> "childleaf"])
             wait == IF p.any THEN AwaitAny(Kids(h)) ELSE AwaitAll(Kids(h))
             calls == [i \in 1..p.n |-> kid] \o <<wait>>
  <2>1. Speaks(p, h, kid) /\ Speaks(p, h, wait)
    BY <1>23, CallsSpeak, ChildrenSpeak
  <2> HIDE DEF kid, wait
  <2>2. AllSpeak(p, h, [i \in 1..p.n |-> kid])
    <3>1. p.n \in Nat
      BY <1>23 DEF IsInput
    <3> QED
      BY <2>1, <3>1, Tabulated DEF AllSpeak
  <2>3. AllSpeak(p, h, calls)
    BY <2>1, <2>2, TuplesSpeak, JoinsSpeak
  <2> QED
    BY <1>23, <2>1, <2>3, PropagatingSpeaks DEF Body, ParentFanout, kid, wait
<1>24. CASE p.w = "childparent"
  <2> DEFINE kid == ChildUnder([w |-> "childsleeper"], p.policy)
             calls == <<kid>> \o (IF p.sleeps THEN <<Sleep>> ELSE <<>>)
  <2>1. IsInput([w |-> "childsleeper"]) /\ [w |-> "childsleeper"].w \in Spawned
    BY DEF IsInput, Spawned
  <2>2. Speaks(p, h, kid) /\ Speaks(p, h, Sleep)
    BY <1>24, <2>1, CallsSpeak, ChildrenSpeak
  <2> HIDE DEF kid
  <2>3. AllSpeak(p, h, calls)
    BY <2>2, TuplesSpeak, JoinsSpeak
  <2> QED
    BY <1>24, <2>2, <2>3, PropagatingSpeaks DEF Body, ChildParent, kid
<1>25. CASE p.w = "terminateroot"
  <2> DEFINE kid == ChildUnder([w |-> "terminateleaf"], "TERMINATE")
  <2>1. Speaks(p, h, kid)
    <3>1. IsInput([w |-> "terminateleaf"]) /\ [w |-> "terminateleaf"].w \in Spawned
      BY DEF IsInput, Spawned
    <3>2. Declares(p, kid)
      BY <1>25 DEF Declares, ChildUnder
    <3> QED
      BY <3>1, <3>2 DEF Speaks, ChildUnder
  <2> HIDE DEF kid
  <2>2. AllSpeak(p, h, <<kid, kid, Await(Kid(h, 2))>>)
    BY <2>1, CallsSpeak, TuplesSpeak
  <2> QED
    BY <1>25, <2>2, PropagatingSpeaks DEF Body, TerminateRoot, kid
<1>26. CASE p.w = "cancelawaitingparent"
  <2>1. Speaks(p, h, LongAndShort(p, "REQUEST_CANCEL", h))
    BY <1>26, LongAndShortSpeaks
  <2> QED
    BY <1>26, <2>1 DEF Body, CancelAwaitingParent
<1>27. CASE p.w = "abandonvariant"
  <2>1. Speaks(p, h, LongAndShort(p, "ABANDON", h))
    BY <1>27, LongAndShortSpeaks
  <2> QED
    BY <1>27, <2>1 DEF Body, AbandonVariant
<1> QED
  BY <1>1, <1>2, <1>3, <1>4, <1>5, <1>6, <1>7, <1>8, <1>9, <1>10, <1>11, <1>12, <1>13, <1>14,
     <1>15, <1>16, <1>17, <1>18, <1>19, <1>20, <1>21, <1>22, <1>23, <1>24, <1>25, <1>26, <1>27
     DEF IsInput

\* A saga that has done its three steps is over.
LEMMA SagaEnds ==
    ASSUME NEW p, p.w = "saga", NEW h, IsSeq(h), Len(h) = 3, \A i \in 1..3 : h[i].res = "ok"
    PROVE  Ended(Saga(p, h))
<1> DEFINE Forward(i) == CallFailing(SagaForward[i], SagaForward[i] = p.failAt)
           I          == {i \in 1..Len(h) : h[i].res # "ok"}
           there      == [i \in 1..3 |-> Forward(i)]
<1>1. Len(there) = 3
  BY Tabulated
<1>2. I = {}
  OBVIOUS
<1>3. Saga(p, h) = Script(there, Return("transferred"), h)
  BY <1>2 DEF Saga, SelectInSeq
<1> HIDE DEF there
<1> QED
  BY <1>1, <1>3 DEF Script, Ended, Return

-----------------------------------------------------------------------------
(* What a run was given, and what it can have heard.                       *)

\* The next call of the guest's own body, which the entry point may put off.
Intends(r) == Body(runs[r].prog, Heard(runs[r].hist))

Reasonable(r) ==
    /\ IsInput(runs[r].prog)
    /\ GoesBackInTime(runs[r].prog, Heard(runs[r].hist))
    /\ \A i \in DOMAIN runs[r].hist :
          runs[r].hist[i].op = "defer" =>
             runs[r].prog.w \in DeferGuests /\ runs[r].hist[i].tag = "cleanup"
    /\ Heard(runs[r].hist) # runs[r].hist =>
          runs[r].prog.w \in DeferGuests /\ Ended(Intends(r))

Guests == Table /\ \A r \in RunIds : runs[r].status # "absent" => Reasonable(r)

LEMMA GreatestExists ==
    ASSUME NEW n \in Nat, NEW S \in SUBSET (1..n), S # {}
    PROVE  Max(S) \in S
<1> DEFINE T == {n - x : x \in S}
<1>1. T \in SUBSET Nat /\ T # {}
  <2>1. \A x \in S : n - x \in Nat
    OBVIOUS
  <2>2. T # {}
    OBVIOUS
  <2> QED
    BY <2>1, <2>2
<1>2. Min(T) \in T /\ \A y \in T : Min(T) <= y
  BY <1>1, LeastExists
<1>3. PICK x \in S : Min(T) = n - x
  BY <1>2
<1>4. \A y \in S : n - x <= n - y
  BY <1>2, <1>3
<1>5. \A y \in S : x >= y
  BY <1>4
<1> QED
  BY <1>5 DEF Max

\* A run asks for what its body does, or drains its defers once the body has ended.
Drains(r) ==
    /\ Asks(r).op = "deferred" /\ Asks(r).tag = "cleanup"
    /\ Ended(Intends(r)) /\ runs[r].prog.w \in DeferGuests

LEMMA AsksOrDrains ==
    ASSUME GuestsAreThePorts, Guests, NEW r \in RunIds, runs[r].status # "absent"
    PROVE  /\ Speaks(runs[r].prog, Heard(runs[r].hist), Intends(r))
           /\ Asks(r) = Intends(r) \/ Drains(r)
<1> DEFINE p == runs[r].prog
           h == runs[r].hist
           U == Undrained(h)
<1>1. IsSeq(h) /\ Reasonable(r)
  BY DEF Guests, Table, IsRow
<1>2. /\ IsSeq(Heard(h)) /\ Len(h) \in Nat /\ DOMAIN h = 1..Len(h)
  BY <1>1, HeardIsPrefix
<1>3. Speaks(p, Heard(h), Intends(r))
  BY <1>1, <1>2, BodySpeaks DEF Reasonable, Intends
<1>4. Asks(r) = IF Ended(Intends(r)) /\ U # {} THEN [op |-> "deferred", tag |-> h[Max(U)].tag]
                                               ELSE Intends(r)
  BY DEF GuestsAreThePorts, Asks, HostCall, Intends
<1>5. CASE Ended(Intends(r)) /\ U # {}
  <2>1. U \in SUBSET (1..Len(h)) /\ \A i \in U : h[i].op = "defer"
    BY <1>2 DEF Undrained
  <2>2. Max(U) \in U
    BY <1>2, <1>5, <2>1, GreatestExists
  <2>3. p.w \in DeferGuests /\ h[Max(U)].tag = "cleanup"
    BY <1>1, <1>2, <2>1, <2>2 DEF Reasonable
  <2>4. Drains(r)
    BY <1>4, <1>5, <2>3 DEF Drains
  <2> QED
    BY <1>3, <2>4
<1>6. CASE ~(Ended(Intends(r)) /\ U # {})
  BY <1>3, <1>4, <1>6
<1> QED
  BY <1>5, <1>6

\* What a run that records an answer has heard afterwards.
LEMMA HeardNext ==
    ASSUME GuestsAreThePorts, Guests, NEW r \in RunIds, runs[r].status # "absent",
           NEW e, e.op = Asks(r).op, Asks(r).op \in EngineOps
    PROVE  LET h == runs[r].hist
               t == Append(h, e)
           IN \/ Drains(r) /\ Heard(t) = Heard(h)
              \/ /\ Asks(r) = Intends(r) /\ ~Ended(Intends(r)) /\ e.op # "deferred"
                 /\ Heard(h) = h /\ Heard(t) = t
<1> DEFINE h == runs[r].hist
           t == Append(h, e)
<1>1. IsSeq(h) /\ Reasonable(r)
  BY DEF Guests, Table, IsRow
<1>2. CASE Drains(r)
  BY <1>1, <1>2, HeardGrows DEF Drains
<1>3. CASE Asks(r) = Intends(r)
  <2>1. e.op # "deferred" /\ ~Ended(Intends(r))
    BY <1>3, AsksOrDrains DEF Speaks, Ended, EngineOps
  <2>2. Heard(h) = h
    BY <1>1, <2>1 DEF Reasonable
  <2> QED
    BY <1>1, <1>3, <2>1, <2>2, HeardGrows
<1> QED
  BY <1>2, <1>3, AsksOrDrains

LEMMA SpokeReasonably ==
    ASSUME GuestsAreThePorts, Guests, NEW r \in RunIds, runs[r].status # "absent",
           Spoke(r), runs'[r].prog = runs[r].prog
    PROVE  Reasonable(r)'
<1> DEFINE p == runs[r].prog
           h == runs[r].hist
<1>1. PICK e : Recorded(r, Asks(r), e) /\ runs'[r].hist = Append(h, e)
  BY DEF Spoke
<1> DEFINE t == Append(h, e)
<1>2. IsSeq(h) /\ Reasonable(r)
  BY DEF Guests, Table, IsRow
<1>3. e.op = Asks(r).op /\ Asks(r).op \in EngineOps
  BY <1>1 DEF Recorded, Spoke
<1>4. \/ Drains(r) /\ Heard(t) = Heard(h)
      \/ /\ Asks(r) = Intends(r) /\ ~Ended(Intends(r)) /\ e.op # "deferred"
         /\ Heard(h) = h /\ Heard(t) = t
  BY <1>3, HeardNext
<1>5. /\ IsSeq(t) /\ Len(h) \in Nat /\ Len(t) = Len(h) + 1
      /\ DOMAIN h = 1..Len(h) /\ DOMAIN t = 1..Len(h) + 1
      /\ \A i \in 1..Len(h) : t[i] = h[i]
      /\ t[Len(h) + 1] = e
  BY <1>2, Grows
<1>6. Speaks(p, Heard(h), Intends(r)) /\ (Asks(r) = Intends(r) \/ Drains(r))
  BY AsksOrDrains
<1> HIDE DEF t
<1>7. Intends(r)' = Body(p, Heard(t))
  BY <1>1 DEF Intends, t
<1>8. ASSUME NEW i \in DOMAIN t, t[i].op = "defer"
      PROVE  p.w \in DeferGuests /\ t[i].tag = "cleanup"
  <2>1. CASE i \in 1..Len(h)
    BY <1>2, <1>5, <1>8, <2>1 DEF Reasonable
  <2>2. CASE i = Len(h) + 1
    <3>1. Asks(r).op = "defer" /\ t[i].tag = Asks(r).tag
      BY <1>1, <1>3, <1>5, <1>8, <2>2 DEF Recorded
    <3> QED
      BY <1>6, <3>1 DEF Drains, Speaks
  <2> QED
    BY <1>5, <2>1, <2>2
<1>9. GoesBackInTime(p, Heard(t))
  <2>1. CASE Drains(r)
    BY <1>2, <1>4, <2>1 DEF Drains, GoesBackInTime, DeferGuests, Reasonable
  <2>2. CASE ~Drains(r)
    <3> SUFFICES ASSUME p.w = "saga" PROVE Len(t) <= 3 \/ \E i \in 1..3 : t[i].res # "ok"
      BY <1>4, <2>2 DEF GoesBackInTime
    <3>1. Heard(h) = h /\ ~Ended(Saga(p, h))
      BY <1>4, <2>2 DEF Intends, Body
    <3>2. Len(h) <= 3 \/ \E i \in 1..3 : h[i].res # "ok"
      BY <1>2, <3>1 DEF Reasonable, GoesBackInTime
    <3>3. Len(h) = 3 => \E i \in 1..3 : h[i].res # "ok"
      BY <1>2, <3>1, SagaEnds
    <3>4. ASSUME NEW i \in 1..3, i <= Len(h) PROVE i \in 1..Len(h)
      BY <1>5, <3>4
    <3>5. CASE Len(h) < 3
      BY <1>5, <3>5
    <3>6. CASE Len(h) >= 3
      <4>1. PICK i \in 1..3 : h[i].res # "ok"
        <5>1. PICK n : n = Len(h)
          OBVIOUS
        <5>2. n \in Nat /\ n >= 3 /\ (n <= 3 \/ \E i \in 1..3 : h[i].res # "ok")
          BY <1>5, <3>2, <3>6, <5>1
        <5>3. n = 3 => \E i \in 1..3 : h[i].res # "ok"
          BY <3>3, <5>1
        <5>4. n >= 3 /\ n <= 3 /\ n \in Nat => n = 3
          OBVIOUS
        <5> QED
          BY <5>2, <5>3, <5>4
      <4>2. t[i] = h[i]
        BY <1>5, <3>4, <3>6
      <4> QED
        BY <4>1, <4>2
    <3> QED
      BY <1>5, <3>5, <3>6
  <2> QED
    BY <2>1, <2>2
<1>10. Heard(t) # t => p.w \in DeferGuests /\ Ended(Body(p, Heard(t)))
  BY <1>4 DEF Drains, Intends
<1> QED
  BY <1>1, <1>2, <1>7, <1>8, <1>9, <1>10 DEF Reasonable, t

LEMMA KeptReasonably ==
    ASSUME NEW r \in RunIds, Reasonable(r), runs'[r].prog = runs[r].prog, runs'[r].hist = runs[r].hist
    PROVE  Reasonable(r)'
BY DEF Reasonable, Intends

LEMMA BornReasonably ==
    ASSUME GuestsAreThePorts, Guests, NEW q \in RunIds, Born(q) PROVE Reasonable(q)'
<1>1. PICK r \in RunIds : BornOf(q, r)
  BY DEF Born
<1>2. runs[r].status # "absent" /\ Asks(r).op \in {"spawn", "detach", "continue"}
  BY <1>1 DEF BornOf, Segment
<1>3. runs'[q].prog = Asks(r).prog /\ runs'[q].hist = <<>>
  BY <1>1 DEF BornOf, Fresh, Absent
<1>4. IsInput(Asks(r).prog)
  BY <1>2, AsksOrDrains DEF Drains, Speaks
<1>5. IsSeq(<<>>) /\ Len(<<>>) = 0
  BY Tuples
<1>6. DOMAIN <<>> = {}
  BY <1>5, HeardIsPrefix
<1>7. Heard(<<>>) = <<>>
  BY <1>5, HeardIsPrefix
<1> QED
  BY <1>3, <1>4, <1>5, <1>6, <1>7 DEF Reasonable, GoesBackInTime

LEMMA GuestsStep == ASSUME GuestsAreThePorts, Guests, [Next]_vars PROVE Guests'
<1>1. CASE Next
  <2>1. Table'
    BY <1>1, EngineIsQuiet DEF Guests
  <2>2. ASSUME NEW q \in RunIds, runs'[q].status # "absent" PROVE Reasonable(q)'
    <3>1. Evolves(q)
      BY <1>1, EngineRows DEF Guests
    <3>2. CASE Born(q)
      BY <3>2, BornReasonably
    <3>3. CASE Went(q)
      <4>1. Reasonable(q) /\ runs[q].status # "absent" /\ runs'[q].prog = runs[q].prog
        BY <3>3 DEF Went, Keeps, Guests
      <4>2. CASE Spoke(q)
        BY <4>1, <4>2, SpokeReasonably
      <4>3. CASE ~Spoke(q)
        <5>1. runs'[q].hist = runs[q].hist
          BY <3>3, <4>3 DEF Went, Returned, Continued, Swept, Warned, Moved, Keeps
        <5> QED
          BY <4>1, <5>1, KeptReasonably
      <4> QED
        BY <4>2, <4>3
    <3>4. CASE runs'[q] = runs[q]
      BY <2>2, <3>4, KeptReasonably DEF Guests
    <3> QED
      BY <3>1, <3>2, <3>3, <3>4 DEF Evolves
  <2> QED
    BY <2>1, <2>2 DEF Guests
<1>2. CASE UNCHANGED vars
  BY <1>2 DEF vars, Guests, Table, IsRow, Reasonable, Intends
<1> QED
  BY <1>1, <1>2

LEMMA GuestsInit == ASSUME Init PROVE Guests
<1>1. DOMAIN <<>> = {} /\ Heard(<<>>) = <<>> /\ IsSeq(<<>>) /\ Len(<<>>) = 0
  <2>1. IsSeq(<<>>) /\ Len(<<>>) = 0
    BY Tuples
  <2> QED
    BY <2>1, HeardIsPrefix
<1>2. Table
  <2>1. Fields \subseteq DOMAIN Absent /\ Absent.hist = <<>> /\ Absent.status = "absent"
    BY DEF Fields, Absent
  <2>2. ASSUME NEW p PROVE LET x == Fresh(p, 0, "ABANDON", 0)
                           IN Fields \subseteq DOMAIN x /\ x.hist = <<>> /\ x.status = "ready"
    BY DEF Fields, Absent, Fresh
  <2>3. \A r \in RunIds : IsRow(runs[r])
    BY <1>1, <2>1, <2>2 DEF Init, IsRow
  <2> QED
    BY <2>3 DEF Init, Table
<1>3. ASSUME NEW r \in RunIds, runs[r].status # "absent" PROVE Reasonable(r)
  <2>1. r \in DOMAIN scenario.starts /\ scenario \in Scenarios
        /\ runs[r].prog = scenario.starts[r] /\ runs[r].hist = <<>>
    BY <1>3 DEF Init, Fresh, Absent
  <2> QED
    BY <1>1, <2>1, TestsStartGuests DEF Reasonable, GoesBackInTime
<1> QED
  BY <1>2, <1>3 DEF Guests

-----------------------------------------------------------------------------
\* The part of the invariant every theorem below needs.
Sane == Guests /\ Hands /\ IsSeq(log)

LEMMA SaneInit == ASSUME Init PROVE Sane
<1>1. Hands
  BY DEF Init, Hands, Executing, Idle
<1>2. IsSeq(log)
  BY Tuples DEF Init
<1> QED
  BY <1>1, <1>2, GuestsInit DEF Sane

LEMMA SaneStep == ASSUME GuestsAreThePorts, Sane, [Next]_vars PROVE Sane'
<1>1. CASE Next
  BY <1>1, GuestsStep, EngineHands, LogGrows DEF Sane, Guests
<1>2. CASE UNCHANGED vars
  BY <1>2, GuestsStep DEF Sane, vars, Hands, Executing
<1> QED
  BY <1>1, <1>2

\* A run keeps its guest, and a body that has ended stays at its end.
LEMMA RunsStay ==
    ASSUME GuestsAreThePorts, Guests, Next, NEW r \in RunIds, runs[r].status # "absent"
    PROVE  /\ runs'[r].status # "absent"
           /\ runs'[r].prog = runs[r].prog /\ runs'[r].parent = runs[r].parent
           /\ runs'[r].policy = runs[r].policy /\ runs'[r].from = runs[r].from
           /\ Ended(Intends(r)) => Intends(r)' = Intends(r)
           /\ runs[r].status \in Terminal => runs'[r] = runs[r]
<1>1. runs'[r] = runs[r] \/ Went(r)
  BY EngineRows, NewIdIsAbsent DEF Guests, Evolves, Born
<1>2. CASE runs'[r] = runs[r]
  BY <1>2 DEF Intends
<1>3. CASE Went(r)
  <2>1. /\ runs'[r].prog = runs[r].prog /\ runs'[r].parent = runs[r].parent
        /\ runs'[r].policy = runs[r].policy /\ runs'[r].from = runs[r].from
        /\ runs[r].status \notin Terminal
    BY <1>3 DEF Went, Keeps
  <2>2. CASE Spoke(r)
    <3>1. PICK e : e.op = Asks(r).op /\ runs'[r].hist = Append(runs[r].hist, e)
      BY <2>2 DEF Spoke, Recorded
    <3>2. Asks(r).op \in EngineOps /\ runs'[r].status # "absent"
      BY <2>2 DEF Spoke
    <3>3. Ended(Intends(r)) => Heard(runs'[r].hist) = Heard(runs[r].hist)
      BY <3>1, <3>2, HeardNext
    <3>4. Intends(r)' = Body(runs'[r].prog, Heard(runs'[r].hist))
      BY DEF Intends
    <3> QED
      BY <2>1, <3>2, <3>3, <3>4 DEF Intends
  <2>3. CASE ~Spoke(r)
    <3>1. runs'[r].hist = runs[r].hist
      BY <1>3, <2>3 DEF Went, Returned, Continued, Swept, Warned, Moved, Keeps
    <3>2. runs'[r].status # "absent"
      BY <1>3, <2>3 DEF Went, Returned, Continued, Swept, Warned, Moved, Keeps, FinalStatus, Ongoing
    <3> QED
      BY <2>1, <3>1, <3>2 DEF Intends
  <2> QED
    BY <2>2, <2>3
<1> QED
  BY <1>1, <1>2, <1>3

-----------------------------------------------------------------------------
(* Cleanups.                                                               *)

Cleaned ==
    \E r \in RunIds : /\ runs[r].status # "absent" /\ runs[r].prog.w \in DeferGuests
                      /\ Ended(Intends(r))

\* A cleanup in the outbox is one the fixture may receive at any moment.
CleanupInv ==
    /\ Sane
    /\ (\E s \in outbox : s.tag = "cleanup") \/ Received("cleanup") # 0 => Cleaned

LEMMA CleanupStep == ASSUME GuestsAreThePorts, CleanupInv, [Next]_vars PROVE CleanupInv'
<1>1. Sane'
  BY SaneStep DEF CleanupInv
<1>2. CASE Next
  <2> USE <1>2
  <2>1. Sane /\ Guests /\ Hands /\ IsSeq(log)
    BY DEF CleanupInv, Sane
  <2>2. Cleaned => Cleaned'
    <3>1. ASSUME NEW r \in RunIds, runs[r].status # "absent", runs[r].prog.w \in DeferGuests,
                 Ended(Intends(r))
          PROVE  /\ runs'[r].status # "absent" /\ runs'[r].prog.w \in DeferGuests
                 /\ Ended(Intends(r)')
      BY <2>1, <3>1, RunsStay DEF Ended
    <3> QED
      BY <3>1 DEF Cleaned, Ended
  <2>3. ASSUME NEW r \in RunIds, runs[r].status # "absent", Asks(r).tag = "cleanup",
               Asks(r).op \in {"call", "send", "deferred"}
        PROVE  Cleaned
    <3>1. Speaks(runs[r].prog, Heard(runs[r].hist), Intends(r)) /\ (Asks(r) = Intends(r) \/ Drains(r))
      BY <2>1, <2>3, AsksOrDrains
    <3>2. Drains(r)
      BY <2>3, <3>1 DEF Speaks
    <3> QED
      BY <2>3, <3>2 DEF Drains, Cleaned
  <2>4. ASSUME NEW s \in outbox', s.tag = "cleanup" PROVE Cleaned
    <3>1. CASE s \in outbox
      BY <2>4, <3>1 DEF CleanupInv
    <3>2. CASE s \notin outbox
      BY <2>3, <2>4, <3>2, EngineWrites DEF Queues, Segment
    <3> QED
      BY <3>1, <3>2
  <2>5. ASSUME Received("cleanup")' # 0 PROVE Cleaned
    <3>1. CASE Received("cleanup") # 0
      BY <3>1 DEF CleanupInv
    <3>2. ASSUME NEW r \in RunIds, Executing(r), MakeCall(r, Asks(r)), Asks(r).tag = "cleanup"
          PROVE  Cleaned
      <4>1. runs[r].status # "absent" /\ Asks(r).op = "call"
        BY <2>1, <3>2 DEF Hands, MakeCall
      <4> QED
        BY <2>3, <3>2, <4>1
    <3>3. ASSUME NEW s \in outbox, s.tag = "cleanup" PROVE Cleaned
      BY <3>3 DEF CleanupInv
    <3> QED
      BY <2>1, <2>5, <3>1, <3>2, <3>3, LogGrows
  <2> QED
    BY <1>1, <2>2, <2>4, <2>5 DEF CleanupInv
<1>3. CASE UNCHANGED vars
  BY <1>1, <1>3 DEF CleanupInv, vars, Cleaned, Intends, Received, Count
<1> QED
  BY <1>2, <1>3

\* No cleanup reaches the fixture before the body that deferred it has returned, whatever the
\* crashes and replays in between.
THEOREM CleanupComesLast == ASSUME GuestsAreThePorts PROVE Spec => []CleanupWaitsForTheEnd
<1>1. Init => CleanupInv
  <2>1. ASSUME Init PROVE outbox = {} /\ Received("cleanup") = 0
    <3>1. DOMAIN <<>> = {}
      BY Tuples, HeardIsPrefix
    <3>2. {i \in DOMAIN log : log[i] = "cleanup"} = {}
      BY <2>1, <3>1 DEF Init
    <3> QED
      BY <2>1, <3>2, FS_EmptySet DEF Init, Received, Count
  <2> QED
    BY <2>1, SaneInit DEF CleanupInv
<1>2. CleanupInv /\ [Next]_vars => CleanupInv'
  BY CleanupStep
<1>3. CleanupInv => CleanupWaitsForTheEnd
  <2> SUFFICES ASSUME CleanupInv, Received("cleanup") > 0
               PROVE  \E r \in RunIds : /\ Is(r, "defercleanup") \/ Is(r, "deferdeadletter")
                                        /\ Ended(Body(runs[r].prog, Heard(runs[r].hist)))
    BY DEF CleanupWaitsForTheEnd
  <2>1. Received("cleanup") # 0
    OBVIOUS
  <2> QED
    BY <2>1 DEF CleanupInv, Cleaned, Intends, Is, DeferGuests
<1> QED
  BY <1>1, <1>2, <1>3, PTL DEF Spec

-----------------------------------------------------------------------------
(* Parents and children.                                                   *)

\* How a run stands to its parent.
OfItsParent(p, c) ==
    /\ runs[p].status # "absent"
    /\ Is(p, "terminateroot") => runs[c].policy = "TERMINATE"
    /\ Is(p, "cancelawaitingparent") =>
          runs[c].policy = "REQUEST_CANCEL" /\ runs[c].prog.w \in {"cancellable", "childleaf"}
    /\ runs[p].status \in Terminal =>
          /\ Is(p, "terminateroot") => ~Live(c)
          /\ Is(p, "cancelawaitingparent") => (Live(c) => runs[c].cancel)

\* What the policy of a run says of it.
OfItsPolicy(r) ==
    /\ runs[r].parent \in RunIds \cup {0}
    /\ runs[r].prog.w \notin Spawned => runs[r].policy = "ABANDON"
    /\ runs[r].status = "terminated" => runs[r].policy = "TERMINATE"
    /\ runs[r].policy = "REQUEST_CANCEL" =>
          \/ runs[r].prog.w \in {"childsleeper", "childleaf"}
          \/ /\ runs[r].parent \in RunIds /\ runs[runs[r].parent].status # "absent"
             /\ Is(runs[r].parent, "cancelawaitingparent")

Families ==
    \A c \in RunIds : runs[c].status # "absent" =>
        /\ OfItsPolicy(c)
        /\ \A p \in RunIds : runs[c].parent = p => OfItsParent(p, c)

\* A row that was in use: what the step can have changed of it.
LEMMA RowsChange ==
    ASSUME GuestsAreThePorts, Guests, Next, NEW r \in RunIds, runs[r].status # "absent"
    PROVE  /\ runs[r].cancel => runs'[r].cancel
           /\ runs'[r].status \in Terminal /\ runs[r].status \notin Terminal =>
                 Returned(r) \/ Continued(r) \/ Swept(r)
           /\ runs'[r].status = "terminated" /\ runs[r].status # "terminated" => Swept(r)
<1>1. runs'[r] = runs[r] \/ Went(r)
  BY EngineRows, NewIdIsAbsent DEF Guests, Evolves, Born
<1>2. ASSUME Went(r), Spoke(r) \/ Moved(r)
      PROVE  runs'[r].cancel = runs[r].cancel /\ runs'[r].status \notin Terminal
  BY <1>2 DEF Spoke, Moved, Keeps, Terminal, Ongoing
<1>3. ASSUME Went(r), Returned(r) \/ Continued(r)
      PROVE  runs'[r].cancel = runs[r].cancel /\ runs'[r].status # "terminated"
  BY <1>3 DEF Returned, Continued, FinalStatus, Keeps
<1>4. ASSUME Went(r), Swept(r) PROVE runs'[r].cancel = runs[r].cancel
  BY <1>4 DEF Swept, Keeps
<1>5. ASSUME Went(r), Warned(r) PROVE runs'[r].cancel /\ runs'[r].status = runs[r].status
  BY <1>5 DEF Warned, Keeps
<1>6. CASE Went(r)
  <2>1. Spoke(r) \/ Returned(r) \/ Continued(r) \/ Swept(r) \/ Warned(r) \/ Moved(r)
    BY <1>6 DEF Went
  <2> QED
    BY <1>2, <1>3, <1>4, <1>5, <1>6, <2>1 DEF Terminal
<1> QED
  BY <1>1, <1>6

\* A row that was not: where it comes from.
LEMMA BornFrom ==
    ASSUME GuestsAreThePorts, Guests, Next, NEW c \in RunIds,
           runs[c].status = "absent", runs'[c].status # "absent"
    PROVE  \E r \in RunIds :
              /\ r # c /\ runs[r].status = "running" /\ Executing(r)
              /\ runs'[c].status = "ready" /\ runs'[c].hist = <<>>
              /\ ~runs'[c].cancel /\ runs'[c].result = "none"
              /\ \/ /\ runs'[c].parent = r /\ runs'[c].prog.w \in Spawned
                    /\ Declares(runs[r].prog, [prog |-> runs'[c].prog, policy |-> runs'[c].policy])
                    /\ runs'[r] = runs[r]
                 \/ runs'[c].parent = 0 /\ runs'[c].policy = "ABANDON"
                 \/ /\ runs'[c].parent = runs[r].parent /\ runs'[c].policy = runs[r].policy
                    /\ runs'[c].prog.w = runs[r].prog.w
                    /\ runs[r].prog.w \in {"continueasnew", "casnchild"}
                    /\ runs'[r].status = "done"
<1>1. Born(c)
  BY EngineRows DEF Guests, Evolves, Went
<1>2. PICK r \in RunIds : BornOf(c, r)
  BY <1>1 DEF Born
<1>3. runs[r].status = "running" /\ Executing(r) /\ r # c
  BY <1>2 DEF BornOf, Segment
<1>4. /\ Speaks(runs[r].prog, Heard(runs[r].hist), Intends(r))
      /\ Asks(r) = Intends(r) \/ Asks(r).op = "deferred"
  BY <1>3, AsksOrDrains DEF Drains
<1>5. \A p, parent, policy, from :
         LET x == Fresh(p, parent, policy, from)
         IN /\ x.prog = p /\ x.status = "ready" /\ x.hist = <<>> /\ x.parent = parent
            /\ x.policy = policy /\ x.from = from /\ ~x.cancel /\ x.result = "none"
  BY DEF Fresh, Absent
<1>6. CASE Asks(r).op = "spawn"
  <2>1. runs'[c] = Fresh(Asks(r).prog, r, Asks(r).policy, 0) /\ runs'[r] = runs[r]
    BY <1>2, <1>6 DEF BornOf
  <2>2. Asks(r).prog.w \in Spawned /\ Declares(runs[r].prog, Asks(r))
    BY <1>4, <1>6 DEF Speaks
  <2>3. Declares(runs[r].prog, [prog |-> Asks(r).prog, policy |-> Asks(r).policy])
    BY <2>2 DEF Declares
  <2> QED
    BY <1>3, <1>5, <2>1, <2>2, <2>3
<1>7. CASE Asks(r).op = "detach"
  <2>1. runs'[c] = Fresh(Asks(r).prog, 0, "ABANDON", 0)
    BY <1>2, <1>7 DEF BornOf
  <2> QED
    BY <1>3, <1>5, <2>1
<1>8. CASE Asks(r).op = "continue"
  <2>1. runs'[c] = Fresh(Asks(r).prog, runs[r].parent, runs[r].policy, First(r))
        /\ runs'[r].status = "done"
    BY <1>2, <1>8 DEF BornOf
  <2>2. runs[r].prog.w \in {"continueasnew", "casnchild"} /\ Asks(r).prog.w = runs[r].prog.w
    BY <1>4, <1>8 DEF Speaks
  <2> QED
    BY <1>3, <1>5, <2>1, <2>2
<1> QED
  BY <1>2, <1>6, <1>7, <1>8 DEF BornOf

LEMMA FamiliesStep ==
    ASSUME GuestsAreThePorts, Guests, Families, Next PROVE Families'
<1> USE DEF Is, Live
\* A parent of the two kinds that has closed has returned, and told its children.
<1>1. ASSUME NEW p \in RunIds, runs[p].status # "absent",
             Is(p, "terminateroot") \/ Is(p, "cancelawaitingparent"),
             runs[p].status \notin Terminal, runs'[p].status \in Terminal,
             NEW c \in RunIds, runs[c].status # "absent", runs[c].parent = p, Live(c)
      PROVE  /\ runs[c].policy = "REQUEST_CANCEL" => runs'[c].cancel
             /\ runs[c].policy = "TERMINATE" => runs'[c].status = "terminated"
  <2>1. runs[p].policy = "ABANDON"
    BY <1>1 DEF Families, OfItsPolicy, Spawned
  <2>2. ~Swept(p)
    BY <2>1 DEF Swept
  <2>3. ~Continued(p)
    BY <1>1, AsksOrDrains DEF Continued, Speaks, Drains
  <2>4. Returned(p)
    BY <1>1, <2>2, <2>3, RowsChange
  <2>5. c # p
    BY <1>1, <2>1 DEF Families, OfItsParent
  <2> QED
    BY <1>1, <2>4, <2>5 DEF Returned
<1>2. ASSUME NEW c \in RunIds, runs[c].status # "absent",
             NEW p \in RunIds, runs[c].parent = p
      PROVE  OfItsParent(p, c)'
  <2>1. OfItsParent(p, c)
    BY <1>2 DEF Families
  <2>2. /\ runs'[p].status # "absent" /\ runs'[p].prog = runs[p].prog
        /\ runs'[c].status # "absent" /\ runs'[c].prog = runs[c].prog
        /\ runs'[c].policy = runs[c].policy
        /\ runs[c].status \in Terminal => runs'[c] = runs[c]
        /\ runs[c].cancel => runs'[c].cancel
    BY <1>2, <2>1, RunsStay, RowsChange DEF OfItsParent
  <2>3. CASE runs'[p].status \notin Terminal
    BY <2>1, <2>2, <2>3 DEF OfItsParent
  <2>4. CASE runs[p].status \in Terminal
    <3>1. CASE Live(c)
      BY <2>1, <2>2, <2>4, <3>1 DEF OfItsParent
    <3>2. CASE ~Live(c)
      BY <1>2, <2>1, <2>2, <2>4, <3>2 DEF OfItsParent
    <3> QED
      BY <3>1, <3>2
  <2>5. CASE runs[p].status \notin Terminal /\ runs'[p].status \in Terminal
    <3>1. CASE Live(c)
      BY <1>1, <1>2, <2>1, <2>2, <2>5, <3>1 DEF OfItsParent, Terminal
    <3>2. CASE ~Live(c)
      BY <1>2, <2>1, <2>2, <3>2 DEF OfItsParent
    <3> QED
      BY <3>1, <3>2
  <2> QED
    BY <2>3, <2>4, <2>5
<1>3. ASSUME NEW c \in RunIds, runs[c].status # "absent" PROVE OfItsPolicy(c)'
  <2>1. OfItsPolicy(c)
    BY <1>3 DEF Families
  <2>2. /\ runs'[c].prog = runs[c].prog /\ runs'[c].policy = runs[c].policy
        /\ runs'[c].parent = runs[c].parent
        /\ runs'[c].status = "terminated" => runs[c].status = "terminated" \/ Swept(c)
    BY <1>3, RunsStay, RowsChange
  <2>3. runs[c].parent \in RunIds /\ runs[runs[c].parent].status # "absent" =>
           /\ runs'[runs[c].parent].status # "absent"
           /\ runs'[runs[c].parent].prog = runs[runs[c].parent].prog
    BY RunsStay
  <2> QED
    BY <2>1, <2>2, <2>3 DEF OfItsPolicy, Swept
<1>4. ASSUME NEW c \in RunIds, runs[c].status = "absent", runs'[c].status # "absent",
             NEW r \in RunIds, r # c, runs[r].status = "running",
             runs'[c].parent = r, runs'[c].prog.w \in Spawned, runs'[c].status = "ready",
             Declares(runs[r].prog, [prog |-> runs'[c].prog, policy |-> runs'[c].policy]),
             runs'[r] = runs[r]
      PROVE  OfItsPolicy(c)' /\ \A p \in RunIds : runs'[c].parent = p => OfItsParent(p, c)'
  BY <1>4 DEF OfItsPolicy, OfItsParent, Declares, Terminal
<1>5. ASSUME NEW c \in RunIds, runs[c].status = "absent", runs'[c].status = "ready",
             runs'[c].parent = 0, runs'[c].policy = "ABANDON"
      PROVE  OfItsPolicy(c)' /\ \A p \in RunIds : runs'[c].parent = p => OfItsParent(p, c)'
  BY <1>5, RunIdsAreNumbers DEF OfItsPolicy
<1>6. ASSUME NEW c \in RunIds, runs[c].status = "absent", runs'[c].status = "ready",
             NEW r \in RunIds, r # c, runs[r].status = "running",
             runs'[c].parent = runs[r].parent, runs'[c].policy = runs[r].policy,
             runs'[c].prog.w = runs[r].prog.w,
             runs[r].prog.w \in {"continueasnew", "casnchild"}, runs'[r].status = "done"
      PROVE  OfItsPolicy(c)' /\ \A p \in RunIds : runs'[c].parent = p => OfItsParent(p, c)'
  <2>1. OfItsPolicy(r)' /\ runs'[r].prog = runs[r].prog /\ runs'[r].policy = runs[r].policy
        /\ runs'[r].parent = runs[r].parent
    BY <1>3, <1>6, RunsStay
  <2>2. OfItsPolicy(c)'
    BY <1>6, <2>1 DEF OfItsPolicy
  <2>3. ASSUME NEW p \in RunIds, runs[r].parent = p PROVE OfItsParent(p, c)'
    <3>1. OfItsParent(p, r) /\ Live(r)
      BY <1>6, <2>3 DEF Families, Terminal
    <3>2. /\ runs'[p].status # "absent" /\ runs'[p].prog = runs[p].prog
          /\ runs[p].status \in Terminal => runs'[p] = runs[p]
      BY <3>1, RunsStay DEF OfItsParent
    <3>3. ~Is(p, "cancelawaitingparent")
      BY <1>6, <3>1 DEF OfItsParent
    <3>4. ASSUME Is(p, "terminateroot") PROVE runs'[p].status \notin Terminal
      <4>1. runs[r].policy = "TERMINATE" /\ runs[p].status \notin Terminal
        BY <3>1, <3>4 DEF OfItsParent
      <4>2. ASSUME runs'[p].status \in Terminal PROVE FALSE
        <5>1. runs'[r].status = "terminated"
          BY <1>1, <1>6, <2>3, <3>1, <3>4, <4>1, <4>2 DEF OfItsParent
        <5> QED
          BY <1>6, <5>1
      <4> QED
        BY <4>2
    <3> QED
      BY <1>6, <3>1, <3>2, <3>3, <3>4 DEF OfItsParent
  <2> QED
    BY <1>6, <2>2, <2>3
<1>7. ASSUME NEW c \in RunIds, runs'[c].status # "absent"
      PROVE  OfItsPolicy(c)' /\ \A p \in RunIds : runs'[c].parent = p => OfItsParent(p, c)'
  <2>1. CASE runs[c].status = "absent"
    <3>1. PICK r \in RunIds :
              /\ r # c /\ runs[r].status = "running"
              /\ runs'[c].status = "ready"
              /\ \/ /\ runs'[c].parent = r /\ runs'[c].prog.w \in Spawned
                    /\ Declares(runs[r].prog, [prog |-> runs'[c].prog, policy |-> runs'[c].policy])
                    /\ runs'[r] = runs[r]
                 \/ runs'[c].parent = 0 /\ runs'[c].policy = "ABANDON"
                 \/ /\ runs'[c].parent = runs[r].parent /\ runs'[c].policy = runs[r].policy
                    /\ runs'[c].prog.w = runs[r].prog.w
                    /\ runs[r].prog.w \in {"continueasnew", "casnchild"}
                    /\ runs'[r].status = "done"
      BY <1>7, <2>1, BornFrom
    <3>2. CASE /\ runs'[c].parent = r /\ runs'[c].prog.w \in Spawned
               /\ Declares(runs[r].prog, [prog |-> runs'[c].prog, policy |-> runs'[c].policy])
               /\ runs'[r] = runs[r]
      BY <1>4, <1>7, <2>1, <3>1, <3>2
    <3>3. CASE runs'[c].parent = 0 /\ runs'[c].policy = "ABANDON"
      BY <1>5, <2>1, <3>1, <3>3
    <3>4. CASE /\ runs'[c].parent = runs[r].parent /\ runs'[c].policy = runs[r].policy
               /\ runs'[c].prog.w = runs[r].prog.w
               /\ runs[r].prog.w \in {"continueasnew", "casnchild"}
               /\ runs'[r].status = "done"
      BY <1>6, <2>1, <3>1, <3>4
    <3> QED
      BY <3>1, <3>2, <3>3, <3>4
  <2>2. CASE runs[c].status # "absent"
    BY <1>2, <1>3, <2>2, RunsStay
  <2> QED
    BY <2>1, <2>2
<1> QED
  BY <1>7 DEF Families

FamilyInv == Sane /\ Families

LEMMA FamilyInit == ASSUME Init PROVE FamilyInv
<1>1. ASSUME NEW r \in RunIds, runs[r].status # "absent"
      PROVE  runs[r].policy = "ABANDON" /\ runs[r].parent = 0 /\ runs[r].status = "ready"
  BY <1>1 DEF Init, Fresh, Absent
<1>2. Families
  BY <1>1, RunIdsAreNumbers DEF Families, OfItsPolicy
<1> QED
  BY <1>2, SaneInit DEF FamilyInv

LEMMA FamilyStep == ASSUME GuestsAreThePorts, FamilyInv, [Next]_vars PROVE FamilyInv'
<1>1. CASE Next
  BY <1>1, SaneStep, FamiliesStep DEF FamilyInv, Sane
<1>2. CASE UNCHANGED vars
  BY <1>2, SaneStep DEF FamilyInv, Families, OfItsPolicy, OfItsParent, vars, Is, Live
<1> QED
  BY <1>1, <1>2

\* A root that has closed has left no leaf running, and a parent that asked for it has told its
\* children to stop: those whose spawn a crash kept from its history too.
THEOREM NothingIsLeftRunning ==
    ASSUME GuestsAreThePorts PROVE Spec => []ClosedParentsLeaveNothingRunning
<1>1. FamilyInv => ClosedParentsLeaveNothingRunning
  BY DEF FamilyInv, Families, OfItsParent, ClosedParentsLeaveNothingRunning, Live
<1>2. FamilyInv /\ [Next]_vars => FamilyInv'
  BY FamilyStep
<1> QED
  BY <1>1, <1>2, FamilyInit, PTL DEF Spec

-----------------------------------------------------------------------------
(* Cancels.                                                                *)

\* bulkcancel: step one, the polls, step two.
LEMMA BulkBody ==
    ASSUME NEW p, IsInput(p), p.w = "bulkcancel", NEW h, IsSeq(h)
    PROVE  LET b == BulkCancel(p, h)
           IN /\ p.slices \in Nat
              /\ b.op = "call" /\ b.tag = "two" =>
                    b = Call("two") /\ Len(h) = 2 * p.slices + 1 /\ ~Observed(h)
              /\ Len(h) >= 2 * p.slices + 2 => Ended(b)
<1> DEFINE s == p.slices
           loop == PollLoop(s)
           front == <<Call("one")>> \o loop
           calls == front \o <<Call("two")>>
           n == 2 * s
<1>1. s \in Nat /\ n \in Nat /\ Len(h) \in Nat
  BY LenProperties DEF IsInput, IsSeq
<1>2. IsSeq(loop) /\ Len(loop) = n /\ \A i \in 1..n : loop[i] \in {Poll, Sleep}
  BY <1>1, PollLoopSpeaks DEF AllSpeak
<1>3. /\ IsSeq(front) /\ Len(front) = n + 1
      /\ \A i \in 1..n + 1 : front[i] \in {Call("one"), Poll, Sleep}
  <2>1. IsSeq(<<Call("one")>>) /\ Len(<<Call("one")>>) = 1 /\ <<Call("one")>>[1] = Call("one")
    BY Tuples
  <2>2. /\ IsSeq(front) /\ Len(front) = 1 + n
        /\ \A i \in 1..1 + n : front[i] = IF i <= 1 THEN <<Call("one")>>[i] ELSE loop[i - 1]
    <3> DEFINE a == <<Call("one")>>
    <3>1. a \o loop = front /\ IsSeq(a) /\ Len(a) = 1 /\ IsSeq(loop) /\ Len(loop) = n
      BY <1>2, <2>1
    <3> HIDE DEF loop, a, front
    <3>2. /\ IsSeq(front) /\ Len(front) = Len(a) + Len(loop)
          /\ \A i \in 1..Len(front) : front[i] = IF i <= Len(a) THEN a[i] ELSE loop[i - Len(a)]
      BY <3>1, Joins
    <3> QED
      BY <3>1, <3>2 DEF a
  <2>3. ASSUME NEW i \in 1..n + 1 PROVE front[i] \in {Call("one"), Poll, Sleep}
    <3>1. CASE i <= 1
      <4>1. i = 1
        BY <1>1, <3>1
      <4> QED
        BY <1>1, <2>1, <2>2, <4>1
    <3>2. CASE ~(i <= 1)
      <4>1. i - 1 \in 1..n /\ i \in 1..1 + n
        BY <1>1, <3>2
      <4>2. front[i] = loop[i - 1]
        BY <2>2, <3>2, <4>1
      <4>3. loop[i - 1] \in {Poll, Sleep}
        BY <1>2, <4>1
      <4> QED
        BY <4>2, <4>3
    <3> QED
      BY <3>1, <3>2
  <2> QED
    BY <1>1, <2>2, <2>3
<1>4. /\ IsSeq(calls) /\ Len(calls) = n + 2
      /\ \A i \in 1..n + 1 : calls[i] \in {Call("one"), Poll, Sleep}
      /\ calls[n + 2] = Call("two")
  <2>1. IsSeq(<<Call("two")>>) /\ Len(<<Call("two")>>) = 1 /\ <<Call("two")>>[1] = Call("two")
    BY Tuples
  <2>2. /\ IsSeq(calls) /\ Len(calls) = n + 2
        /\ \A i \in 1..n + 2 :
              calls[i] = IF i <= n + 1 THEN front[i] ELSE <<Call("two")>>[i - (n + 1)]
    <3> HIDE DEF front
    <3>1. /\ IsSeq(calls) /\ Len(calls) = Len(front) + 1
          /\ \A i \in 1..Len(calls) :
                calls[i] = IF i <= Len(front) THEN front[i] ELSE <<Call("two")>>[i - Len(front)]
      BY <1>3, <2>1, Joins
    <3>2. Len(front) + 1 = n + 2
      BY <1>1, <1>3
    <3> HIDE DEF calls, n
    <3> QED
      BY <1>3, <3>1, <3>2
  <2>3. \A i \in 1..n + 1 : i \in 1..n + 2 /\ i <= n + 1
    BY <1>1
  <2>4. n + 2 \in 1..n + 2 /\ ~(n + 2 <= n + 1) /\ (n + 2) - (n + 1) = 1
    BY <1>1
  <2> HIDE DEF calls, front, n
  <2> QED
    BY <1>3, <2>1, <2>2, <2>3, <2>4
<1> HIDE DEF calls
<1>5. \/ BulkCancel(p, h) \in {Return("cancelled"), Return("step_failed")}
      \/ ~Observed(h) /\ BulkCancel(p, h) = Script(calls, Return("completed"), h)
  <2>1. BulkCancel(p, h) = CASE Observed(h) -> Return("cancelled")
                             [] Failed(h)   -> Return("step_failed")
                             [] OTHER       -> Script(calls, Return("completed"), h)
    BY DEF BulkCancel, calls
  <2>2. PICK x, y, z : x = Return("cancelled") /\ y = Return("step_failed")
                       /\ z = Script(calls, Return("completed"), h)
    OBVIOUS
  <2>3. BulkCancel(p, h) = CASE Observed(h) -> x [] Failed(h) -> y [] OTHER -> z
    BY <2>1, <2>2
  <2>4. BulkCancel(p, h) \in {x, y} \/ (~Observed(h) /\ BulkCancel(p, h) = z)
    BY <2>3
  <2> QED
    BY <2>2, <2>4
<1>6. \A outcome : Ended(Return(outcome)) /\ Return(outcome).op # "call"
  BY DEF Ended, Return
<1>7. CASE BulkCancel(p, h) \in {Return("cancelled"), Return("step_failed")}
  BY <1>1, <1>6, <1>7
<1>8. CASE ~Observed(h) /\ BulkCancel(p, h) = Script(calls, Return("completed"), h)
  <2>1. CASE Len(h) >= n + 2
    <3>1. Script(calls, Return("completed"), h) = Return("completed")
      BY <1>1, <1>4, <2>1 DEF Script
    <3> QED
      BY <1>1, <1>6, <1>8, <2>1, <3>1
  <2>2. CASE Len(h) = n + 1
    <3>1. Script(calls, Return("completed"), h) = Call("two")
      <4>1. Len(h) < Len(calls) /\ Len(h) + 1 = n + 2
        BY <1>1, <1>4, <2>2
      <4> QED
        BY <1>4, <4>1 DEF Script
    <3>2. ~(Len(h) >= n + 2)
      BY <1>1, <2>2
    <3> QED
      BY <1>1, <1>8, <2>2, <3>1, <3>2
  <2>3. CASE Len(h) < n + 1
    <3>1. Script(calls, Return("completed"), h) \in {Call("one"), Poll, Sleep}
      <4>1. Len(h) < Len(calls) /\ Len(h) + 1 \in 1..n + 1
        BY <1>1, <1>4, <2>3
      <4> QED
        BY <1>4, <4>1 DEF Script
    <3>2. ~(BulkCancel(p, h).op = "call" /\ BulkCancel(p, h).tag = "two")
      BY <1>8, <3>1 DEF Call, CallRetrying, Poll, Sleep, SleepFor
    <3> QED
      BY <1>1, <2>3, <3>2
  <2> QED
    BY <1>1, <2>1, <2>2, <2>3
<1> QED
  BY <1>5, <1>7, <1>8

\* Step two of r: recorded; and requested, with the answer in the worker's hands.
Did(r) == \E i \in DOMAIN runs[r].hist :
             runs[r].hist[i].op = "call" /\ runs[r].hist[i].tag = "two"

Doing(r) == exec[r].spent # 0 /\ Asks(r).op = "call" /\ Asks(r).tag = "two"

Doers == {r \in RunIds : runs[r].status # "absent" /\ (Did(r) \/ Doing(r))}

\* Who was cancelled, who noticed and who says so.
Aimed(r) ==
    \/ r \in cancels
    \/ runs[r].parent # 0 /\ Is(runs[r].parent, "cancelawaitingparent")

Cancelled(r) ==
    /\ runs[r].cancel => r \in cancels \/ runs[r].policy = "REQUEST_CANCEL"
    /\ \A i \in DOMAIN runs[r].hist : runs[r].hist[i].res = "cancelled" => runs[r].cancel
    /\ runs[r].status \notin Terminal => runs[r].result = "none"
    /\ runs[r].result = "cancelled" => Aimed(r)

\* A run that is past step two has not observed a cancel, and has nothing left to do.
PastStepTwo(r) ==
    /\ Did(r) =>
          /\ Is(r, "bulkcancel")
          /\ Len(runs[r].hist) = 2 * runs[r].prog.slices + 2
          /\ ~Observed(runs[r].hist)
          /\ runs[r].result # "cancelled"
    /\ Doing(r) => exec[r].got # "none"

Stops == \A r \in RunIds : runs[r].status # "absent" => Cancelled(r) /\ PastStepTwo(r)

LEMMA StepTwoIsBulk ==
    ASSUME GuestsAreThePorts, Sane, NEW r \in RunIds, runs[r].status # "absent",
           Asks(r).op = "call", Asks(r).tag = "two"
    PROVE  /\ Is(r, "bulkcancel") /\ Heard(runs[r].hist) = runs[r].hist
           /\ Asks(r) = Call("two") /\ ~Observed(runs[r].hist)
           /\ Len(runs[r].hist) = 2 * runs[r].prog.slices + 1 /\ runs[r].prog.slices \in Nat
<1>1. Speaks(runs[r].prog, Heard(runs[r].hist), Intends(r)) /\ Asks(r) = Intends(r)
  BY AsksOrDrains DEF Sane, Drains
<1>2. Is(r, "bulkcancel")
  BY <1>1 DEF Speaks, Is
<1>3. Reasonable(r) /\ IsSeq(runs[r].hist)
  BY DEF Sane, Guests, Table, IsRow
<1>4. Heard(runs[r].hist) = runs[r].hist
  BY <1>2, <1>3 DEF Reasonable, DeferGuests, Is
<1>5. Intends(r) = BulkCancel(runs[r].prog, runs[r].hist)
  BY <1>2, <1>4 DEF Intends, Body, Is
<1> QED
  BY <1>1, <1>2, <1>3, <1>4, <1>5, BulkBody DEF Is, Reasonable

LEMMA StepTwoIsLast ==
    ASSUME GuestsAreThePorts, Sane, NEW r \in RunIds, runs[r].status # "absent",
           PastStepTwo(r), Did(r)
    PROVE  Asks(r).op \in {"return", "fail"} /\ Heard(runs[r].hist) = runs[r].hist
<1>1. Asks(r) = Intends(r) \/ Drains(r)
  BY AsksOrDrains DEF Sane
<1>2. Reasonable(r) /\ IsSeq(runs[r].hist) /\ Is(r, "bulkcancel")
  BY DEF Sane, Guests, Table, IsRow, PastStepTwo
<1>3. Heard(runs[r].hist) = runs[r].hist /\ ~Drains(r)
  BY <1>2 DEF Reasonable, DeferGuests, Is, Drains
<1>4. Intends(r) = BulkCancel(runs[r].prog, runs[r].hist)
  BY <1>2, <1>3 DEF Intends, Body, Is
<1>5. Len(runs[r].hist) >= 2 * runs[r].prog.slices + 2
  <2>1. runs[r].prog.slices \in Nat
    BY <1>2 DEF Reasonable, IsInput, Is
  <2> QED
    BY <2>1 DEF PastStepTwo
<1>6. Ended(Intends(r))
  BY <1>2, <1>4, <1>5, BulkBody DEF Reasonable, Is
<1> QED
  BY <1>1, <1>3, <1>6 DEF Ended

\* A run terminated under its worker is no bulkcancel: nobody starts one under a policy.
LEMMA BulkIsNotSwept ==
    ASSUME Sane, Families, NEW r \in RunIds, runs[r].status # "absent", Is(r, "bulkcancel")
    PROVE  runs[r].status # "terminated"
BY DEF Families, OfItsPolicy, Spawned, Is

LEMMA CancelledStep ==
    ASSUME GuestsAreThePorts, Sane, Families, Next, NEW r \in RunIds,
           runs[r].status # "absent", Cancelled(r)
    PROVE  Cancelled(r)'
<1> DEFINE h == runs[r].hist
<1>1. /\ runs'[r].status # "absent" /\ runs'[r].prog = runs[r].prog
      /\ runs'[r].parent = runs[r].parent /\ runs'[r].policy = runs[r].policy
      /\ runs[r].cancel => runs'[r].cancel
      /\ cancels \subseteq cancels'
  BY RunsStay, RowsChange, CancelsGrow DEF Sane
<1>2. Aimed(r) => Aimed(r)'
  <2>1. ASSUME runs[r].parent # 0, Is(runs[r].parent, "cancelawaitingparent")
        PROVE  Is(runs[r].parent, "cancelawaitingparent")'
    <3>1. PICK p : p = runs[r].parent
      OBVIOUS
    <3>2. p \in RunIds /\ runs[p].status # "absent"
      BY <2>1, <3>1 DEF Families, OfItsPolicy, OfItsParent
    <3> QED
      BY <1>1, <2>1, <3>1, <3>2, RunsStay DEF Sane, Is
  <2> QED
    BY <1>1, <2>1 DEF Aimed
<1>3. runs'[r] = runs[r] \/ Went(r)
  BY EngineRows, NewIdIsAbsent DEF Sane, Guests, Evolves, Born
<1>4. IsSeq(h) /\ DOMAIN h = 1..Len(h)
  <2>1. IsSeq(h)
    BY DEF Sane, Guests, Table, IsRow
  <2> QED
    BY <2>1, HeardIsPrefix
<1>5. CASE runs'[r] = runs[r]
  BY <1>1, <1>2, <1>5 DEF Cancelled
<1>6. ASSUME Went(r), Spoke(r) PROVE Cancelled(r)'
  <2>1. PICK e : Recorded(r, Asks(r), e) /\ runs'[r].hist = Append(h, e)
    BY <1>6 DEF Spoke
  <2>2. Keeps(r, {"cancel", "result"}) /\ runs[r].status = "running" /\ Asks(r).op \in EngineOps
    BY <1>6 DEF Spoke, Segment
  <2>3. runs'[r].cancel = runs[r].cancel /\ runs'[r].result = runs[r].result
    BY <2>2 DEF Keeps
  <2>4. e.res = "cancelled" => runs[r].cancel
    <3>1. exec[r].got # "cancelled"
      BY DEF Sane, Hands
    <3> QED
      BY <2>1, <3>1 DEF Recorded
  <2>5. ASSUME NEW i \in DOMAIN runs'[r].hist, runs'[r].hist[i].res = "cancelled"
        PROVE  runs[r].cancel
    <3>1. (i \in DOMAIN h /\ runs'[r].hist[i] = h[i]) \/ runs'[r].hist[i] = e
      BY <1>4, <2>1, Grows
    <3> QED
      BY <2>4, <2>5, <3>1 DEF Cancelled
  <2>6. runs[r].result = "none"
    BY <2>2 DEF Cancelled, Terminal
  <2> QED
    BY <1>1, <2>3, <2>5, <2>6 DEF Cancelled
<1>7. ASSUME Went(r), Returned(r) PROVE Cancelled(r)'
  <2>1. runs'[r].cancel = runs[r].cancel /\ runs'[r].hist = h /\ Executing(r)
    BY <1>7 DEF Returned, Keeps, Segment
  <2>2. runs'[r].status \in Terminal
    BY <1>7 DEF Returned, FinalStatus, Terminal
  <2>3. ASSUME runs'[r].result = "cancelled" PROVE Aimed(r)
    <3>1. Asks(r).op = "return" /\ Asks(r).outcome = "cancelled"
      BY <1>7, <2>3 DEF Returned
    <3>2. Observed(Heard(h)) /\ runs[r].prog.w \in {"cancellable", "bulkcancel"}
      BY <3>1, AsksOrDrains DEF Sane, Drains, Speaks
    <3>3. runs[r].cancel
      <4>1. PICK i \in DOMAIN Heard(h) : Heard(h)[i].res = "cancelled"
        BY <3>2 DEF Observed
      <4>2. i \in DOMAIN h /\ h[i].res = "cancelled"
        BY <1>4, <4>1, HeardIsPrefix
      <4> QED
        BY <4>2 DEF Cancelled
    <3>4. r \in cancels \/ runs[r].policy = "REQUEST_CANCEL"
      BY <3>3 DEF Cancelled
    <3>5. ASSUME runs[r].policy = "REQUEST_CANCEL" PROVE Aimed(r)
      BY <3>2, <3>5, RunIdsAreNumbers DEF Families, OfItsPolicy, Aimed
    <3> QED
      BY <3>4, <3>5 DEF Aimed
  <2> QED
    BY <1>1, <1>2, <2>1, <2>2, <2>3 DEF Cancelled
<1>8. ASSUME Went(r), Continued(r) PROVE Cancelled(r)'
  BY <1>1, <1>2, <1>8 DEF Continued, Keeps, Cancelled, Terminal
<1>9. ASSUME Went(r), Swept(r) \/ Moved(r) PROVE Cancelled(r)'
  <2>1. Keeps(r, {"hist", "cancel", "result"}) /\ runs[r].status \notin Terminal
    BY <1>9 DEF Went, Swept, Moved
  <2> QED
    BY <1>1, <1>2, <2>1 DEF Keeps, Cancelled
<1>10. ASSUME Went(r), Warned(r) PROVE Cancelled(r)'
  BY <1>1, <1>2, <1>10 DEF Warned, Keeps, Cancelled
<1> QED
  BY <1>3, <1>5, <1>6, <1>7, <1>8, <1>9, <1>10 DEF Went

LEMMA PastStepTwoStep ==
    ASSUME GuestsAreThePorts, Sane, Families, Spends, Next, NEW r \in RunIds,
           runs[r].status # "absent", Cancelled(r), PastStepTwo(r)
    PROVE  PastStepTwo(r)'
<1> DEFINE h == runs[r].hist
           n == 2 * runs[r].prog.slices
<1>1. runs'[r].prog = runs[r].prog /\ runs'[r].status # "absent"
  BY RunsStay DEF Sane
<1>2. runs'[r] = runs[r] \/ Went(r)
  BY EngineRows, NewIdIsAbsent DEF Sane, Guests, Evolves, Born
<1>3. IsSeq(h)
  BY DEF Sane, Guests, Table, IsRow
<1>4. ASSUME Did(r)
      PROVE  runs'[r].hist = h /\ runs'[r].result # "cancelled"
  <2>1. Asks(r).op \in {"return", "fail"} /\ Heard(h) = h
    BY <1>4, StepTwoIsLast
  <2>2. ~Spoke(r) /\ ~Continued(r)
    BY <2>1 DEF Spoke, Continued, EngineOps
  <2>3. runs[r].result # "cancelled" /\ ~Observed(h)
    BY <1>4 DEF PastStepTwo
  <2>4. CASE Returned(r)
    <3>1. runs'[r].hist = h
      BY <2>4 DEF Returned, Keeps
    <3>2. ASSUME runs'[r].result = "cancelled" PROVE FALSE
      <4>1. Asks(r).op = "return" /\ Asks(r).outcome = "cancelled" /\ Executing(r)
        BY <2>4, <3>2 DEF Returned, Segment
      <4>2. Observed(Heard(h))
        BY <4>1, AsksOrDrains DEF Sane, Speaks, Drains
      <4> QED
        BY <2>1, <2>3, <4>2
    <3> QED
      BY <3>1, <3>2
  <2>5. CASE runs'[r] = runs[r] \/ Swept(r) \/ Warned(r) \/ Moved(r)
    BY <2>3, <2>5 DEF Swept, Warned, Moved, Keeps
  <2> QED
    BY <1>2, <2>2, <2>4, <2>5 DEF Went
<1>5. ASSUME ~Did(r), Did(r)'
      PROVE  /\ Is(r, "bulkcancel") /\ runs[r].prog.slices \in Nat
             /\ Len(runs'[r].hist) = n + 2
             /\ ~Observed(runs'[r].hist) /\ runs'[r].result # "cancelled"
  <2>1. runs'[r].hist # h
    BY <1>5 DEF Did
  <2>2. Spoke(r) /\ Went(r)
    BY <1>2, <2>1 DEF Went, Returned, Continued, Swept, Warned, Moved, Keeps
  <2>3. PICK e : Recorded(r, Asks(r), e) /\ runs'[r].hist = Append(h, e)
    BY <2>2 DEF Spoke
  <2>4. /\ DOMAIN h = 1..Len(h) /\ Len(h) \in Nat /\ Len(Append(h, e)) = Len(h) + 1
        /\ DOMAIN Append(h, e) = 1..Len(h) + 1
        /\ \A i \in 1..Len(h) : Append(h, e)[i] = h[i]
        /\ Append(h, e)[Len(h) + 1] = e
    BY <1>3, Grows
  <2>5. e.op = "call" /\ e.tag = "two"
    BY <1>5, <2>3, <2>4 DEF Did
  <2>6. Asks(r).op = "call" /\ Asks(r).tag = "two" /\ e.res # "cancelled"
    BY <2>3, <2>5 DEF Recorded, Sane, Hands
  <2>7. /\ Is(r, "bulkcancel") /\ ~Observed(h) /\ Len(h) = n + 1 /\ runs[r].prog.slices \in Nat
    BY <2>6, StepTwoIsBulk
  <2>8. ~Observed(Append(h, e))
    <3>1. ASSUME NEW i \in DOMAIN Append(h, e) PROVE Append(h, e)[i].res # "cancelled"
      <4>1. CASE i \in 1..Len(h)
        BY <2>4, <2>7, <4>1 DEF Observed
      <4>2. CASE i = Len(h) + 1
        BY <2>4, <2>6, <4>2
      <4> QED
        BY <2>4, <4>1, <4>2
    <3> QED
      BY <3>1 DEF Observed
  <2>9. runs[r].status = "running" /\ runs'[r].result = runs[r].result
    BY <2>2 DEF Spoke, Segment, Keeps
  <2>10. runs[r].result = "none"
    BY <2>9 DEF Cancelled, Terminal
  <2> QED
    BY <2>3, <2>4, <2>7, <2>8, <2>9, <2>10
<1>6. ASSUME Doing(r)' PROVE exec'[r].got # "none"
  <2>1. CASE exec'[r] = exec[r] /\ Executing(r) /\ runs'[r].hist = h
    BY <1>1, <1>6, <2>1 DEF PastStepTwo, Doing, Asks
  <2>2. CASE Executing(r) /\ MakeCall(r, Asks(r))
    <3>1. runs' = runs /\ exec'[r].got = Reply(Asks(r), Received(Asks(r).tag) + 1, exec[r].spent)
      BY <2>2 DEF MakeCall, Sane, Hands
    <3>2. Asks(r) = Call("two")
      BY <1>6, <3>1, StepTwoIsBulk DEF Doing, Asks
    <3>3. Received("two") \in Nat
      BY LogGrows DEF Sane
    <3>4. Received("two") + 1 > 0
      BY <3>3
    <3>5. Reply(Call("two"), Received("two") + 1, exec[r].spent) = "ok"
      BY <3>4 DEF Reply, Call, CallRetrying
    <3>6. Call("two").tag = "two"
      BY DEF Call, CallRetrying
    <3> QED
      BY <3>1, <3>2, <3>5, <3>6
  <2>3. CASE Executing(r) /\ RefuseCall(r, Asks(r))
    BY <2>3 DEF RefuseCall, Sane, Hands
  <2> QED
    BY <1>6, <2>1, <2>2, <2>3, EngineSegment DEF Doing, Sane, Guests
<1>7. CASE Did(r)
  BY <1>1, <1>4, <1>6, <1>7 DEF PastStepTwo, Is
<1>8. CASE ~Did(r) /\ Did(r)'
  BY <1>1, <1>5, <1>6, <1>8 DEF PastStepTwo, Is
<1>9. CASE ~Did(r)'
  BY <1>6, <1>9 DEF PastStepTwo
<1> QED
  BY <1>7, <1>8, <1>9

LEMMA StopsStep ==
    ASSUME GuestsAreThePorts, Sane, Families, Spends, Stops, Next PROVE Stops'
<1> SUFFICES ASSUME NEW r \in RunIds, runs'[r].status # "absent"
             PROVE  Cancelled(r)' /\ PastStepTwo(r)'
  BY DEF Stops
<1>1. CASE runs[r].status # "absent"
  BY <1>1, CancelledStep, PastStepTwoStep DEF Stops
<1>2. CASE runs[r].status = "absent"
  <2>1. /\ runs'[r].hist = <<>> /\ ~runs'[r].cancel /\ runs'[r].result = "none"
    BY <1>2, BornFrom DEF Sane
  <2>2. DOMAIN <<>> = {}
    BY Tuples, HeardIsPrefix
  <2>3. ~Did(r)' /\ Cancelled(r)'
    BY <2>1, <2>2 DEF Did, Cancelled
  <2>4. exec'[r].spent = 0
    <3>1. ~Executing(r)
      BY <1>2 DEF Sane, Hands
    <3> QED
      BY <3>1, EngineSegment DEF Sane, Guests
  <2> QED
    BY <2>3, <2>4 DEF PastStepTwo, Doing
<1> QED
  BY <1>1, <1>2

\* No send is a step two or an iteration: those are calls.
Queued == \A s \in outbox : s.tag \notin {"two", "Iteration"}

LEMMA QueuedStep == ASSUME GuestsAreThePorts, Sane, Queued, Next PROVE Queued'
<1> SUFFICES ASSUME NEW s \in outbox', s \notin outbox PROVE s.tag \notin {"two", "Iteration"}
  BY DEF Queued
<1>1. PICK r \in RunIds : Segment(r) /\ Asks(r).op \in {"send", "deferred"} /\ s.tag = Asks(r).tag
  BY EngineWrites DEF Queues
<1>2. Speaks(runs[r].prog, Heard(runs[r].hist), Intends(r)) /\ (Asks(r) = Intends(r) \/ Drains(r))
  BY <1>1, AsksOrDrains DEF Segment, Sane
<1> QED
  BY <1>1, <1>2 DEF Drains, Speaks

\* Every receipt of a step two is some run's, or its event was lost in a crash.
TwosAreKnown == Received("two") <= Cardinality(Doers) + Tagged(lost, "two")

\* A row not in use says nothing.
Vacant == \A r \in RunIds : runs[r].status = "absent" => runs[r].result = "none"

CancelInv == FamilyInv /\ Spends /\ Losses /\ Stops /\ Queued /\ Vacant /\ TwosAreKnown

LEMMA DoersAreFinite ==
    /\ IsFiniteSet(Doers) /\ Cardinality(Doers) \in Nat
    /\ \A S \in SUBSET RunIds : IsFiniteSet(S) /\ Cardinality(S) \in Nat
<1>1. \A S \in SUBSET RunIds : IsFiniteSet(S) /\ Cardinality(S) \in Nat
  BY RunIdsAreNumbers, FS_Subset, FS_CardinalityType
<1> QED
  BY <1>1 DEF Doers

\* Only a crash makes the worker forget a step two it has requested.
LEMMA DoersStay ==
    ASSUME GuestsAreThePorts, CancelInv, Next, NEW r \in Doers
    PROVE  r \in Doers' \/ (Doing(r) /\ \E w \in Workers : Crash(w))
<1> USE DEF CancelInv, FamilyInv, Sane
<1>1. r \in RunIds /\ runs[r].status # "absent"
  BY DEF Doers
<1>2. runs'[r].prog = runs[r].prog /\ runs'[r].status # "absent"
  BY <1>1, RunsStay
<1>3. IsSeq(runs[r].hist)
  BY <1>1 DEF Guests, Table, IsRow
<1>4. ASSUME Did(r) PROVE Did(r)'
  <2>1. runs'[r].hist = runs[r].hist \/ \E e : runs'[r].hist = Append(runs[r].hist, e)
    BY <1>1, EngineRecords DEF Guests, Records
  <2> QED
    BY <1>3, <1>4, <2>1, Grows DEF Did
<1>5. ASSUME Doing(r) PROVE Did(r)' \/ Doing(r)' \/ \E w \in Workers : Crash(w)
  <2>1. exec[r].got # "none"
    BY <1>1, <1>5 DEF Stops, PastStepTwo
  <2>2. runs[r].status # "terminated"
    BY <1>1, <1>5, StepTwoIsBulk, BulkIsNotSwept DEF Doing
  <2>3. CASE exec'[r] = exec[r] /\ runs'[r].hist = runs[r].hist
    BY <1>2, <1>5, <2>3 DEF Doing, Asks
  <2>4. CASE RecordCall(r, Asks(r))
    <3> DEFINE e == Answer("call", Asks(r).tag, exec[r].got, 0)
    <3>1. e.op = "call" /\ e.tag = "two"
      BY <1>5 DEF Doing, Answer
    <3> HIDE DEF e
    <3>2. runs'[r].hist = Append(runs[r].hist, e)
      BY <1>1, <2>4 DEF RecordCall, Record, Guests, Table, IsRow, Fields, e
    <3> QED
      BY <1>3, <3>1, <3>2, Grows DEF Did
  <2>5. ~MakeCall(r, Asks(r)) /\ ~RefuseCall(r, Asks(r)) /\ ~FenceLost(r)
    BY <2>1, <2>2 DEF MakeCall, RefuseCall, FenceLost
  <2> QED
    BY <1>1, <1>5, <2>3, <2>4, <2>5, EngineSpends DEF Doing, Guests
<1> QED
  BY <1>1, <1>2, <1>4, <1>5 DEF Doers

LEMMA TwosStep == ASSUME GuestsAreThePorts, CancelInv, Next PROVE TwosAreKnown'
<1> USE DEF CancelInv, FamilyInv, Sane
<1>1. Received("two") \in Nat /\ Cardinality(Doers) \in Nat /\ Cardinality(Doers') \in Nat
  <2>1. Doers' \subseteq RunIds
    BY DEF Doers
  <2> QED
    BY <2>1, LogGrows, DoersAreFinite
<1>2. Tagged(lost, "two") \in Nat
  <2>1. IsFiniteSet({x \in lost : x.tag = "two"})
    BY FS_Subset DEF Losses
  <2> QED
    BY <2>1, FS_CardinalityType DEF Tagged
<1>3. ASSUME NEW w \in Workers, Crash(w) PROVE TwosAreKnown'
  <2> DEFINE D == {r \in Doers : exec[r].on = w /\ Doing(r)}
  <2>1. D \in SUBSET RunIds /\ \A r \in D : exec[r].on = w /\ exec[r].spent # 0 /\ Asks(r).tag = "two"
    BY DEF Doers, Doing
  <2>2. Tagged(lost', "two") >= Tagged(lost, "two") + Cardinality(D)
    BY <1>3, <2>1, CrashLoses DEF Guests
  <2>3. Doers \subseteq Doers' \cup D
    <3>1. runs' = runs /\ \A r \in RunIds : exec[r].on # w => exec'[r] = exec[r]
      BY <1>3 DEF Crash
    <3> QED
      BY <3>1 DEF Doers, Did, Doing, Asks
  <2>4. Received("two")' = Received("two")
    BY <1>3 DEF Crash, Received, Count
  <2>5. Cardinality(Doers) <= Cardinality(Doers') + Cardinality(D)
    <3>1. IsFiniteSet(Doers') /\ IsFiniteSet(D)
      <4>1. Doers' \in SUBSET RunIds
        BY DEF Doers
      <4> QED
        BY <2>1, <4>1, DoersAreFinite
    <3> HIDE DEF D
    <3>2. PICK A : A = Doers'
      OBVIOUS
    <3>3. IsFiniteSet(A \cup D) /\ Cardinality(A \cup D) = Cardinality(A) + Cardinality(D) - Cardinality(A \cap D)
      BY <3>1, <3>2, FS_Union
    <3>4. Cardinality(Doers) <= Cardinality(A \cup D)
      BY <2>3, <3>2, <3>3, FS_Subset
    <3>5. Cardinality(A \cap D) \in Nat /\ Cardinality(A) \in Nat /\ Cardinality(D) \in Nat
      BY <3>1, <3>2, FS_Intersection, FS_CardinalityType
    <3>6. Cardinality(Doers) \in Nat
      BY DoersAreFinite
    <3>7. PICK a, d, i, u, o : /\ a = Cardinality(A) /\ d = Cardinality(D) /\ i = Cardinality(A \cap D)
                               /\ u = Cardinality(A \cup D) /\ o = Cardinality(Doers)
      OBVIOUS
    <3>8. o <= a + d
      BY <3>3, <3>4, <3>5, <3>6, <3>7
    <3> QED
      BY <3>2, <3>7, <3>8
  <2>6. Cardinality(D) \in Nat
    BY <2>1, DoersAreFinite
  <2>7. Tagged(lost, "two")' = Tagged(lost', "two") /\ Tagged(lost', "two") \in Nat
    <3>1. IsFiniteSet(lost')
      BY <1>3, <2>1, CrashLoses DEF Guests, Losses
    <3>2. IsFiniteSet({x \in lost' : x.tag = "two"})
      BY <3>1, FS_Subset
    <3> QED
      BY <3>2, FS_CardinalityType DEF Tagged
  <2> HIDE DEF D
  <2> QED
    BY <1>1, <1>2, <2>2, <2>4, <2>5, <2>6, <2>7 DEF TwosAreKnown
<1>4. ASSUME ~\E w \in Workers : Crash(w) PROVE TwosAreKnown'
  <2>1. Tagged(lost, "two")' = Tagged(lost, "two")
    BY <1>4, LossesKept DEF Tagged
  <2>2. Doers \subseteq Doers'
    BY <1>4, DoersStay
  <2>3. IsFiniteSet(Doers') /\ Doers' \in SUBSET RunIds
    <3>1. Doers' \in SUBSET RunIds
      BY DEF Doers
    <3> QED
      BY <3>1, DoersAreFinite
  <2>4. Cardinality(Doers) <= Cardinality(Doers')
    BY <2>2, <2>3, FS_Subset
  <2>5. CASE Received("two")' = Received("two")
    BY <1>1, <1>2, <2>1, <2>4, <2>5 DEF TwosAreKnown
  <2>6. CASE Received("two")' = Received("two") + 1
    <3>1. PICK r \in RunIds : Executing(r) /\ MakeCall(r, Asks(r)) /\ Asks(r).tag = "two"
      BY <1>1, <2>6, LogGrows DEF Queued
    <3>2. /\ exec[r].got = "none" /\ Asks(r).op = "call" /\ runs' = runs
          /\ exec'[r].spent = exec[r].spent + 1
      BY <3>1 DEF MakeCall, Hands
    <3>3. runs[r].status # "absent" /\ exec[r].spent + 1 # 0
      BY <3>1 DEF Hands
    <3>4. r \notin Doers
      BY <3>1, <3>2, <3>3, StepTwoIsLast DEF Stops, Doers, PastStepTwo
    <3>5. r \in Doers'
      BY <3>1, <3>2, <3>3 DEF Doers, Doing, Asks
    <3>6. Cardinality(Doers \cup {r}) = Cardinality(Doers) + 1
      BY <3>4, DoersAreFinite, FS_AddElement
    <3>7. Cardinality(Doers \cup {r}) <= Cardinality(Doers')
      BY <2>2, <2>3, <3>5, FS_Subset
    <3> QED
      BY <1>1, <1>2, <2>1, <2>6, <3>6, <3>7 DEF TwosAreKnown
  <2> QED
    BY <2>5, <2>6, LogGrows
<1> QED
  BY <1>3, <1>4

LEMMA VacantStep == ASSUME GuestsAreThePorts, Guests, Vacant, Next PROVE Vacant'
<1> SUFFICES ASSUME NEW r \in RunIds, runs'[r].status = "absent" PROVE runs'[r].result = "none"
  BY DEF Vacant
<1>1. runs[r].status = "absent"
  BY RunsStay
<1>2. runs'[r] = runs[r]
  <2>1. ~Went(r)
    BY <1>1 DEF Went
  <2>2. ASSUME Born(r) PROVE FALSE
    BY <2>2 DEF Born, BornOf, Fresh, Absent
  <2> QED
    BY <2>1, <2>2, EngineRows DEF Guests, Evolves
<1> QED
  BY <1>1, <1>2 DEF Vacant

LEMMA LossesStep == ASSUME Sane, Losses, Next PROVE Losses'
<1>1. ASSUME NEW w \in Workers, Crash(w) PROVE Losses'
  <2>1. {} \in SUBSET RunIds
    OBVIOUS
  <2>2. PICK t : t = "two"
    OBVIOUS
  <2> QED
    BY <1>1, <2>1, <2>2, CrashLoses DEF Sane, Guests
<1> QED
  BY <1>1, LossesKept DEF Losses

LEMMA CancelInit == ASSUME Init PROVE CancelInv
<1>1. DOMAIN <<>> = {} /\ Len(<<>>) = 0 /\ IsSeq(<<>>)
  <2>1. IsSeq(<<>>) /\ Len(<<>>) = 0
    BY Tuples
  <2> QED
    BY <2>1, HeardIsPrefix
<1>2. \A r \in RunIds : /\ runs[r].hist = <<>> /\ ~runs[r].cancel /\ runs[r].result = "none"
                        /\ exec[r].spent = 0 /\ exec[r].got = "none"
  BY DEF Init, Fresh, Absent, Idle
<1>3. Stops /\ Vacant
  <2>1. ASSUME NEW r \in RunIds PROVE Cancelled(r) /\ PastStepTwo(r)
    <3>1. ~Did(r) /\ ~Doing(r)
      BY <1>1, <1>2 DEF Did, Doing
    <3> QED
      BY <1>1, <1>2, <3>1 DEF Cancelled, PastStepTwo
  <2> QED
    BY <1>2, <2>1 DEF Stops, Vacant
<1>4. Spends /\ Queued
  BY <1>2 DEF Spends, Queued, Init
<1>5. Losses
  BY FS_EmptySet DEF Losses, Init
<1>6. TwosAreKnown
  <2>1. Received("two") = 0
    <3>1. {i \in DOMAIN log : log[i] = "two"} = {}
      BY <1>1 DEF Init
    <3> QED
      BY <3>1, FS_EmptySet DEF Received, Count
  <2>2. Tagged(lost, "two") = 0
    <3>1. {x \in lost : x.tag = "two"} = {}
      BY DEF Init
    <3> QED
      BY <3>1, FS_EmptySet DEF Tagged
  <2> QED
    BY <2>1, <2>2, DoersAreFinite DEF TwosAreKnown
<1> QED
  BY <1>3, <1>4, <1>5, <1>6, FamilyInit DEF CancelInv

LEMMA CancelStep == ASSUME GuestsAreThePorts, CancelInv, [Next]_vars PROVE CancelInv'
<1>1. CASE Next
  <2> USE DEF CancelInv, FamilyInv, Sane
  <2>1. FamilyInv'
    BY <1>1, FamilyStep
  <2>2. Spends' /\ Losses' /\ Vacant' /\ Queued'
    BY <1>1, SpendsStep, LossesStep, VacantStep, QueuedStep DEF Guests
  <2>3. Stops' /\ TwosAreKnown'
    BY <1>1, StopsStep, TwosStep
  <2> QED
    BY <2>1, <2>2, <2>3
<1>2. CASE UNCHANGED vars
  <2>1. FamilyInv'
    BY <1>2, FamilyStep DEF CancelInv
  <2>2. (Spends /\ Losses /\ Vacant /\ Queued)'
    BY <1>2 DEF CancelInv, vars, Spends, Losses, Vacant, Queued, Asks
  <2>3. Stops'
    BY <1>2 DEF CancelInv, vars, Stops, Cancelled, PastStepTwo, Did, Doing, Asks, Aimed, Is
  <2>4. TwosAreKnown'
    <3>1. Doers' = Doers /\ Received("two")' = Received("two") /\ Tagged(lost, "two")' = Tagged(lost, "two")
      BY <1>2 DEF vars, Doers, Did, Doing, Asks, Received, Count, Tagged
    <3> QED
      BY <3>1 DEF CancelInv, TwosAreKnown
  <2> QED
    BY <2>1, <2>2, <2>3, <2>4 DEF CancelInv
<1> QED
  BY <1>1, <1>2

\* A cancel stops its target and nothing else, for any number of runs, cancels and crashes: a run
\* that says it was cancelled was aimed at, and has not run step two; no other run has run step
\* two again.
THEOREM CancelsHitTheirTargets ==
    ASSUME GuestsAreThePorts PROVE Spec => []CancelStopsItsTargetsOnly
<1>1. ASSUME CancelInv PROVE CancelStopsItsTargetsOnly
  <2> USE <1>1 DEF CancelInv, FamilyInv, Sane
  <2> DEFINE S == {r \in RunIds : Is(r, "bulkcancel") /\ runs[r].result # "cancelled"}
  <2>1. ASSUME NEW r \in Doers PROVE r \in S
    <3>1. r \in RunIds /\ runs[r].status # "absent" /\ Cancelled(r) /\ PastStepTwo(r)
      BY DEF Doers, Stops
    <3>2. CASE Did(r)
      BY <3>1, <3>2 DEF PastStepTwo
    <3>3. CASE Doing(r)
      <4>1. Is(r, "bulkcancel")
        BY <3>1, <3>3, StepTwoIsBulk DEF Doing
      <4>2. runs[r].status = "running"
        <5>1. Executing(r)
          BY <3>1, <3>3 DEF Doing, Hands, Idle
        <5> QED
          BY <3>1, <4>1, <5>1, BulkIsNotSwept DEF Hands
      <4> QED
        BY <3>1, <4>1, <4>2 DEF Cancelled, Terminal
    <3> QED
      BY <3>2, <3>3 DEF Doers
  <2>2. Cardinality(Doers) <= Cardinality(S)
    <3>1. IsFiniteSet(S) /\ Doers \subseteq S
      <4>1. S \in SUBSET RunIds
        OBVIOUS
      <4> QED
        BY <2>1, <4>1, DoersAreFinite
    <3> QED
      BY <3>1, FS_Subset
  <2>3. Received("two") <= Cardinality(S) + Tagged(lost, "two")
    <3>1. Received("two") \in Nat
      BY CountGrows DEF Received
    <3>2. Tagged(lost, "two") \in Nat
      <4>1. IsFiniteSet({x \in lost : x.tag = "two"})
        BY FS_Subset DEF Losses
      <4> QED
        BY <4>1, FS_CardinalityType DEF Tagged
    <3>3. Cardinality(S) \in Nat /\ Cardinality(Doers) \in Nat
      <4>1. S \in SUBSET RunIds
        OBVIOUS
      <4> QED
        BY <4>1, DoersAreFinite
    <3> HIDE DEF S
    <3> QED
      BY <2>2, <3>1, <3>2, <3>3 DEF TwosAreKnown
  <2>4. \A r \in RunIds : runs[r].result = "cancelled" => Aimed(r)
    BY DEF Vacant, Stops, Cancelled
  <2> QED
    BY <2>3, <2>4 DEF CancelStopsItsTargetsOnly, Aimed
<1>2. CancelInv /\ [Next]_vars => CancelInv'
  BY CancelStep
<1> QED
  BY <1>1, <1>2, CancelInit, PTL DEF Spec

-----------------------------------------------------------------------------
(* Chains.                                                                 *)

\* One iteration of a chain: a call, then the next iteration or the end.
LEMMA CasnChildBody ==
    ASSUME NEW p, IsInput(p), p.w = "casnchild", NEW h, IsSeq(h), Len(h) <= 1
    PROVE  LET b == Body(p, h)
           IN /\ p.iterations \in Nat
              /\ Failed(h) => b = Wrapped
              /\ ~Failed(h) /\ Len(h) = 0 => b = Call("Iteration")
              /\ ~Failed(h) /\ Len(h) = 1 =>
                    b = IF p.iterations > 1 THEN Continue([p EXCEPT !.iterations = @ - 1])
                                            ELSE Return("completed")
<1> DEFINE next  == Continue([p EXCEPT !.iterations = @ - 1])
           rest  == IF p.iterations > 1 THEN <<next>> ELSE <<>>
           one   == Call("Iteration")
           calls == <<one>> \o rest
<1>1. Body(p, h) = IF Failed(h) THEN Wrapped ELSE Script(calls, Return("completed"), h)
  BY DEF Body, CasnChild, Propagating
<1>2. p.iterations \in Nat
  BY DEF IsInput
<1> HIDE DEF next, one
<1>3. IsSeq(rest) /\ Len(rest) = (IF p.iterations > 1 THEN 1 ELSE 0) /\ IsSeq(<<one>>) /\ Len(<<one>>) = 1
  BY <1>2, Tuples
<1>4. IsSeq(calls) /\ Len(calls) = 1 + Len(rest) /\ calls[1] = one
      /\ (p.iterations > 1 => calls[2] = next)
  <2>1. p.iterations > 1 => rest[1] = next
    OBVIOUS
  <2>2. <<one>>[1] = one
    OBVIOUS
  <2>3. PICK s, t : s = <<one>> /\ t = rest
    OBVIOUS
  <2> HIDE DEF rest
  <2>4. /\ IsSeq(s \o t) /\ Len(s \o t) = 1 + Len(t)
        /\ \A i \in 1..Len(s \o t) : (s \o t)[i] = IF i <= 1 THEN s[i] ELSE t[i - 1]
    BY <1>3, <2>3, Joins
  <2>5. Len(t) \in Nat /\ 1 \in 1..Len(s \o t) /\ (p.iterations > 1 => 2 \in 1..Len(s \o t))
    <3>1. PICK i, n, m : i = p.iterations /\ n = Len(t) /\ m = Len(s \o t)
      OBVIOUS
    <3>2. n = (IF i > 1 THEN 1 ELSE 0) /\ m = 1 + n
      BY <1>3, <2>3, <2>4, <3>1
    <3> QED
      BY <3>1, <3>2
  <2> QED
    BY <2>1, <2>2, <2>3, <2>4, <2>5
<1>5. Len(h) \in Nat
  BY HeardIsPrefix
<1> HIDE DEF calls
<1>6. ASSUME ~Failed(h), Len(h) = 0 PROVE Body(p, h) = one
  <2>1. Len(h) < Len(calls) /\ Len(h) + 1 = 1
    BY <1>2, <1>3, <1>4, <1>6
  <2> QED
    BY <1>1, <1>4, <1>6, <2>1 DEF Script
<1>7. ASSUME ~Failed(h), Len(h) = 1
      PROVE  Body(p, h) = IF p.iterations > 1 THEN next ELSE Return("completed")
  <2>1. Len(h) + 1 = 2 /\ (Len(h) < Len(calls) <=> p.iterations > 1)
    BY <1>2, <1>3, <1>4, <1>7
  <2> QED
    BY <1>1, <1>4, <1>7, <2>1 DEF Script
<1> QED
  BY <1>1, <1>2, <1>6, <1>7 DEF next, one

\* Its parent: it is started, and awaited.
LEMMA CasnParentBody ==
    ASSUME NEW p, p.w = "casnparent", NEW h, IsSeq(h)
    PROVE  LET b == Body(p, h)
           IN /\ Failed(h) => b = Wrapped
              /\ ~Failed(h) /\ Len(h) = 0 => b = Child(p.child)
              /\ ~Failed(h) /\ Len(h) = 1 => b = Await(h[1].run)
              /\ ~Failed(h) /\ Len(h) >= 2 => b = Return("completed")
<1> DEFINE calls == <<Child(p.child), Await(Kid(h, 1))>>
<1>1. Body(p, h) = IF Failed(h) THEN Wrapped ELSE Script(calls, Return("completed"), h)
  BY DEF Body, CasnParent, Propagating
<1>2. Len(h) \in Nat /\ DOMAIN h = 1..Len(h)
  BY HeardIsPrefix
<1>3. Len(calls) = 2 /\ calls[1] = Child(p.child) /\ calls[2] = Await(Kid(h, 1))
  OBVIOUS
<1>4. Len(h) = 1 => Kid(h, 1) = h[1].run
  BY <1>2 DEF Kid
<1> HIDE DEF calls
<1> QED
  BY <1>1, <1>2, <1>3, <1>4 DEF Script

\* Rows are taken in order, and a row not in use belongs to nobody.
NoGaps ==
    /\ \A r, q \in RunIds : runs[r].status = "absent" /\ runs[q].status # "absent" => q < r
    /\ \A r \in RunIds : runs[r].status = "absent" => runs[r].from = 0

\* Where the runs of a chain come from.
Heir(r) ==
    LET k == runs[r].from
    IN k # 0 => /\ k \in RunIds /\ runs[k].status # "absent" /\ runs[k].from = 0
                /\ runs[k].prog.w = runs[r].prog.w

Heirs == NoGaps /\ \A r \in RunIds : Heir(r)

\* What a step inserts.
LEMMA NewRows ==
    ASSUME GuestsAreThePorts, Guests, Next, NEW c \in RunIds,
           runs[c].status = "absent", runs'[c].status # "absent"
    PROVE  /\ c = NewId /\ RoomForARow /\ runs'[c].status = "ready" /\ runs'[c].hist = <<>>
           /\ \E r \in RunIds :
                 /\ r # c /\ Segment(r)
                 /\ runs'[c].prog = Asks(r).prog
                 /\ \/ Asks(r).op \in {"spawn", "detach"} /\ runs'[c].from = 0
                    \/ /\ Asks(r).op = "continue" /\ runs'[c].from = First(r)
                       /\ runs'[r].status = "done"
<1>1. Born(c)
  BY EngineRows DEF Guests, Evolves, Went
<1>2. PICK r \in RunIds : BornOf(c, r)
  BY <1>1 DEF Born
<1>3. \A p, parent, policy, from :
         LET x == Fresh(p, parent, policy, from)
         IN x.prog = p /\ x.status = "ready" /\ x.hist = <<>> /\ x.from = from
  BY DEF Fresh, Absent
<1> QED
  BY <1>1, <1>2, <1>3 DEF Born, BornOf

LEMMA HeirsStep == ASSUME GuestsAreThePorts, Guests, Heirs, Next PROVE Heirs'
<1>1. NoGaps'
  <2>1. ASSUME NEW r \in RunIds, runs'[r].status = "absent" PROVE runs[r].status = "absent" /\ runs'[r] = runs[r]
    <3>1. runs[r].status = "absent"
      BY <2>1, RunsStay
    <3>2. ~Went(r)
      BY <3>1 DEF Went
    <3>3. ASSUME Born(r) PROVE FALSE
      BY <2>1, <3>3 DEF Born, BornOf, Fresh, Absent
    <3> QED
      BY <3>1, <3>2, <3>3, EngineRows DEF Guests, Evolves
  <2>2. ASSUME NEW r \in RunIds, runs'[r].status = "absent", NEW q \in RunIds, runs'[q].status # "absent"
        PROVE  q < r
    <3>1. CASE runs[q].status # "absent"
      BY <2>1, <2>2, <3>1 DEF Heirs, NoGaps
    <3>2. CASE runs[q].status = "absent"
      <4>1. q = NewId /\ RoomForARow
        BY <2>2, <3>2, NewRows
      <4>2. q <= r /\ q # r
        BY <2>1, <2>2, <4>1, NewIdIsLeast
      <4> QED
        BY <4>2, RunIdsAreNumbers
    <3> QED
      BY <3>1, <3>2
  <2> QED
    BY <2>1, <2>2 DEF Heirs, NoGaps
<1>2. ASSUME NEW r \in RunIds, runs'[r].from # 0 PROVE Heir(r)'
  <2>1. CASE runs[r].status # "absent"
    <3>1. runs'[r].from = runs[r].from /\ runs'[r].prog = runs[r].prog
      BY <2>1, RunsStay
    <3>2. PICK k \in RunIds : k = runs[r].from /\ runs[k].status # "absent" /\ runs[k].from = 0
                              /\ runs[k].prog.w = runs[r].prog.w
      BY <1>2, <3>1 DEF Heirs, Heir
    <3>3. runs'[k].status # "absent" /\ runs'[k].from = runs[k].from /\ runs'[k].prog = runs[k].prog
      BY <3>2, RunsStay
    <3> QED
      BY <3>1, <3>2, <3>3 DEF Heir
  <2>2. CASE runs[r].status = "absent" /\ runs'[r].status # "absent"
    <3>1. PICK q \in RunIds : /\ q # r /\ Segment(q) /\ runs'[r].prog = Asks(q).prog
                              /\ Asks(q).op = "continue" /\ runs'[r].from = First(q)
      BY <1>2, <2>2, NewRows
    <3>2. runs[q].status = "running"
      BY <3>1 DEF Segment
    <3>3. Asks(q).prog.w = runs[q].prog.w
      BY <3>1, <3>2, AsksOrDrains DEF Speaks, Drains
    <3>4. PICK k \in RunIds : k = First(q) /\ runs[k].status # "absent" /\ runs[k].from = 0
                              /\ runs[k].prog.w = runs[q].prog.w
      BY <3>2 DEF Heirs, Heir, First
    <3>5. runs'[k].status # "absent" /\ runs'[k].from = runs[k].from /\ runs'[k].prog = runs[k].prog
      BY <3>4, RunsStay
    <3> QED
      BY <3>1, <3>3, <3>4, <3>5 DEF Heir
  <2>3. CASE runs'[r].status = "absent"
    BY <1>1, <1>2, <2>3 DEF NoGaps
  <2> QED
    BY <2>1, <2>2, <2>3
<1> QED
  BY <1>1, <1>2 DEF Heirs, Heir

\* k is a run that was started with p, and not an iteration.
Starts(k, p) == k \in RunIds /\ runs[k].status # "absent" /\ runs[k].from = 0 /\ runs[k].prog = p

\* The child a segment has in hand is the one its guest asked for.
InHand ==
    \A r \in RunIds : exec[r].child # 0 =>
        Asks(r).op \in {"spawn", "detach"} /\ Starts(exec[r].child, Asks(r).prog)

LEMMA InHandStep == ASSUME GuestsAreThePorts, Sane, InHand, Next PROVE InHand'
<1> SUFFICES ASSUME NEW r \in RunIds, exec'[r].child # 0
             PROVE  Asks(r)'.op \in {"spawn", "detach"} /\ Starts(exec[r].child, Asks(r).prog)'
  BY DEF InHand
<1> USE DEF Sane
<1>1. CASE /\ exec'[r].child = exec[r].child
           /\ Asks(r).op \in {"spawn", "detach"} => runs'[r].hist = runs[r].hist
  <2>1. Asks(r).op \in {"spawn", "detach"} /\ Starts(exec[r].child, Asks(r).prog)
    BY <1>1 DEF InHand
  <2>2. runs[r].status # "absent"
    BY <1>1 DEF Hands, Idle
  <2>3. runs'[r].prog = runs[r].prog
    BY <2>2, RunsStay
  <2>4. Asks(r)' = Asks(r)
    BY <1>1, <2>1, <2>3 DEF Asks
  <2>5. PICK k \in RunIds : /\ k = exec[r].child /\ runs[k].status # "absent" /\ runs[k].from = 0
                            /\ runs[k].prog = Asks(r).prog
    BY <2>1 DEF Starts
  <2>6. runs'[k].status # "absent" /\ runs'[k].from = runs[k].from /\ runs'[k].prog = runs[k].prog
    BY <2>5, RunsStay
  <2> QED
    BY <1>1, <2>1, <2>4, <2>5, <2>6 DEF Starts
<1>2. CASE Executing(r) /\ InsertChild(r, Asks(r))
  <2>1. PICK n \in RunIds : n = NewId /\ runs[n].status = "absent" /\ n # r
    BY <1>2, NewIdIsAbsent DEF InsertChild
  <2>2. PICK c : c = Asks(r)
    OBVIOUS
  <2>3. c.op \in {"spawn", "detach"}
        /\ runs' = [runs EXCEPT ![n] = IF c.op = "spawn" THEN Fresh(c.prog, r, c.policy, 0)
                                                        ELSE Fresh(c.prog, 0, "ABANDON", 0)]
        /\ exec'[r].child = n
    BY <1>2, <2>1, <2>2 DEF InsertChild, Hands
  <2>4. \A p, parent, policy :
           LET x == Fresh(p, parent, policy, 0) IN x.prog = p /\ x.status = "ready" /\ x.from = 0
    BY DEF Fresh, Absent
  <2>5. runs'[r] = runs[r] /\ runs'[n].prog = c.prog /\ runs'[n].status = "ready" /\ runs'[n].from = 0
    BY <2>1, <2>3, <2>4 DEF Guests, Table
  <2>6. Asks(r)' = c
    BY <2>2, <2>5 DEF Asks
  <2> QED
    BY <2>1, <2>3, <2>5, <2>6 DEF Starts
<1> QED
  BY <1>1, <1>2, EngineChild DEF Guests

\* The guests of a chain ask for what their bodies do.
LEMMA CasnAsks ==
    ASSUME GuestsAreThePorts, Guests, NEW r \in RunIds, runs[r].status # "absent",
           Is(r, "casnchild") \/ Is(r, "casnparent")
    PROVE  /\ IsInput(runs[r].prog) /\ IsSeq(runs[r].hist) /\ Len(runs[r].hist) \in Nat
           /\ DOMAIN runs[r].hist = 1..Len(runs[r].hist)
           /\ Asks(r) = Body(runs[r].prog, runs[r].hist)
<1>1. Reasonable(r) /\ IsSeq(runs[r].hist)
  BY DEF Guests, Table, IsRow
<1>2. Heard(runs[r].hist) = runs[r].hist /\ ~Drains(r)
  BY <1>1 DEF Reasonable, DeferGuests, Is, Drains
<1> QED
  BY <1>1, <1>2, AsksOrDrains, HeardIsPrefix DEF Intends, Reasonable

\* What they have heard.
OfTheScript(r) ==
    /\ Is(r, "casnchild") =>
          /\ Len(runs[r].hist) <= 1
          /\ Len(runs[r].hist) = 1 =>
                /\ runs[r].hist[1].op = "call" /\ runs[r].hist[1].tag = "Iteration"
                /\ runs[r].hist[1].res \in {"ok", "error", "exhausted", "refused"}
    /\ Is(r, "casnparent") =>
          (Len(runs[r].hist) >= 1 => Starts(runs[r].hist[1].run, runs[r].prog.child))

Scripts == \A r \in RunIds : runs[r].status # "absent" => OfTheScript(r)

LEMMA ScriptsStep == ASSUME GuestsAreThePorts, Sane, InHand, Scripts, Next PROVE Scripts'
<1> SUFFICES ASSUME NEW r \in RunIds, runs'[r].status # "absent" PROVE OfTheScript(r)'
  BY DEF Scripts
<1> USE DEF Sane
<1>1. CASE runs[r].status = "absent"
  <2>1. runs'[r].hist = <<>> /\ Len(<<>>) = 0
    BY <1>1, NewRows, Tuples
  <2> QED
    BY <2>1 DEF OfTheScript
<1>2. CASE runs[r].status # "absent"
  <2>1. runs'[r].prog = runs[r].prog /\ OfTheScript(r)
    BY <1>2, RunsStay DEF Scripts
  <2>2. ASSUME NEW k, NEW p, Starts(k, p)
        PROVE  k \in RunIds /\ runs'[k].status # "absent" /\ runs'[k].from = 0 /\ runs'[k].prog = p
    BY <2>2, RunsStay DEF Starts
  <2>3. CASE runs'[r].hist = runs[r].hist
    <3>1. Is(r, "casnchild")' = Is(r, "casnchild") /\ Is(r, "casnparent")' = Is(r, "casnparent")
      BY <2>1 DEF Is
    <3>2. Starts(runs[r].hist[1].run, runs[r].prog.child) => Starts(runs[r].hist[1].run, runs[r].prog.child)'
      BY <2>1, <2>2, <2>3 DEF Starts
    <3> QED
      BY <2>1, <2>3, <3>1, <3>2 DEF OfTheScript
  <2>4. CASE Spoke(r)
    <3>1. PICK e : Recorded(r, Asks(r), e) /\ runs'[r].hist = Append(runs[r].hist, e)
      BY <2>4 DEF Spoke
    <3>2. Asks(r).op \in EngineOps /\ e.op = Asks(r).op
      BY <2>4, <3>1 DEF Spoke, Recorded
    <3>3. PICK h : h = runs[r].hist
      OBVIOUS
    <3>4. CASE Is(r, "casnchild")
      <4>1. Len(h) <= 1 /\ Len(h) \in Nat /\ IsSeq(h)
        BY <1>2, <2>1, <3>3, <3>4, CasnAsks DEF OfTheScript
      <4>2. Asks(r) = Call("Iteration") /\ Len(h) = 0
        <5>1. IsInput(runs[r].prog) /\ runs[r].prog.w = "casnchild" /\ Asks(r) = Body(runs[r].prog, h)
          BY <1>2, <3>3, <3>4, CasnAsks DEF Is
        <5>2. Asks(r) # Wrapped /\ \A x : Asks(r) # Continue(x) /\ Asks(r) # Return(x)
          BY <3>2 DEF EngineOps, Wrapped, Continue, Return
        <5>3. ~Failed(h) /\ Len(h) # 1
          BY <4>1, <5>1, <5>2, CasnChildBody
        <5>4. Len(h) = 0
          BY <4>1, <5>3
        <5> QED
          BY <4>1, <5>1, <5>3, <5>4, CasnChildBody
      <4>3. e.op = "call" /\ e.tag = "Iteration" /\ e.res \in {"ok", "error", "exhausted", "refused"}
        BY <3>1, <4>2 DEF Recorded, Call, CallRetrying, Hands
      <4>4. Len(Append(h, e)) = 1 /\ Append(h, e)[1] = e
        BY <4>1, <4>2, Grows
      <4>5. ~Is(r, "casnparent")'
        BY <2>1, <3>4 DEF Is
      <4> QED
        BY <3>1, <3>3, <4>3, <4>4, <4>5 DEF OfTheScript
    <3>5. CASE Is(r, "casnparent")
      <4>1. Len(h) \in Nat /\ IsSeq(h) /\ Asks(r) = Body(runs[r].prog, h) /\ ~Is(r, "casnchild")'
        BY <1>2, <2>1, <3>3, <3>5, CasnAsks DEF Is
      <4>2. CASE Len(h) = 0
        <5>1. Asks(r) = Child(runs[r].prog.child)
          BY <3>2, <3>5, <4>1, <4>2, CasnParentBody DEF Is, EngineOps, Wrapped
        <5>2. Asks(r).op = "spawn" /\ Asks(r).prog = runs[r].prog.child
          BY <5>1 DEF Child, ChildUnder
        <5>3. Starts(e.run, runs[r].prog.child)
          BY <3>1, <5>2 DEF Recorded, InHand
        <5>4. Append(h, e)[1] = e
          BY <4>1, <4>2, Grows
        <5> QED
          BY <2>1, <2>2, <3>1, <3>3, <4>1, <5>3, <5>4 DEF OfTheScript, Starts
      <4>3. CASE Len(h) # 0
        <5>1. Len(h) >= 1 /\ Append(h, e)[1] = h[1]
          BY <4>1, <4>3, Grows
        <5>2. Starts(h[1].run, runs[r].prog.child)
          BY <2>1, <3>3, <3>5, <5>1 DEF OfTheScript
        <5> QED
          BY <2>1, <2>2, <3>1, <3>3, <4>1, <5>1, <5>2 DEF OfTheScript, Starts
      <4> QED
        BY <4>2, <4>3
    <3> QED
      BY <2>1, <3>4, <3>5 DEF OfTheScript, Is
  <2>5. runs'[r] = runs[r] \/ Went(r)
    BY <1>2, EngineRows, NewIdIsAbsent DEF Guests, Evolves, Born
  <2> QED
    BY <2>3, <2>4, <2>5 DEF Went, Returned, Continued, Swept, Warned, Moved, Keeps
<1> QED
  BY <1>1, <1>2

\* An iteration done: its call is recorded.  The iterations that came before q.
Iterated(q) ==
    \E i \in DOMAIN runs[q].hist :
        /\ runs[q].hist[i].op = "call" /\ runs[q].hist[i].tag = "Iteration"
        /\ runs[q].hist[i].res = "ok"

Before(q) == {x \in RunIds : First(x) = First(q) /\ x < q}

\* The iterations of a chain follow each other: each was done before the next began, and each has
\* one fewer to go.
OfItsChain(q) ==
    /\ \A x \in Before(q) : runs[x].status = "done" /\ Iterated(x)
    /\ runs[q].prog.iterations + Cardinality(Before(q)) = runs[First(q)].prog.iterations
    /\ runs[q].status = "done" =>
          /\ Iterated(q)
          /\ \/ runs[q].prog.iterations <= 1
             \/ \E x \in RunIds : First(x) = First(q) /\ q < x

Chains == \A q \in RunIds : runs[q].status # "absent" /\ Is(q, "casnchild") => OfItsChain(q)

LEMMA KinAreKnown ==
    ASSUME Heirs, NEW q \in RunIds, runs[q].status # "absent"
    PROVE  /\ First(q) \in RunIds /\ runs[First(q)].status # "absent" /\ First(First(q)) = First(q)
           /\ runs[First(q)].prog.w = runs[q].prog.w
           /\ \A x \in RunIds : First(x) = First(q) =>
                 runs[x].status # "absent" /\ runs[x].prog.w = runs[q].prog.w
<1>1. ASSUME NEW x \in RunIds, runs[x].status # "absent"
      PROVE  /\ First(x) \in RunIds /\ runs[First(x)].status # "absent"
             /\ runs[First(x)].from = 0 /\ runs[First(x)].prog.w = runs[x].prog.w
  BY <1>1 DEF Heirs, Heir, First
<1>2. ASSUME NEW x \in RunIds, runs[x].status = "absent" PROVE First(x) = x
  BY <1>2 DEF Heirs, NoGaps, First
<1>3. First(First(q)) = First(q)
  BY <1>1 DEF First
<1> QED
  BY <1>1, <1>2, <1>3

LEMMA KinStay ==
    ASSUME GuestsAreThePorts, Guests, Heirs, Heirs', Next
    PROVE  /\ \A x \in RunIds : runs[x].status # "absent" => First(x)' = First(x)
           /\ \A q \in RunIds : runs[q].status # "absent" => Before(q)' = Before(q)
<1>1. ASSUME NEW x \in RunIds, runs[x].status # "absent"
      PROVE  First(x)' = First(x) /\ runs'[x].status # "absent"
  BY <1>1, RunsStay DEF First
<1>2. ASSUME NEW q \in RunIds, runs[q].status # "absent" PROVE Before(q)' = Before(q)
  <2>1. ASSUME NEW x \in Before(q) PROVE x \in Before(q)'
    <3>1. x \in RunIds /\ First(x) = First(q) /\ x < q
      BY DEF Before
    <3>2. runs[x].status # "absent"
      BY <1>2, <3>1, KinAreKnown
    <3> QED
      BY <1>1, <1>2, <3>1, <3>2 DEF Before
  <2>2. ASSUME NEW x \in Before(q)' PROVE x \in Before(q)
    <3>1. x \in RunIds /\ First(x)' = First(q)' /\ x < q
      BY DEF Before
    <3>2. runs[x].status # "absent"
      <4>1. ~(q < x)
        BY <3>1, RunIdsAreNumbers
      <4> QED
        BY <1>2, <3>1, <4>1 DEF Heirs, NoGaps
    <3> QED
      BY <1>1, <1>2, <3>1, <3>2 DEF Before
  <2> QED
    BY <2>1, <2>2
<1> QED
  BY <1>1, <1>2

LEMMA IteratedStays ==
    ASSUME Guests, Next, NEW r \in RunIds, Iterated(r) PROVE Iterated(r)'
<1>1. IsSeq(runs[r].hist)
  BY DEF Guests, Table, IsRow
<1>2. runs'[r].hist = runs[r].hist \/ \E e : runs'[r].hist = Append(runs[r].hist, e)
  BY EngineRecords DEF Guests, Records
<1> QED
  BY <1>1, <1>2, Grows DEF Iterated

\* An iteration that goes on or ends has made its call.
LEMMA IterationIsDone ==
    ASSUME GuestsAreThePorts, Guests, Scripts, NEW r \in RunIds, runs[r].status # "absent",
           Is(r, "casnchild"), Asks(r).op \in {"return", "continue"}
    PROVE  /\ Iterated(r) /\ runs[r].prog.iterations \in Nat
           /\ Asks(r).op = "return" => runs[r].prog.iterations <= 1
           /\ Asks(r).op = "continue" =>
                 /\ runs[r].prog.iterations > 1
                 /\ Asks(r).prog = [runs[r].prog EXCEPT !.iterations = @ - 1]
<1>1. PICK h, p : h = runs[r].hist /\ p = runs[r].prog
  OBVIOUS
<1>2. /\ IsInput(p) /\ p.w = "casnchild" /\ IsSeq(h) /\ Len(h) \in Nat /\ DOMAIN h = 1..Len(h)
      /\ Asks(r) = Body(p, h) /\ Len(h) <= 1
  BY <1>1, CasnAsks DEF Scripts, OfTheScript, Is
<1>3. Asks(r) # Wrapped /\ Asks(r) # Call("Iteration")
  BY DEF Wrapped, Call, CallRetrying
<1>4. ~Failed(h) /\ Len(h) # 0
  BY <1>2, <1>3, CasnChildBody
<1>5. Len(h) = 1
  BY <1>2, <1>4
<1>6. Asks(r) = IF p.iterations > 1 THEN Continue([p EXCEPT !.iterations = @ - 1]) ELSE Return("completed")
  BY <1>2, <1>4, <1>5, CasnChildBody
<1>7. Iterated(r)
  <2>1. 1 \in DOMAIN h
    BY <1>2, <1>5
  <2>2. h[1].op = "call" /\ h[1].tag = "Iteration" /\ h[1].res \in {"ok", "error", "exhausted", "refused"}
    BY <1>1, <1>5 DEF Scripts, OfTheScript
  <2>3. h[1].res = "ok"
    BY <1>4, <2>1, <2>2 DEF Failed
  <2> QED
    BY <1>1, <2>1, <2>2, <2>3 DEF Iterated
<1>8. p.iterations \in Nat
  BY <1>2 DEF IsInput
<1>9. Return("completed").op = "return" /\ \A x : Continue(x).op = "continue" /\ Continue(x).prog = x
  BY DEF Return, Continue
<1> QED
  BY <1>1, <1>6, <1>7, <1>8, <1>9

\* A run of a chain: what a step leaves of its place in it.
LEMMA ChainStays ==
    ASSUME GuestsAreThePorts, Sane, Heirs, Heirs', Scripts, Next, NEW q \in RunIds,
           runs[q].status # "absent", Is(q, "casnchild"), OfItsChain(q)
    PROVE  OfItsChain(q)'
<1> USE DEF Sane
<1>1. First(q) \in RunIds /\ runs[First(q)].status # "absent"
  BY KinAreKnown
<1>2. /\ Before(q)' = Before(q) /\ First(q)' = First(q)
      /\ \A x \in RunIds : runs[x].status # "absent" => First(x)' = First(x)
  BY KinStay
<1>3. runs'[q].prog = runs[q].prog /\ runs'[First(q)].prog = runs[First(q)].prog
  BY <1>1, RunsStay
<1>4. ASSUME NEW x \in Before(q)' PROVE runs'[x].status = "done" /\ Iterated(x)'
  <2>1. x \in RunIds /\ runs[x].status = "done" /\ Iterated(x)
    BY <1>2 DEF OfItsChain, Before
  <2>2. runs'[x] = runs[x]
    BY <2>1, RunsStay DEF Terminal
  <2> QED
    BY <2>1, <2>2, IteratedStays
<1>5. ASSUME runs'[q].status = "done"
      PROVE  /\ Iterated(q)'
             /\ \/ runs[q].prog.iterations <= 1
                \/ \E x \in RunIds : First(x)' = First(q) /\ q < x
  <2>1. CASE runs[q].status \in Terminal
    <3>1. runs[q].status = "done"
      BY <1>5, <2>1, RunsStay
    <3>2. ASSUME NEW x \in RunIds, First(x) = First(q) PROVE First(x)' = First(q)
      BY <1>2, <3>2, KinAreKnown
    <3> QED
      BY <3>1, <3>2, IteratedStays DEF OfItsChain
  <2>2. CASE runs[q].status \notin Terminal /\ Returned(q)
    <3>1. Asks(q).op = "return"
      BY <1>5, <2>2 DEF Returned, FinalStatus
    <3> QED
      BY <3>1, IterationIsDone, IteratedStays
  <2>3. CASE runs[q].status \notin Terminal /\ Continued(q)
    <3>1. Asks(q).op = "continue"
      BY <2>3 DEF Continued
    <3>2. PICK n \in RunIds : /\ runs[n].status = "absent"
                              /\ runs'[n] = Fresh(Asks(q).prog, runs[q].parent, runs[q].policy, First(q))
      BY <2>3 DEF Continued
    <3>3. runs'[n].from = First(q)
      BY <3>2 DEF Fresh, Absent
    <3>4. First(n)' = First(q)
      BY <1>1, <3>3, RunIdsAreNumbers DEF First
    <3>5. q < n
      BY <3>2 DEF Heirs, NoGaps
    <3> QED
      BY <3>1, <3>4, <3>5, IterationIsDone, IteratedStays
  <2> QED
    BY <1>5, <2>1, <2>2, <2>3, RowsChange DEF Terminal, Swept
<1> QED
  BY <1>2, <1>3, <1>4, <1>5 DEF OfItsChain

\* A run with no predecessor, and one that goes on from r.
LEMMA ChainBegins ==
    ASSUME GuestsAreThePorts, Sane, Sane', Heirs, Heirs', Next, NEW q \in RunIds,
           runs[q].status = "absent", runs'[q].status = "ready", runs'[q].from = 0,
           Is(q, "casnchild")'
    PROVE  OfItsChain(q)'
<1>1. First(q)' = q
  BY DEF First
<1>2. ASSUME NEW x \in Before(q)' PROVE FALSE
  <2>1. x \in RunIds /\ First(x)' = q /\ x < q
    BY <1>1 DEF Before
  <2>2. runs[x].status # "absent"
    <3>1. runs'[x].status # "absent"
      BY <2>1 DEF Heirs, NoGaps, First
    <3>2. x # q
      BY <2>1, RunIdsAreNumbers
    <3> QED
      BY <2>1, <3>1, <3>2, NewRows DEF Sane
  <2>3. First(x) = q
    BY <2>1, <2>2, KinStay DEF Sane
  <2> QED
    BY <2>1, <2>2, <2>3, KinAreKnown
<1>3. Before(q)' = {} /\ Cardinality({}) = 0
  BY <1>2, FS_EmptySet
<1>4. runs'[q].prog.iterations \in Nat
  BY DEF Sane, Guests, Reasonable, IsInput, Is
<1>5. runs'[q].prog.iterations + 0 = runs'[q].prog.iterations
  BY <1>4
<1> QED
  BY <1>1, <1>3, <1>5 DEF OfItsChain

LEMMA ChainGoesOn ==
    ASSUME GuestsAreThePorts, Sane, Heirs, Heirs', Scripts, Chains, Next, NEW q \in RunIds,
           runs[q].status = "absent", runs'[q].status = "ready", Is(q, "casnchild")',
           NEW r \in RunIds, r # q, Segment(r), Asks(r).op = "continue",
           runs'[q].prog = Asks(r).prog, runs'[q].from = First(r), runs'[r].status = "done"
    PROVE  OfItsChain(q)'
<1> USE DEF Sane
<1>1. runs[r].status = "running"
  BY DEF Segment
<1>2. Is(r, "casnchild")
  BY <1>1, AsksOrDrains DEF Speaks, Drains, Is
<1>3. /\ Iterated(r) /\ runs[r].prog.iterations \in Nat
      /\ Asks(r).prog = [runs[r].prog EXCEPT !.iterations = @ - 1]
  BY <1>1, <1>2, IterationIsDone
<1>4. First(r) \in RunIds /\ runs[First(r)].status # "absent" /\ OfItsChain(r)
  BY <1>1, <1>2, KinAreKnown DEF Chains
<1>5. First(q)' = First(r) /\ First(r)' = First(r) /\ r < q
  <2>1. First(q)' = First(r)
    BY <1>4, RunIdsAreNumbers DEF First
  <2> QED
    BY <1>1, <2>1, KinStay DEF Heirs, NoGaps
<1>6. ASSUME NEW x \in Before(q)' PROVE x \in Before(r) \cup {r}
  <2>1. x \in RunIds /\ First(x)' = First(r) /\ x < q
    BY <1>5 DEF Before
  <2>2. runs[x].status # "absent"
    <3>1. ~(q < x)
      BY <2>1, RunIdsAreNumbers
    <3>2. x # q
      BY <2>1, RunIdsAreNumbers
    <3>3. runs'[x].status # "absent"
      BY <2>1, <3>1 DEF Heirs, NoGaps
    <3> QED
      BY <2>1, <3>2, <3>3, NewRows
  <2>3. First(x) = First(r)
    BY <2>1, <2>2, KinStay
  <2>4. ~(r < x)
    <3>1. ASSUME r < x PROVE FALSE
      <4>1. r \in Before(x)
        BY <2>3, <3>1 DEF Before
      <4>2. Is(x, "casnchild")
        BY <1>1, <1>2, <2>1, <2>3, KinAreKnown DEF Is
      <4>3. runs[r].status = "done"
        BY <2>1, <2>2, <4>1, <4>2 DEF Chains, OfItsChain
      <4> QED
        BY <1>1, <4>3
    <3> QED
      BY <3>1
  <2> QED
    BY <2>1, <2>3, <2>4, RunIdsAreNumbers DEF Before
<1>7. ASSUME NEW x \in Before(r) \cup {r} PROVE x \in Before(q)'
  <2>1. x \in RunIds /\ First(x) = First(r) /\ x < q
    BY <1>5, RunIdsAreNumbers DEF Before
  <2>2. First(x)' = First(r)
    BY <1>1, <2>1, KinAreKnown, KinStay
  <2> QED
    BY <1>5, <2>1, <2>2 DEF Before
<1>8. Before(q)' = Before(r) \cup {r}
  BY <1>6, <1>7
<1>9. ASSUME NEW x \in Before(q)' PROVE runs'[x].status = "done" /\ Iterated(x)'
  <2>1. CASE x = r
    BY <1>3, <2>1, IteratedStays
  <2>2. CASE x \in Before(r)
    <3>1. x \in RunIds /\ runs[x].status = "done" /\ Iterated(x)
      BY <1>4, <2>2 DEF OfItsChain, Before
    <3>2. runs'[x] = runs[x]
      BY <3>1, RunsStay DEF Terminal
    <3> QED
      BY <3>1, <3>2, IteratedStays
  <2> QED
    BY <1>8, <2>1, <2>2
<1>10. runs'[q].prog.iterations + Cardinality(Before(q)') = runs'[First(q)'].prog.iterations
  <2>1. r \notin Before(r)
    BY RunIdsAreNumbers DEF Before
  <2>2. IsFiniteSet(Before(r)) /\ Cardinality(Before(r)) \in Nat
    <3>1. Before(r) \in SUBSET RunIds
      BY DEF Before
    <3> QED
      BY <3>1, DoersAreFinite
  <2>3. Cardinality(Before(q)') = Cardinality(Before(r)) + 1
    BY <1>8, <2>1, <2>2, FS_AddElement
  <2>4. runs'[q].prog.iterations = runs[r].prog.iterations - 1
    BY <1>3
  <2>5. runs'[First(r)].prog = runs[First(r)].prog
    BY <1>4, RunsStay
  <2>6. runs[r].prog.iterations + Cardinality(Before(r)) = runs[First(r)].prog.iterations
    BY <1>4 DEF OfItsChain
  <2> QED
    BY <1>3, <1>5, <2>2, <2>3, <2>4, <2>5, <2>6
<1> QED
  BY <1>9, <1>10 DEF OfItsChain

LEMMA ChainsStep ==
    ASSUME GuestsAreThePorts, Sane, Sane', Heirs, Heirs', Scripts, Chains, Next PROVE Chains'
<1> SUFFICES ASSUME NEW q \in RunIds, runs'[q].status # "absent", Is(q, "casnchild")'
             PROVE  OfItsChain(q)'
  BY DEF Chains
<1>1. CASE runs[q].status # "absent"
  <2>1. Is(q, "casnchild")
    BY <1>1, RunsStay DEF Sane, Is
  <2> QED
    BY <1>1, <2>1, ChainStays DEF Chains
<1>2. CASE runs[q].status = "absent"
  <2>1. PICK r \in RunIds :
           /\ r # q /\ Segment(r) /\ runs'[q].prog = Asks(r).prog
           /\ \/ Asks(r).op \in {"spawn", "detach"} /\ runs'[q].from = 0
              \/ /\ Asks(r).op = "continue" /\ runs'[q].from = First(r)
                 /\ runs'[r].status = "done"
    BY <1>2, NewRows DEF Sane
  <2>2. runs'[q].status = "ready"
    BY <1>2, NewRows DEF Sane
  <2> QED
    BY <1>2, <2>1, <2>2, ChainBegins, ChainGoesOn
<1> QED
  BY <1>1, <1>2

\* The iterations that have been answered: recorded, or with the answer in a worker's hands.
Iterates(q) == exec[q].got = "ok" /\ Asks(q).op = "call" /\ Asks(q).tag = "Iteration"

Iterators == {q \in RunIds : runs[q].status # "absent" /\ (Iterated(q) \/ Iterates(q))}

\* Each of them is a request of its own.
IterationsAreKnown == Cardinality(Iterators) <= Received("Iteration")

LEMMA IteratorsGrow ==
    ASSUME GuestsAreThePorts, Sane, Spends, Next, NEW q \in Iterators', q \notin Iterators
    PROVE  Executing(q) /\ MakeCall(q, Asks(q)) /\ Asks(q).tag = "Iteration"
<1> USE DEF Sane
<1>1. q \in RunIds /\ runs'[q].status # "absent"
  BY DEF Iterators
<1>2. CASE Iterated(q)'
  <2>1. PICK i \in DOMAIN runs'[q].hist :
           /\ runs'[q].hist[i].op = "call" /\ runs'[q].hist[i].tag = "Iteration"
           /\ runs'[q].hist[i].res = "ok"
    BY <1>2 DEF Iterated
  <2>2. runs[q].status # "absent"
    <3>1. DOMAIN <<>> = {}
      BY Tuples, HeardIsPrefix
    <3> QED
      BY <1>1, <2>1, <3>1, NewRows
  <2>3. ~Iterated(q) /\ ~Iterates(q)
    BY <1>1, <2>2 DEF Iterators
  <2>4. Went(q) \/ runs'[q] = runs[q]
    BY <1>1, <2>2, EngineRows, NewIdIsAbsent DEF Guests, Evolves, Born
  <2>5. runs'[q].hist # runs[q].hist
    BY <2>1, <2>3 DEF Iterated
  <2>6. Spoke(q)
    BY <2>4, <2>5 DEF Went, Returned, Continued, Swept, Warned, Moved, Keeps
  <2>7. PICK e : Recorded(q, Asks(q), e) /\ runs'[q].hist = Append(runs[q].hist, e)
    BY <2>6 DEF Spoke
  <2>8. IsSeq(runs[q].hist)
    BY <1>1 DEF Guests, Table, IsRow
  <2>9. (i \in DOMAIN runs[q].hist /\ runs'[q].hist[i] = runs[q].hist[i]) \/ runs'[q].hist[i] = e
    BY <2>1, <2>7, <2>8, Grows
  <2>10. e.op = "call" /\ e.tag = "Iteration" /\ e.res = "ok"
    BY <2>1, <2>3, <2>9 DEF Iterated
  <2>11. Iterates(q)
    BY <2>7, <2>10 DEF Recorded, Iterates
  <2> QED
    BY <2>3, <2>11
<1>3. CASE Iterates(q)'
  <2>1. exec'[q].got = "ok" /\ Asks(q)'.op = "call" /\ Asks(q)'.tag = "Iteration"
    BY <1>3 DEF Iterates
  <2>2. Executing(q) => runs[q].status # "absent" /\ runs'[q].prog = runs[q].prog
    BY <1>1, RunsStay DEF Hands
  <2>3. CASE exec'[q] = exec[q] /\ Executing(q) /\ runs'[q].hist = runs[q].hist
    <3>1. Asks(q)' = Asks(q)
      BY <2>2, <2>3 DEF Asks
    <3> QED
      BY <1>1, <2>1, <2>2, <2>3, <3>1 DEF Iterators, Iterates
  <2>4. CASE Executing(q) /\ MakeCall(q, Asks(q))
    <3>1. Asks(q)' = Asks(q)
      BY <2>4 DEF MakeCall, Asks
    <3> QED
      BY <2>1, <2>4, <3>1
  <2>5. ~RefuseCall(q, Asks(q))
    BY <1>1, <2>1 DEF RefuseCall, Hands
  <2> QED
    BY <1>1, <2>1, <2>3, <2>4, <2>5, EngineSegment DEF Guests
<1> QED
  BY <1>1, <1>2, <1>3 DEF Iterators

LEMMA IterationsStep ==
    ASSUME GuestsAreThePorts, Sane, Spends, IterationsAreKnown, Next PROVE IterationsAreKnown'
<1> USE DEF Sane
<1>1. Received("Iteration") \in Nat /\ Received("Iteration")' >= Received("Iteration")
  BY LogGrows
<1>2. /\ IsFiniteSet(Iterators) /\ Cardinality(Iterators) \in Nat
      /\ IsFiniteSet(Iterators') /\ Cardinality(Iterators') \in Nat
  <2>1. Iterators \in SUBSET RunIds /\ Iterators' \in SUBSET RunIds
    BY DEF Iterators
  <2> QED
    BY <2>1, DoersAreFinite
<1>3. CASE Iterators' \subseteq Iterators
  <2>1. Cardinality(Iterators') <= Cardinality(Iterators)
    BY <1>2, <1>3, FS_Subset
  <2>2. Received("Iteration")' \in Nat
    BY <1>1, LogGrows
  <2> QED
    BY <1>1, <1>2, <2>1, <2>2 DEF IterationsAreKnown
<1>4. ASSUME NEW q \in Iterators', q \notin Iterators PROVE IterationsAreKnown'
  <2>1. q \in RunIds /\ Executing(q) /\ MakeCall(q, Asks(q)) /\ Asks(q).tag = "Iteration"
    BY <1>4, IteratorsGrow DEF Iterators
  <2>2. log' = Append(log, "Iteration")
    BY <2>1 DEF MakeCall
  <2>3. Received("Iteration")' = Received("Iteration") + 1
    BY <2>2, CountGrows DEF Received
  <2>4. ASSUME NEW x \in Iterators' PROVE x \in Iterators \cup {q}
    <3>1. ASSUME x \notin Iterators, x # q PROVE FALSE
      <4>1. x \in RunIds /\ MakeCall(x, Asks(x))
        BY <3>1, IteratorsGrow DEF Iterators
      <4>2. exec'[x] = exec[x]
        BY <2>1, <3>1, <4>1 DEF MakeCall, Hands
      <4>3. exec'[x].spent = exec[x].spent + 1 /\ exec[x].spent \in Nat
        BY <4>1 DEF MakeCall, Hands
      <4> QED
        BY <4>2, <4>3
    <3> QED
      BY <3>1
  <2>5. Cardinality(Iterators \cup {q}) = Cardinality(Iterators) + 1 /\ IsFiniteSet(Iterators \cup {q})
    BY <1>2, <1>4, FS_AddElement
  <2>6. Cardinality(Iterators') <= Cardinality(Iterators \cup {q})
    BY <2>4, <2>5, FS_Subset
  <2> QED
    BY <1>1, <1>2, <2>3, <2>5, <2>6 DEF IterationsAreKnown
<1> QED
  BY <1>3, <1>4

\* Where a chain has come to.
LEMMA LatestIsLast ==
    ASSUME Heirs, NEW k \in RunIds, runs[k].status # "absent", runs[k].from = 0
    PROVE  /\ Latest(k) \in RunIds /\ First(Latest(k)) = k
           /\ \A x \in RunIds : First(x) = k => ~(Latest(k) < x)
<1> DEFINE C == {q \in RunIds : First(q) = k}
<1>1. k \in C
  BY DEF First
<1>2. C \in SUBSET Nat /\ IsFiniteSet(C)
  BY RunIdsAreNumbers, FS_Subset
<1>3. Max(C) \in C /\ \A y \in C : y <= Max(C)
  <2> HIDE DEF C
  <2> QED
    BY <1>1, <1>2, GreatestOfFinite
<1>4. \A y \in C : ~(Max(C) < y)
  BY <1>2, <1>3
<1> QED
  BY <1>3, <1>4 DEF Latest

LEMMA DoneChainsHaveIterated ==
    ASSUME GuestsAreThePorts, Sane, Heirs, Chains, IterationsAreKnown,
           NEW k \in RunIds, runs[k].status # "absent", runs[k].from = 0, Is(k, "casnchild"),
           runs[Latest(k)].status = "done"
    PROVE  Received("Iteration") >= runs[k].prog.iterations
<1> USE DEF Sane
<1>1. PICK l \in RunIds : l = Latest(k) /\ First(l) = k /\ \A x \in RunIds : First(x) = k => ~(l < x)
  BY LatestIsLast
<1>2. First(k) = k
  BY DEF First
<1>3. Is(l, "casnchild") /\ runs[l].status # "absent"
  BY <1>1, <1>2, KinAreKnown DEF Is
<1>4. OfItsChain(l) /\ Iterated(l) /\ runs[l].prog.iterations <= 1
  BY <1>1, <1>3 DEF Chains, OfItsChain
<1>5. runs[l].prog.iterations \in Nat
  BY <1>3 DEF Guests, Reasonable, IsInput, Is
<1>6. Before(l) \in SUBSET RunIds /\ l \notin Before(l)
  BY RunIdsAreNumbers DEF Before
<1>7. IsFiniteSet(Before(l)) /\ Cardinality(Before(l)) \in Nat
  BY <1>6, DoersAreFinite
<1>8. Cardinality(Before(l) \cup {l}) = Cardinality(Before(l)) + 1
  BY <1>6, <1>7, FS_AddElement
<1>9. Before(l) \cup {l} \subseteq Iterators
  <2>1. \A x \in Before(l) : x \in RunIds /\ runs[x].status # "absent" /\ Iterated(x)
    BY <1>4, <1>6 DEF OfItsChain
  <2> QED
    BY <1>3, <1>4, <2>1 DEF Iterators
<1>10. Iterators \in SUBSET RunIds
  BY DEF Iterators
<1>11. IsFiniteSet(Iterators) /\ Cardinality(Iterators) \in Nat
  BY <1>10, DoersAreFinite
<1>12. Cardinality(Before(l) \cup {l}) <= Cardinality(Iterators)
  BY <1>9, <1>11, FS_Subset
<1>13. Received("Iteration") \in Nat
  BY CountGrows DEF Received
<1>14. runs[l].prog.iterations + Cardinality(Before(l)) = runs[k].prog.iterations
  BY <1>1, <1>4 DEF OfItsChain
<1>15. PICK i, b, n, c, g :
          /\ i = runs[l].prog.iterations /\ b = Cardinality(Before(l))
          /\ n = runs[k].prog.iterations /\ c = Cardinality(Iterators)
          /\ g = Received("Iteration")
  OBVIOUS
<1>16. i \in Nat /\ i <= 1 /\ b \in Nat /\ b + 1 <= c /\ c \in Nat /\ c <= g /\ g \in Nat /\ i + b = n
  BY <1>4, <1>5, <1>7, <1>8, <1>11, <1>12, <1>13, <1>14, <1>15 DEF IterationsAreKnown
<1> QED
  BY <1>15, <1>16

\* A parent that has been told of the end of its child, and one that is done.
HasSeen(r) ==
    LET h == runs[r].hist
    IN /\ Len(h) >= 2 /\ ~Failed(h) => Received("Iteration") >= runs[r].prog.child.iterations
       /\ runs[r].status = "done" => Len(h) >= 2 /\ ~Failed(h)

Sightings == \A r \in RunIds : runs[r].status # "absent" /\ Is(r, "casnparent") => HasSeen(r)

ChainInv ==
    /\ Sane /\ Spends /\ InHand /\ Heirs /\ Scripts /\ Chains
    /\ IterationsAreKnown /\ Sightings

LEMMA SightingsStep ==
    ASSUME GuestsAreThePorts, ChainInv, Next PROVE Sightings'
<1> SUFFICES ASSUME NEW r \in RunIds, runs'[r].status # "absent", Is(r, "casnparent")'
             PROVE  HasSeen(r)'
  BY DEF Sightings
<1> USE DEF ChainInv, Sane
<1>1. CASE runs[r].status = "absent"
  <2>1. runs'[r].hist = <<>> /\ Len(<<>>) = 0 /\ runs'[r].status = "ready"
    BY <1>1, NewRows, Tuples
  <2> QED
    BY <2>1 DEF HasSeen
<1>2. CASE runs[r].status # "absent"
  <2>1. runs'[r].prog = runs[r].prog /\ Is(r, "casnparent")
    BY <1>2, RunsStay DEF Is
  <2>2. HasSeen(r)
    BY <1>2, <2>1 DEF Sightings
  <2>3. PICK h, p : h = runs[r].hist /\ p = runs[r].prog
    OBVIOUS
  <2>4. /\ IsInput(p) /\ p.w = "casnparent" /\ IsSeq(h) /\ Len(h) \in Nat /\ DOMAIN h = 1..Len(h)
        /\ Asks(r) = Body(p, h)
    BY <1>2, <2>1, <2>3, CasnAsks DEF Is
  <2>5. Received("Iteration") \in Nat /\ Received("Iteration")' \in Nat
        /\ Received("Iteration")' >= Received("Iteration")
    BY LogGrows
  <2>6. p.child.iterations \in Nat
    BY <2>4 DEF IsInput
  <2>7. CASE Spoke(r)
    <3>1. PICK e : Recorded(r, Asks(r), e) /\ runs'[r].hist = Append(h, e)
      BY <2>3, <2>7 DEF Spoke
    <3>2. Asks(r).op \in EngineOps /\ runs'[r].status # "done"
      BY <2>7 DEF Spoke
    <3>3. Asks(r) # Wrapped /\ Asks(r) # Return("completed")
      BY <3>2 DEF EngineOps, Wrapped, Return
    <3>4. ~Failed(h) /\ ~(Len(h) >= 2)
      BY <2>4, <3>3, CasnParentBody
    <3>5. ASSUME Len(h) = 1, ~Failed(runs'[r].hist)
          PROVE  Received("Iteration") >= p.child.iterations
      <4>1. Asks(r) = Await(h[1].run)
        BY <2>4, <3>4, <3>5, CasnParentBody
      <4>2. Asks(r).op = "await" /\ ~Asks(r).any /\ Asks(r).kids = {h[1].run}
        BY <4>1 DEF Await, AwaitAll
      <4>3. runs'[r].hist[2] = e /\ 2 \in DOMAIN runs'[r].hist
        <5>1. Append(h, e)[Len(h) + 1] = e /\ DOMAIN Append(h, e) = 1..Len(h) + 1
          BY <2>4, Grows
        <5>2. Len(h) + 1 = 2
          BY <3>5
        <5> QED
          BY <3>1, <5>1, <5>2
      <4>4. e.res = "ok"
        BY <3>1, <3>5, <4>2, <4>3 DEF Recorded, Failed
      <4>5. runs[Latest(h[1].run)].status = "done"
        BY <3>1, <4>2, <4>4 DEF Recorded
      <4>6. PICK k \in RunIds : k = h[1].run /\ runs[k].status # "absent" /\ runs[k].from = 0
                                /\ runs[k].prog = p.child
        BY <1>2, <2>1, <2>3, <3>5 DEF Scripts, OfTheScript, Starts
      <4>7. Is(k, "casnchild")
        BY <2>4, <4>6 DEF Is, IsInput
      <4> QED
        BY <4>5, <4>6, <4>7, DoneChainsHaveIterated
    <3>6. Len(runs'[r].hist) = Len(h) + 1
      BY <2>4, <3>1, Grows
    <3>7. ASSUME Len(runs'[r].hist) >= 2, ~Failed(runs'[r].hist)
          PROVE  Received("Iteration")' >= runs'[r].prog.child.iterations
      <4>1. Len(h) = 1
        BY <2>4, <3>4, <3>6, <3>7
      <4> QED
        BY <2>1, <2>3, <2>5, <2>6, <3>5, <3>7, <4>1
    <3> QED
      BY <3>2, <3>7 DEF HasSeen
  <2>8. CASE runs'[r].hist = h
    <3>1. Len(h) >= 2 /\ ~Failed(h) => Received("Iteration")' >= p.child.iterations
      BY <2>2, <2>3, <2>5, <2>6 DEF HasSeen
    <3>2. ASSUME runs'[r].status = "done" PROVE Len(h) >= 2 /\ ~Failed(h)
      <4>1. CASE runs[r].status \in Terminal
        <5>1. runs'[r] = runs[r]
          BY <1>2, <4>1, RunsStay
        <5> QED
          BY <2>2, <2>3, <3>2, <5>1 DEF HasSeen
      <4>2. CASE Returned(r)
        <5>1. Asks(r).op = "return"
          BY <3>2, <4>2 DEF Returned, FinalStatus
        <5>2. Asks(r) # Wrapped /\ \A x : Asks(r) # Child(x) /\ Asks(r) # Await(x)
          BY <5>1 DEF Wrapped, Child, ChildUnder, Await, AwaitAll
        <5>3. ~Failed(h) /\ Len(h) # 0 /\ Len(h) # 1
          BY <2>4, <5>2, CasnParentBody
        <5> QED
          BY <2>4, <5>3
      <4>3. ~Continued(r)
        BY <1>2, <2>1, AsksOrDrains DEF Continued, Speaks, Drains, Is
      <4> QED
        BY <1>2, <3>2, <4>1, <4>2, <4>3, RowsChange DEF Terminal, Swept
    <3> QED
      BY <2>1, <2>3, <2>8, <3>1, <3>2 DEF HasSeen
  <2>9. runs'[r] = runs[r] \/ Went(r)
    BY <1>2, EngineRows, NewIdIsAbsent DEF Guests, Evolves, Born
  <2> QED
    BY <2>3, <2>7, <2>8, <2>9 DEF Went, Returned, Continued, Swept, Warned, Moved, Keeps
<1> QED
  BY <1>1, <1>2

LEMMA ChainStart == ASSUME Init PROVE ChainInv
<1>1. DOMAIN <<>> = {} /\ Len(<<>>) = 0
  <2>1. IsSeq(<<>>) /\ Len(<<>>) = 0
    BY Tuples
  <2> QED
    BY <2>1, HeardIsPrefix
<1>2. \A r \in RunIds : /\ runs[r].hist = <<>> /\ runs[r].status \in {"ready", "absent"}
                        /\ runs[r].from = 0 /\ First(r) = r
                        /\ runs[r].status = "absent" <=> r \notin DOMAIN scenario.starts
                        /\ exec[r].spent = 0 /\ exec[r].got = "none" /\ exec[r].child = 0
  BY DEF Init, Fresh, Absent, Idle, First
<1>3. Sane
  BY SaneInit
<1>4. Spends /\ InHand
  BY <1>2 DEF Spends, InHand
<1>5. Heirs
  <2>1. ASSUME NEW r \in RunIds, NEW q \in RunIds, runs[r].status = "absent", runs[q].status # "absent"
        PROVE  q < r
    <3>1. q \in DOMAIN scenario.starts /\ r \notin DOMAIN scenario.starts /\ scenario \in Scenarios
      BY <1>2, <2>1 DEF Init
    <3>2. ~(r < q)
      BY <3>1, TestsFillTheFirstRows
    <3>3. r # q /\ r \in Nat /\ q \in Nat
      BY <2>1, RunIdsAreNumbers
    <3> QED
      BY <3>2, <3>3
  <2> QED
    BY <1>2, <2>1 DEF Heirs, NoGaps, Heir
<1>6. Scripts /\ Sightings
  BY <1>1, <1>2 DEF Scripts, OfTheScript, Sightings, HasSeen
<1>7. Chains
  <2>1. ASSUME NEW q \in RunIds, runs[q].status # "absent", Is(q, "casnchild") PROVE OfItsChain(q)
    <3>1. Before(q) = {}
      <4>1. ASSUME NEW x \in RunIds, First(x) = First(q), x < q PROVE FALSE
        <5>1. x = q /\ q \in Nat
          BY <1>2, <4>1, RunIdsAreNumbers
        <5> QED
          BY <4>1, <5>1
      <4> QED
        BY <4>1 DEF Before
    <3>2. runs[q].prog.iterations \in Nat
      BY <1>3, <2>1 DEF Sane, Guests, Reasonable, IsInput, Is
    <3>3. Cardinality(Before(q)) = 0
      BY <3>1, FS_EmptySet
    <3> QED
      BY <1>2, <3>1, <3>2, <3>3 DEF OfItsChain
  <2> QED
    BY <2>1 DEF Chains
<1>8. IterationsAreKnown
  <2>1. Iterators = {}
    BY <1>1, <1>2 DEF Iterators, Iterated, Iterates
  <2>2. Cardinality(Iterators) = 0
    BY <2>1, FS_EmptySet
  <2>3. Received("Iteration") \in Nat
    BY <1>3, CountGrows DEF Received, Sane
  <2> QED
    BY <2>2, <2>3 DEF IterationsAreKnown
<1> QED
  BY <1>3, <1>4, <1>5, <1>6, <1>7, <1>8 DEF ChainInv

LEMMA ChainStep == ASSUME GuestsAreThePorts, ChainInv, [Next]_vars PROVE ChainInv'
<1>1. CASE Next
  <2> USE DEF ChainInv
  <2>1. Sane'
    BY <1>1, SaneStep
  <2>2. Spends' /\ InHand' /\ Heirs'
    BY <1>1, SpendsStep, InHandStep, HeirsStep DEF Sane, Guests
  <2>3. Scripts' /\ IterationsAreKnown' /\ Sightings'
    BY <1>1, ScriptsStep, IterationsStep, SightingsStep
  <2>4. Chains'
    BY <1>1, <2>1, <2>2, ChainsStep
  <2> QED
    BY <2>1, <2>2, <2>3, <2>4
<1>2. CASE UNCHANGED vars
  <2>1. Sane'
    BY <1>2, SaneStep DEF ChainInv
  <2>2. (Spends /\ InHand /\ Heirs /\ Scripts)'
    BY <1>2 DEF ChainInv, vars, Spends, InHand, Starts, Heirs, NoGaps, Heir, Scripts, OfTheScript,
                Asks, Is
  <2>3. Chains'
    <3>1. \A q : Before(q)' = Before(q) /\ Iterated(q)' = Iterated(q) /\ First(q)' = First(q)
                /\ Is(q, "casnchild")' = Is(q, "casnchild")
      BY <1>2 DEF vars, Before, First, Iterated, Is
    <3> QED
      BY <1>2, <3>1 DEF ChainInv, vars, Chains, OfItsChain
  <2>4. (IterationsAreKnown /\ Sightings)'
    <3>1. Iterators' = Iterators /\ Received("Iteration")' = Received("Iteration")
      BY <1>2 DEF vars, Iterators, Iterated, Iterates, Asks, Received, Count
    <3> QED
      BY <1>2, <3>1 DEF ChainInv, vars, IterationsAreKnown, Sightings, HasSeen, Is
  <2> QED
    BY <2>1, <2>2, <2>3, <2>4 DEF ChainInv
<1> QED
  BY <1>1, <1>2

\* A parent that awaits a child that continues as new goes on after its last iteration: when the
\* parent is done, the fixture has received as many iterations as the chain was started with,
\* however many runs the chain took and whatever a crash kept from history.
THEOREM ParentsSeeTheLastIteration ==
    ASSUME GuestsAreThePorts PROVE Spec => []ParentSeesTheLastIteration
<1>1. ChainInv => ParentSeesTheLastIteration
  BY DEF ChainInv, Sightings, HasSeen, ParentSeesTheLastIteration
<1>2. ChainInv /\ [Next]_vars => ChainInv'
  BY ChainStep
<1> QED
  BY <1>1, <1>2, ChainStart, PTL DEF Spec
=============================================================================
