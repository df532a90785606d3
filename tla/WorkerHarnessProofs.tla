----------------------- MODULE WorkerHarnessProofs -----------------------
(***************************************************************************)
(* worker.sh never signals what is not its own, for any number of          *)
(* sessions, slots, ports, databases and overlapping invocations.          *)
(*                                                                         *)
(* The script checks ownership in one step (pidfile, argv) and signals in  *)
(* a later one.  The argument is that what it checked still holds then: a  *)
(* pidfile only ever names processes its own slot started, a process keeps *)
(* what it runs and who started it for as long as its pid is not free, and *)
(* the pid an invocation holds is not given to a stranger.                 *)
(*                                                                         *)
(* Then: the key ensure goes on with works, and what a crash, a stop and   *)
(* the other verbs leave behind.                                           *)
(***************************************************************************)
EXTENDS WorkerHarness, TLAPS

States == {"free", "starting", "serving", "stopping", "dead", "reused"}

\* The variables the argument is about are functions with the right values.
Shape ==
    /\ state \in [Pids -> States]
    /\ kind \in [Pids -> {"worker", "fixture"}]
    /\ spawner \in [Pids -> Slots \cup {NoSlot}]
    /\ signalled \in [Pids -> {"none", "term", "kill"}]
    /\ pidfile \in [Slots -> PidOrNone]
    /\ fixpid \in [Sessions -> PidOrNone]
    /\ verb \in [Invocations -> AllVerbs]
    /\ slot \in [Invocations -> Slots \cup {NoSlot}]
    /\ then \in [Invocations -> {"none", "done", "sf_owned", "role", "fail"}]
    /\ route \in [Invocations -> {"none", "verify", "start"}]
    /\ target \in [Invocations -> PidOrNone]
    /\ pc = [i \in Invocations |-> pc[i]]
    /\ rc \in [Invocations -> Nat]

\* p was started by slot s, as its worker or as a fixture of its session.
StartedBy(p, what, s) ==
    /\ p \in Pids /\ state[p] # "free" /\ kind[p] = what
    /\ spawner[p] = s /\ s \in Slots

FixtureOf(p, s) ==
    /\ p \in Pids /\ state[p] # "free" /\ kind[p] = "fixture"
    /\ spawner[p] \in Slots /\ SessionOf[spawner[p]] = s

WorkerLabels  == {"sw_term", "sw_wait", "sw_wait2", "crash_kill", "crash_wait"}
FixtureLabels == {"sf_term", "sf_wait"}
StopLabels    == FixtureLabels \cup {"sf_owned", "sf_rm", "sf_probe"}
Guarded       == WorkerLabels \cup StopLabels \cup {"write", "fx_write", "new"}

\* A launched invocation has a slot.
Placed == \A i \in Invocations : pc[i] # "new" => slot[i] \in Slots

\* The pidfiles name what their slot and their session started.
Pidfiles ==
    /\ \A s \in Slots : pidfile[s] # NoPid => StartedBy(pidfile[s], "worker", s)
    /\ \A s \in Sessions : fixpid[s] # NoPid => FixtureOf(fixpid[s], s)

\* So does $! before it is written down.
Spawned ==
    \A i \in Invocations :
        /\ pc[i] = "write" => StartedBy(target[i], "worker", slot[i])
        /\ pc[i] = "fx_write" => FixtureOf(target[i], Sess(i))

\* The pid about to be signalled is the one that was checked.
Aimed ==
    \A i \in Invocations :
        /\ pc[i] \in WorkerLabels =>
              StartedBy(target[i], "worker", slot[i]) /\ state[target[i]] # "reused"
        /\ pc[i] \in FixtureLabels =>
              FixtureOf(target[i], Sess(i)) /\ state[target[i]] # "reused"

\* Only the stop verb is ever on its way to stop_fixture.
OnlyStop ==
    \A i \in Invocations :
        /\ pc[i] \in StopLabels => verb[i] = "stop"
        /\ pc[i] # "new" /\ then[i] = "sf_owned" => verb[i] = "stop"

IInv == Shape /\ Placed /\ Pidfiles /\ Spawned /\ Aimed /\ OnlyStop
-----------------------------------------------------------------------------
LEMMA InitIInv == Init => IInv
<1> SUFFICES ASSUME Init PROVE IInv
  OBVIOUS
<1>1. Shape
  <2>1. pc = [i \in Invocations |-> pc[i]]
    BY DEF Init
  <2>2. NoPid \in PidOrNone /\ NoSlot \in Slots \cup {NoSlot}
    BY DEF PidOrNone
  <2>3. /\ pidfile \in [Slots -> PidOrNone] /\ fixpid \in [Sessions -> PidOrNone]
        /\ target \in [Invocations -> PidOrNone]
    BY <2>2 DEF Init
  <2> QED
    BY <2>1, <2>2, <2>3 DEF Init, Shape, States, AllVerbs
<1>2. \A i \in Invocations : pc[i] = "new"
  BY DEF Init
<1>3. Pidfiles
  BY DEF Init, Pidfiles
<1>4. Placed /\ Spawned /\ Aimed /\ OnlyStop
  BY <1>2 DEF Placed, Spawned, Aimed, OnlyStop, WorkerLabels, FixtureLabels, StopLabels
<1> QED
  BY <1>1, <1>3, <1>4 DEF IInv

(* A step that starts no process, writes no pid and comes to no label at   *)
(* which something is known of $pid keeps the invariant.                   *)
LEMMA QuietStep ==
    ASSUME IInv, NEW i \in Invocations,
           UNCHANGED <<state, kind, spawner, slot, verb, target>>,
           signalled' \in [Pids -> {"none", "term", "kill"}],
           pidfile' \in [Slots -> PidOrNone], fixpid' \in [Sessions -> PidOrNone],
           \A s \in Slots : pidfile'[s] \in {pidfile[s], NoPid},
           \A s \in Sessions : fixpid'[s] \in {fixpid[s], NoPid},
           route' \in [Invocations -> {"none", "verify", "start"}],
           then' \in [Invocations -> {"none", "done", "sf_owned", "role", "fail"}],
           \A j \in Invocations : then'[j] = "sf_owned" => then[j] = "sf_owned",
           rc' \in [Invocations -> Nat],
           pc[i] # "new", NEW l, pc' = [pc EXCEPT ![i] = l],
           \/ l \notin Guarded
           \/ l \in WorkerLabels /\ pc[i] \in WorkerLabels
           \/ l \in FixtureLabels /\ pc[i] \in FixtureLabels
           \/ l \in StopLabels \ FixtureLabels /\ verb[i] = "stop"
    PROVE  IInv'
<1>1. \A j \in Invocations : pc'[j] = IF j = i THEN l ELSE pc[j]
  BY DEF IInv, Shape
<1>2. Shape'
  BY DEF IInv, Shape
<1>3. Placed'
  BY <1>1 DEF IInv, Placed
<1>4. Pidfiles'
  BY DEF IInv, Pidfiles, StartedBy, FixtureOf
<1>5. Spawned'
  BY <1>1 DEF IInv, Spawned, StartedBy, FixtureOf, Sess, Guarded, WorkerLabels, FixtureLabels,
              StopLabels
<1>6. Aimed'
  BY <1>1 DEF IInv, Aimed, StartedBy, FixtureOf, Sess, Guarded, WorkerLabels, FixtureLabels,
              StopLabels
<1>7. OnlyStop'
  BY <1>1 DEF IInv, OnlyStop, Guarded, WorkerLabels, FixtureLabels, StopLabels
<1> QED
  BY <1>2, <1>3, <1>4, <1>5, <1>6, <1>7 DEF IInv

LEMMA GotoMoves ==
    ASSUME NEW i \in Invocations, NEW to, Goto(i, to), rc \in [Invocations -> Nat]
    PROVE  /\ pc' = [pc EXCEPT ![i] = to] \/ pc' = [pc EXCEPT ![i] = "exited"]
           /\ rc' \in [Invocations -> Nat]
BY DEF Goto, Exit

(* The steps of ensure that start nothing and write no pid.               *)
LEMMA EnsureQuiet ==
    ASSUME IInv, NEW i \in Invocations,
           \/ EnsureProbe(i)
           \/ EnsureOwned(i)
           \/ EnsureRunning(i)
           \/ FixtureFirstProbe(i)
           \/ FixtureCheckOwned(i)
           \/ FixturePoll(i)
           \/ AppRole(i)
           \/ MigrateFails(i)
           \/ LoopProbe(i)
           \/ LoopRunning(i)
           \/ LoopGiveUp(i)
           \/ MintProbe(i)
           \/ Mint(i)
           \/ MintCheck(i)
           \/ SecondTenant(i)
           \/ SecondTenantCheck(i)
           \/ AllowEgress(i)
    PROVE  IInv'
<1> USE DEF procVars, fileVars, keyVars, localVars, Guarded, WorkerLabels, FixtureLabels,
        StopLabels, Shape
<1>0. Shape /\ rc \in [Invocations -> Nat]
  BY DEF IInv, Shape
<1>1. ASSUME EnsureProbe(i) PROVE IInv'
  BY <1>0, <1>1, QuietStep, GotoMoves DEF EnsureProbe
<1>2. ASSUME EnsureOwned(i) PROVE IInv'
  BY <1>0, <1>2, QuietStep, GotoMoves DEF EnsureOwned, Exit
<1>3. ASSUME EnsureRunning(i) PROVE IInv'
  BY <1>0, <1>3, QuietStep, GotoMoves DEF EnsureRunning, PidOrNone
<1>4. ASSUME FixtureFirstProbe(i) PROVE IInv'
  BY <1>0, <1>4, QuietStep, GotoMoves DEF FixtureFirstProbe
<1>5. ASSUME FixtureCheckOwned(i) PROVE IInv'
  BY <1>0, <1>5, QuietStep, GotoMoves DEF FixtureCheckOwned, Exit, AfterFixture
<1>6. ASSUME FixturePoll(i) PROVE IInv'
  <2>0. Goto(i, AfterFixture(i)) \/ Exit(i, 1)
    BY <1>6, Zenon DEF FixturePoll
  <2>1. \E l \in {"migrate", "mint", "exited"} :
              pc' = [pc EXCEPT ![i] = l] /\ rc' \in [Invocations -> Nat]
    BY <1>0, <2>0, GotoMoves DEF AfterFixture, Exit
  <2> QED
    BY <1>0, <1>6, <2>1, QuietStep
       DEF FixturePoll
<1>7. ASSUME AppRole(i) PROVE IInv'
  BY <1>0, <1>7, QuietStep, GotoMoves DEF AppRole, Exit
<1>8. ASSUME MigrateFails(i) PROVE IInv'
  BY <1>0, <1>8, QuietStep, GotoMoves DEF MigrateFails, Exit
<1>9. ASSUME LoopProbe(i) PROVE IInv'
  BY <1>0, <1>9, QuietStep, GotoMoves DEF LoopProbe
<1>10. ASSUME LoopRunning(i) PROVE IInv'
  BY <1>0, <1>10, QuietStep, GotoMoves DEF LoopRunning, Exit, PidOrNone
<1>11. ASSUME LoopGiveUp(i) PROVE IInv'
  BY <1>0, <1>11, QuietStep, GotoMoves DEF LoopGiveUp
<1>12. ASSUME MintProbe(i) PROVE IInv'
  BY <1>0, <1>12, QuietStep, GotoMoves DEF MintProbe
<1>13. ASSUME Mint(i) PROVE IInv'
  BY <1>0, <1>13, QuietStep, GotoMoves DEF Mint, Exit
<1>14. ASSUME MintCheck(i) PROVE IInv'
  BY <1>0, <1>14, QuietStep, GotoMoves DEF MintCheck, Exit
<1>15. ASSUME SecondTenant(i) PROVE IInv'
  BY <1>0, <1>15, QuietStep, GotoMoves DEF SecondTenant, Exit, AfterTenant
<1>16. ASSUME SecondTenantCheck(i) PROVE IInv'
  BY <1>0, <1>16, QuietStep, GotoMoves DEF SecondTenantCheck, Exit, AfterTenant
<1>17. ASSUME AllowEgress(i) PROVE IInv'
  BY <1>0, <1>17, QuietStep, GotoMoves DEF AllowEgress, Exit
<1> QED
  BY <1>1, <1>2, <1>3, <1>4, <1>5, <1>6, <1>7, <1>8, <1>9, <1>10, <1>11, <1>12, <1>13,
     <1>14, <1>15, <1>16, <1>17

(* Those of stop_worker and stop_fixture, and of crash_worker: a signal is  *)
(* sent to what was checked, and nothing comes to be signalled.            *)
LEMMA StopQuiet ==
    ASSUME IInv, NEW i \in Invocations,
           \/ StopRunning(i)
           \/ StopTerm(i)
           \/ StopWait(i)
           \/ StopSecondWait(i)
           \/ StopProbe(i)
           \/ StopRemovePidfile(i)
           \/ StopFixtureTerm(i)
           \/ StopFixtureWait(i)
           \/ StopFixtureRemove(i)
           \/ StopFixtureProbe(i)
           \/ CrashRunning(i)
           \/ CrashKill(i)
           \/ CrashWait(i)
           \/ CrashNothing(i)
           \/ Survived(i)
           \/ Interrupt(i)
    PROVE  IInv'
<1> USE DEF procVars, fileVars, keyVars, localVars, Guarded, WorkerLabels, FixtureLabels,
        StopLabels, Shape
<1>0. Shape /\ rc \in [Invocations -> Nat]
  BY DEF IInv, Shape
<1>1. ASSUME StopRunning(i) PROVE IInv'
  BY <1>0, <1>1, QuietStep, GotoMoves DEF StopRunning
<1>2. ASSUME StopTerm(i) PROVE IInv'
  BY <1>0, <1>2, QuietStep, GotoMoves DEF StopTerm, Signal
<1>3. ASSUME StopWait(i) PROVE IInv'
  BY <1>0, <1>3, QuietStep, GotoMoves DEF StopWait, Signal
<1>4. ASSUME StopSecondWait(i) PROVE IInv'
  BY <1>0, <1>4, QuietStep, GotoMoves DEF StopSecondWait
<1>5. ASSUME StopProbe(i) PROVE IInv'
  <2>0. Goto(i, "sw_rm") \/ Exit(i, 1)
    BY <1>5, Zenon DEF StopProbe
  <2>1. \E l \in {"sw_rm", "exited"} :
              pc' = [pc EXCEPT ![i] = l] /\ rc' \in [Invocations -> Nat]
    BY <1>0, <2>0, GotoMoves DEF Exit
  <2> QED
    BY <1>0, <1>5, <2>1, QuietStep
       DEF StopProbe, PidOrNone
<1>6. ASSUME StopRemovePidfile(i) PROVE IInv'
  <2>1. /\ pc[i] = "sw_rm" /\ pidfile' = [pidfile EXCEPT ![slot[i]] = NoPid]
        /\ then[i] \in {"none", "done", "sf_owned", "role", "fail"}
        /\ then[i] = "sf_owned" => verb[i] = "stop"
    BY <1>0, <1>6 DEF StopRemovePidfile, IInv, OnlyStop, Shape
  <2>2. /\ rc' \in [Invocations -> Nat]
        /\ \/ pc' = [pc EXCEPT ![i] = then[i]]
           \/ pc' = [pc EXCEPT ![i] = "exited"]
    BY <1>0, <1>6, GotoMoves DEF StopRemovePidfile, Exit
  <2>3. UNCHANGED <<procVars, fixpid, localVars>>
    BY <1>6 DEF StopRemovePidfile
  <2>4. /\ pidfile' \in [Slots -> PidOrNone]
        /\ \A s \in Slots : pidfile'[s] \in {pidfile[s], NoPid}
    BY <1>0, <2>1 DEF Shape, PidOrNone
  <2> QED
    BY <1>0, <2>1, <2>2, <2>3, <2>4, QuietStep
<1>7. ASSUME StopFixtureTerm(i) PROVE IInv'
  BY <1>0, <1>7, QuietStep, GotoMoves DEF StopFixtureTerm, Signal
<1>8. ASSUME StopFixtureWait(i) PROVE IInv'
  BY <1>0, <1>8, QuietStep, GotoMoves DEF StopFixtureWait, Signal, IInv, OnlyStop
<1>9. ASSUME StopFixtureRemove(i) PROVE IInv'
  <2>1. \E l \in {"sf_probe", "exited"} :
              pc' = [pc EXCEPT ![i] = l] /\ rc' \in [Invocations -> Nat]
    BY <1>0, <1>9, GotoMoves DEF StopFixtureRemove
  <2> QED
    BY <1>0, <1>9, <2>1, QuietStep
       DEF StopFixtureRemove, IInv, OnlyStop, PidOrNone
<1>10. ASSUME StopFixtureProbe(i) PROVE IInv'
  BY <1>0, <1>10, QuietStep, GotoMoves DEF StopFixtureProbe, Exit
<1>11. ASSUME CrashRunning(i) PROVE IInv'
  BY <1>0, <1>11, QuietStep, GotoMoves DEF CrashRunning
<1>12. ASSUME CrashKill(i) PROVE IInv'
  <2>1. \E l \in {"crash_wait", "exited"} :
              pc' = [pc EXCEPT ![i] = l] /\ rc' \in [Invocations -> Nat]
    BY <1>0, <1>12, GotoMoves DEF CrashKill
  <2> QED
    BY <1>0, <1>12, <2>1, QuietStep
       DEF CrashKill, Signal
<1>13. ASSUME CrashWait(i) PROVE IInv'
  BY <1>0, <1>13, QuietStep, GotoMoves DEF CrashWait, Exit, PidOrNone
<1>14. ASSUME CrashNothing(i) PROVE IInv'
  BY <1>0, <1>14, QuietStep, GotoMoves DEF CrashNothing, Exit, PidOrNone
<1>15. ASSUME Survived(i) PROVE IInv'
  BY <1>0, <1>15, QuietStep, GotoMoves DEF Survived, Exit, PidOrNone
<1>16. ASSUME Interrupt(i) PROVE IInv'
  BY <1>0, <1>16, QuietStep, GotoMoves DEF Interrupt, Exit, Active
<1> QED
  BY <1>1, <1>2, <1>3, <1>4, <1>5, <1>6, <1>7, <1>8, <1>9, <1>10, <1>11, <1>12, <1>13,
     <1>14, <1>15, <1>16
-----------------------------------------------------------------------------
(* An ownership check that passed: what comes to be signalled is its own.  *)
LEMMA AimStep ==
    ASSUME IInv, NEW i \in Invocations, NEW p \in Pids, NEW l,
           UNCHANGED <<state, kind, spawner, signalled, pidfile, fixpid, slot, verb, route, then, rc>>,
           target' = [target EXCEPT ![i] = p], pc' = [pc EXCEPT ![i] = l],
           pc[i] # "new", state[p] # "reused",
           \/ l \in WorkerLabels /\ StartedBy(p, "worker", slot[i])
           \/ l \in FixtureLabels /\ FixtureOf(p, Sess(i)) /\ verb[i] = "stop"
    PROVE  IInv'
<1>1. \A j \in Invocations : /\ j # i => pc'[j] = pc[j] /\ target'[j] = target[j]
                             /\ j = i => pc'[j] = l /\ target'[j] = p
  BY DEF IInv, Shape
<1>2. Shape'
  BY DEF IInv, Shape, PidOrNone
<1>3. Placed'
  BY <1>1 DEF IInv, Placed
<1>4. Pidfiles'
  BY DEF IInv, Pidfiles, StartedBy, FixtureOf
<1>5. Spawned'
  BY <1>1 DEF IInv, Spawned, StartedBy, FixtureOf, Sess, WorkerLabels, FixtureLabels
<1>6. Aimed'
  <2>1. l \in FixtureLabels => l \notin WorkerLabels
    BY DEF FixtureLabels, WorkerLabels
  <2> QED
    BY <1>1, <2>1 DEF IInv, Aimed, StartedBy, FixtureOf, Sess
<1>7. OnlyStop'
  BY <1>1 DEF IInv, OnlyStop, WorkerLabels, FixtureLabels, StopLabels
<1> QED
  BY <1>2, <1>3, <1>4, <1>5, <1>6, <1>7 DEF IInv

LEMMA OwnershipChecks ==
    ASSUME IInv, NEW i \in Invocations,
           StopOwned(i) \/ StopFixtureOwned(i) \/ CrashOwned(i)
    PROVE  IInv'
<1> USE DEF procVars, fileVars, keyVars, localVars
<1>0. Shape /\ rc \in [Invocations -> Nat]
  BY DEF IInv, Shape
<1>1. ASSUME StopOwned(i), Owned(i) PROVE IInv'
  <2> DEFINE p == pidfile[slot[i]]
  <2>1. /\ pc[i] = "sw_owned" /\ pc' = [pc EXCEPT ![i] = "sw_term"]
        /\ target' = [target EXCEPT ![i] = p] /\ UNCHANGED rc
    BY <1>1 DEF StopOwned, Goto
  <2>2. slot[i] \in Slots
    BY <2>1 DEF IInv, Placed
  <2>3. StartedBy(p, "worker", slot[i]) /\ state[p] # "reused" /\ p \in Pids
    BY <1>1, <2>2 DEF Owned, Alive, IInv, Pidfiles, StartedBy
  <2> QED
    BY <1>1, <2>1, <2>3, AimStep DEF StopOwned, WorkerLabels
<1>2. ASSUME CrashOwned(i), Owned(i) PROVE IInv'
  <2> DEFINE p == pidfile[slot[i]]
  <2>1. /\ pc[i] = "crash_owned" /\ pc' = [pc EXCEPT ![i] = "crash_kill"]
        /\ target' = [target EXCEPT ![i] = p] /\ UNCHANGED rc
    BY <1>2 DEF CrashOwned, Goto
  <2>2. slot[i] \in Slots
    BY <2>1 DEF IInv, Placed
  <2>3. StartedBy(p, "worker", slot[i]) /\ state[p] # "reused" /\ p \in Pids
    BY <1>2, <2>2 DEF Owned, Alive, IInv, Pidfiles, StartedBy
  <2> QED
    BY <1>2, <2>1, <2>3, AimStep DEF CrashOwned, WorkerLabels
<1>3. ASSUME StopFixtureOwned(i), FixtureOwned(i) PROVE IInv'
  <2> DEFINE p == fixpid[Sess(i)]
  <2>1. /\ pc[i] = "sf_owned" /\ pc' = [pc EXCEPT ![i] = "sf_term"]
        /\ target' = [target EXCEPT ![i] = p] /\ UNCHANGED rc
    BY <1>3 DEF StopFixtureOwned, Goto
  <2>2. slot[i] \in Slots /\ verb[i] = "stop"
    BY <2>1 DEF IInv, Placed, OnlyStop, StopLabels
  <2>3. Sess(i) \in Sessions
    BY <2>2, Configuration DEF Sess
  <2>4. FixtureOf(p, Sess(i)) /\ state[p] # "reused" /\ p \in Pids
    BY <1>3, <2>3 DEF FixtureOwned, Alive, IInv, Pidfiles, FixtureOf
  <2> QED
    BY <1>3, <2>1, <2>2, <2>4, AimStep DEF StopFixtureOwned, FixtureLabels
<1>4. ASSUME StopOwned(i) \/ CrashOwned(i), ~Owned(i) PROVE IInv'
  <2>1. /\ pc[i] # "new" /\ pc' = [pc EXCEPT ![i] = "exited"]
        /\ rc' = [rc EXCEPT ![i] = 3]
        /\ UNCHANGED <<procVars, fileVars, localVars>>
    BY <1>4 DEF StopOwned, CrashOwned, Exit
  <2> QED
    BY <1>0, <2>1, QuietStep DEF Shape, Guarded, WorkerLabels, StopLabels, FixtureLabels
<1>5. ASSUME StopFixtureOwned(i), ~FixtureOwned(i) PROVE IInv'
  <2>1. /\ pc[i] = "sf_owned" /\ pc' = [pc EXCEPT ![i] = "sf_rm"] /\ UNCHANGED rc
        /\ UNCHANGED <<procVars, fileVars, localVars>>
    BY <1>5 DEF StopFixtureOwned, Goto
  <2>2. verb[i] = "stop"
    BY <2>1 DEF IInv, OnlyStop, StopLabels
  <2> QED
    BY <1>0, <2>1, <2>2, QuietStep DEF Shape, Guarded, WorkerLabels, StopLabels, FixtureLabels
<1> QED
  BY <1>1, <1>2, <1>3, <1>4, <1>5

(* A new process has a pid that was free, so nothing was known of it.      *)
LEMMA SpawnStep ==
    ASSUME IInv, NEW i \in Invocations, NEW p \in Pids, NEW what \in {"worker", "fixture"}, NEW l,
           Spawn(p, what, i), pc[i] # "new",
           UNCHANGED <<pidfile, slot, verb, route, then, rc>>,
           fixpid' \in [Sessions -> PidOrNone],
           \A s \in Sessions : fixpid'[s] \in {fixpid[s], NoPid},
           pc' = [pc EXCEPT ![i] = l],
           \/ l = "write" /\ what = "worker"
           \/ l = "fx_write" /\ what = "fixture"
    PROVE  IInv'
<1>1. \A j \in Invocations : /\ j # i => pc'[j] = pc[j] /\ target'[j] = target[j]
                             /\ j = i => pc'[j] = l /\ target'[j] = p
  BY DEF IInv, Shape, Spawn
<1>2. slot[i] \in Slots
  BY DEF IInv, Placed
<1>3. Shape'
  BY <1>2 DEF IInv, Shape, Spawn, PidOrNone, States
<1>4. \A q \in Pids : /\ state[q] # "free" => /\ q # p /\ state'[q] = state[q]
                                              /\ kind'[q] = kind[q] /\ spawner'[q] = spawner[q]
                      /\ q = p => /\ state'[q] = "starting" /\ kind'[q] = what
                                  /\ spawner'[q] = slot[i]
  BY DEF IInv, Shape, Spawn
<1>5. /\ \A q, s : StartedBy(q, "worker", s) => StartedBy(q, "worker", s)'
      /\ \A q, s : FixtureOf(q, s) => FixtureOf(q, s)'
      /\ what = "worker" => StartedBy(p, "worker", slot[i])'
      /\ what = "fixture" => FixtureOf(p, Sess(i))'
  BY <1>2, <1>4 DEF StartedBy, FixtureOf, Sess
<1>6. Placed'
  BY <1>1 DEF IInv, Placed
<1>7. Pidfiles'
  BY <1>5 DEF IInv, Pidfiles
<1>8. Spawned'
  BY <1>1, <1>5 DEF IInv, Spawned, Sess
<1>9. Aimed'
  BY <1>1, <1>4, <1>5 DEF IInv, Aimed, Sess, WorkerLabels, FixtureLabels, StartedBy, FixtureOf
<1>10. OnlyStop'
  BY <1>1 DEF IInv, OnlyStop, StopLabels, FixtureLabels
<1> QED
  BY <1>3, <1>6, <1>7, <1>8, <1>9, <1>10 DEF IInv

LEMMA Starts ==
    ASSUME IInv, NEW i \in Invocations,
           \/ Launch(i) \/ SpawnWorker(i) \/ FixtureSpawn(i)
           \/ RecordWorker(i) \/ FixtureRecord(i)
    PROVE  IInv'
<1> USE DEF procVars, fileVars, keyVars, localVars
<1>0. Shape
  BY DEF IInv
<1>1. ASSUME SpawnWorker(i) PROVE IInv'
  <2>1. PICK p \in Pids : Spawn(p, "worker", i)
    BY <1>1 DEF SpawnWorker
  <2> QED
    BY <1>0, <1>1, <2>1, SpawnStep DEF SpawnWorker, Goto, Shape
<1>2. ASSUME FixtureSpawn(i) PROVE IInv'
  <2>1. PICK p \in Pids : Spawn(p, "fixture", i)
    BY <1>2 DEF FixtureSpawn
  <2> QED
    BY <1>0, <1>2, <2>1, SpawnStep DEF FixtureSpawn, Goto, Shape, PidOrNone
<1>3. ASSUME RecordWorker(i) PROVE IInv'
  <2>1. /\ pc[i] = "write" /\ pc' = [pc EXCEPT ![i] = "loop"]
        /\ pidfile' = [pidfile EXCEPT ![slot[i]] = target[i]]
        /\ UNCHANGED <<procVars, fixpid, localVars, rc>>
    BY <1>3 DEF RecordWorker, Goto
  <2>2. StartedBy(target[i], "worker", slot[i])
    BY <2>1 DEF IInv, Spawned
  <2>3. \A j \in Invocations : pc'[j] = IF j = i THEN "loop" ELSE pc[j]
    BY <1>0, <2>1 DEF Shape
  <2>4. Shape'
    BY <1>0, <2>1 DEF Shape, PidOrNone
  <2>5. Pidfiles'
    BY <1>0, <2>1, <2>2 DEF IInv, Pidfiles, Shape, StartedBy, FixtureOf
  <2>6. Placed' /\ Spawned'
    BY <2>1, <2>3 DEF IInv, Placed, Spawned, StartedBy, FixtureOf, Sess
  <2>7. Aimed'
    BY <2>1, <2>3 DEF IInv, Aimed, StartedBy, FixtureOf, Sess, WorkerLabels, FixtureLabels
  <2>8. OnlyStop'
    BY <2>1, <2>3 DEF IInv, OnlyStop, StopLabels, FixtureLabels
  <2> QED
    BY <2>4, <2>5, <2>6, <2>7, <2>8 DEF IInv
<1>4. ASSUME FixtureRecord(i) PROVE IInv'
  <2>1. /\ pc[i] = "fx_write" /\ pc' = [pc EXCEPT ![i] = "fx_poll"]
        /\ fixpid' = [fixpid EXCEPT ![Sess(i)] = target[i]]
        /\ UNCHANGED <<procVars, pidfile, localVars, rc>>
    BY <1>4 DEF FixtureRecord, Goto
  <2>2. FixtureOf(target[i], Sess(i))
    BY <2>1 DEF IInv, Spawned
  <2>3. \A j \in Invocations : pc'[j] = IF j = i THEN "fx_poll" ELSE pc[j]
    BY <1>0, <2>1 DEF Shape
  <2>4. Shape'
    BY <1>0, <2>1 DEF Shape, PidOrNone
  <2>5. Pidfiles'
    BY <1>0, <2>1, <2>2 DEF IInv, Pidfiles, Shape, StartedBy, FixtureOf
  <2>6. Placed' /\ Spawned'
    BY <2>1, <2>3 DEF IInv, Placed, Spawned, StartedBy, FixtureOf, Sess
  <2>7. Aimed'
    BY <2>1, <2>3 DEF IInv, Aimed, StartedBy, FixtureOf, Sess, WorkerLabels, FixtureLabels
  <2>8. OnlyStop'
    BY <2>1, <2>3 DEF IInv, OnlyStop, StopLabels, FixtureLabels
  <2> QED
    BY <2>4, <2>5, <2>6, <2>7, <2>8 DEF IInv
<1>5. ASSUME Launch(i) PROVE IInv'
  <2>1. PICK s \in Slots, v \in Verbs :
            /\ slot' = [slot EXCEPT ![i] = s] /\ verb' = [verb EXCEPT ![i] = v]
            /\ Goto(i, FirstLabel(v)) /\ then' = [then EXCEPT ![i] = Afterwards(v)]
    BY <1>5 DEF Launch
  <2>2. /\ pc[i] = "new" /\ UNCHANGED <<procVars, fileVars, route, target>>
    BY <1>5 DEF Launch
  <2>3. v \in AllVerbs
    BY Configuration
  <2>4. /\ FirstLabel(v) \in {"ensure", "crash", "sw_running"}
        /\ Afterwards(v) \in {"sf_owned", "done"} /\ (Afterwards(v) = "sf_owned" => v = "stop")
    BY <2>3 DEF AllVerbs, FirstLabel, Afterwards
  <2>5. pc' = [pc EXCEPT ![i] = FirstLabel(v)] /\ UNCHANGED rc
    BY <2>1, <2>4 DEF Goto
  <2>6. \A j \in Invocations :
            /\ j # i => /\ pc'[j] = pc[j] /\ slot'[j] = slot[j] /\ verb'[j] = verb[j]
                        /\ then'[j] = then[j]
            /\ j = i => /\ pc'[j] = FirstLabel(v) /\ slot'[j] = s /\ verb'[j] = v
                        /\ then'[j] = Afterwards(v)
    BY <1>0, <2>1, <2>5 DEF Shape
  <2>7. Shape'
    BY <1>0, <2>1, <2>2, <2>3, <2>4, <2>5 DEF Shape
  <2>8. Placed'
    BY <2>6 DEF IInv, Placed
  <2>9. Pidfiles'
    BY <2>2 DEF IInv, Pidfiles, StartedBy, FixtureOf
  <2>10. Spawned' /\ Aimed'
    BY <2>2, <2>4, <2>6 DEF IInv, Spawned, Aimed, StartedBy, FixtureOf, Sess, WorkerLabels,
                            FixtureLabels
  <2>11. OnlyStop'
    BY <2>4, <2>6 DEF IInv, OnlyStop, StopLabels, FixtureLabels
  <2> QED
    BY <2>7, <2>8, <2>9, <2>10, <2>11 DEF IInv
<1> QED
  BY <1>1, <1>2, <1>3, <1>4, <1>5

(* The processes themselves: none goes back to a free pid, and the pid an  *)
(* invocation holds is not reused.                                         *)
LEMMA EnvironmentSteps ==
    ASSUME IInv, NEW p \in Pids, Environment(p)
    PROVE  IInv'
<1> USE DEF osVars, fileVars, keyVars, localVars
<1>1. UNCHANGED osVars
  BY DEF Environment, Bind, Drain, Dies, Reuse
<1> DEFINE Moves(st) ==
       /\ state' = [state EXCEPT ![p] = st] /\ state[p] # "free"
       /\ st = "reused" => \A i \in Invocations : Active(i) => target[i] # p
<1>2. \E st \in States \ {"free"} : Moves(st)
  <2>1. ASSUME Bind(p) PROVE Moves("serving") \/ Moves("dead")
    BY <2>1 DEF Bind
  <2>2. ASSUME Drain(p) PROVE Moves("stopping")
    BY <2>2 DEF Drain
  <2>3. ASSUME Dies(p) PROVE Moves("dead")
    BY <2>3 DEF Dies, Alive
  <2>4. ASSUME Reuse(p) PROVE Moves("reused")
    BY <2>4 DEF Reuse
  <2>5. {"serving", "dead", "stopping", "reused"} \subseteq States \ {"free"}
    BY DEF States
  <2> HIDE DEF Moves
  <2> QED
    BY <2>1, <2>2, <2>3, <2>4, <2>5 DEF Environment
<1>3. PICK st \in States \ {"free"} : Moves(st)
  BY <1>2
<1>4. state \in [Pids -> States]
  BY DEF IInv, Shape
<1>5. \A q \in Pids : /\ state'[q] = IF q = p THEN st ELSE state[q]
                      /\ state[q] # "free" => state'[q] # "free"
  BY <1>3, <1>4
<1>6. Shape'
  BY <1>1, <1>3 DEF IInv, Shape
<1>7. /\ \A q, s : StartedBy(q, "worker", s) => StartedBy(q, "worker", s)'
      /\ \A q, s : FixtureOf(q, s) => FixtureOf(q, s)'
  BY <1>1, <1>5 DEF StartedBy, FixtureOf
<1>8. Placed' /\ OnlyStop'
  BY <1>1 DEF IInv, Placed, OnlyStop
<1>9. Pidfiles' /\ Spawned'
  BY <1>1, <1>7 DEF IInv, Pidfiles, Spawned, Sess
<1>10. ASSUME NEW i \in Invocations, pc[i] \in WorkerLabels \cup FixtureLabels
       PROVE  target[i] \in Pids /\ state'[target[i]] # "reused"
  <2>1. Active(i)
    BY <1>10 DEF Active, WorkerLabels, FixtureLabels
  <2>2. target[i] \in Pids /\ state[target[i]] # "reused"
    BY <1>10 DEF IInv, Aimed, StartedBy, FixtureOf
  <2> QED
    BY <1>3, <1>5, <2>1, <2>2
<1>11. Aimed'
  BY <1>1, <1>7, <1>10 DEF IInv, Aimed, Sess
<1> QED
  BY <1>6, <1>8, <1>9, <1>11 DEF IInv

LEMMA StandStill ==
    ASSUME IInv, UNCHANGED <<procVars, pidfile, fixpid, localVars, pc, rc>>
    PROVE  IInv'
BY DEF procVars, localVars, IInv, Shape, Placed, Pidfiles, Spawned, Aimed, OnlyStop, StartedBy,
       FixtureOf, Sess

LEMMA StepIInv == IInv /\ [Next]_vars => IInv'
<1> SUFFICES ASSUME IInv, [Next]_vars PROVE IInv'
  OBVIOUS
<1>1. ASSUME NEW i \in Invocations, Launch(i) PROVE IInv'
  BY <1>1, Starts
<1>2. ASSUME NEW i \in Invocations, Ensure(i) PROVE IInv'
  BY <1>2, Starts, EnsureQuiet DEF Ensure
<1>3. ASSUME NEW i \in Invocations, Stop(i) PROVE IInv'
  BY <1>3, OwnershipChecks, StopQuiet DEF Stop
<1>4. ASSUME NEW i \in Invocations, Crash(i) \/ Survived(i) \/ Interrupt(i) PROVE IInv'
  BY <1>4, OwnershipChecks, StopQuiet DEF Crash
<1>5. ASSUME NEW i \in Invocations, LoopGiveUp(i) PROVE IInv'
  BY <1>5, EnsureQuiet
<1>6. ASSUME NEW p \in Pids, Environment(p) PROVE IInv'
  BY <1>6, EnvironmentSteps
<1>7. ASSUME NEW d \in Databases, Truncate(d) PROVE IInv'
  BY <1>7, StandStill DEF Truncate
<1>8. CASE UNCHANGED vars
  BY <1>8, StandStill DEF vars, fileVars
<1> QED
  BY <1>1, <1>2, <1>3, <1>4, <1>5, <1>6, <1>7, <1>8 DEF Next, Step, Finished

LEMMA Induction == Spec => []IInv
BY InitIInv, StepIInv, PTL DEF Spec
-----------------------------------------------------------------------------
(* Which steps signal, and what.                                           *)
LEMMA Signals ==
    ASSUME IInv, [Next]_vars, NEW p \in Pids, signalled'[p] # signalled[p]
    PROVE  \E i \in Invocations :
              /\ pc[i] \in WorkerLabels \cup FixtureLabels
              /\ target[i] = p /\ Alive(p)
<1> USE DEF procVars, fileVars, keyVars, localVars
<1>1. ASSUME NEW i \in Invocations, NEW sig, Signal(i, sig),
             pc[i] \in WorkerLabels \cup FixtureLabels
      PROVE  target[i] = p /\ Alive(p)
  <2>1. target[i] \in Pids /\ state[target[i]] # "reused"
    BY <1>1 DEF IInv, Aimed, StartedBy, FixtureOf
  <2>2. target[i] = p /\ Kill0(target[i])
    BY <1>1, <2>1 DEF Signal, IInv, Shape
  <2> QED
    BY <2>1, <2>2 DEF Kill0
<1>2. ASSUME NEW i \in Invocations, Step(i) \/ Launch(i) \/ LoopGiveUp(i) \/ Interrupt(i)
      PROVE  /\ pc[i] \in WorkerLabels \cup FixtureLabels
             /\ \E sig \in {"term", "kill"} : Signal(i, sig)
  <2>1. ~(Launch(i) \/ LoopGiveUp(i) \/ Interrupt(i) \/ Survived(i))
    BY DEF Launch, LoopGiveUp, Interrupt, Survived
  <2>2. ~Ensure(i)
    BY DEF Ensure, EnsureProbe, EnsureOwned, EnsureRunning, FixtureFirstProbe,
       FixtureCheckOwned,
           FixtureSpawn, FixtureRecord, FixturePoll, AppRole, MigrateFails, SpawnWorker,
           RecordWorker, LoopProbe, LoopRunning, MintProbe, Mint, MintCheck, SecondTenant,
           SecondTenantCheck, AllowEgress, Spawn
  <2>3. ~(\/ StopRunning(i) \/ StopOwned(i) \/ StopSecondWait(i) \/ StopProbe(i)
          \/ StopRemovePidfile(i) \/ StopFixtureOwned(i) \/ StopFixtureRemove(i)
          \/ StopFixtureProbe(i) \/ CrashRunning(i) \/ CrashOwned(i) \/ CrashWait(i)
          \/ CrashNothing(i))
    BY DEF StopRunning, StopOwned, StopSecondWait, StopProbe, StopRemovePidfile,
           StopFixtureOwned, StopFixtureRemove, StopFixtureProbe, CrashRunning, CrashOwned,
           CrashWait, CrashNothing
  <2>4. StopTerm(i) \/ StopWait(i) \/ StopFixtureTerm(i) \/ StopFixtureWait(i) \/ CrashKill(i)
    BY <1>2, <2>1, <2>2, <2>3 DEF Step, Stop, Crash
  <2> QED
    BY <2>4 DEF StopTerm, StopWait, StopFixtureTerm, StopFixtureWait, CrashKill, WorkerLabels,
                FixtureLabels
<1>3. ~(\E q \in Pids : Environment(q))
  BY DEF Environment, Bind, Drain, Dies, Reuse, osVars
<1>4. ~(\E d \in Databases : Truncate(d))
  BY DEF Truncate
<1>5. ~UNCHANGED vars
  BY DEF vars
<1> QED
  BY <1>1, <1>2, <1>3, <1>4, <1>5 DEF Next, Finished

(* No verb signals a process that is not its own, however sessions, slots  *)
(* and ports overlap and whatever dies or is recycled in between.          *)
THEOREM SignalsAreOwn == Spec => SignalsOnlyItsOwn
<1>1. IInv /\ [Next]_vars =>
        [\A p \in Pids : signalled'[p] # signalled[p] =>
            /\ Alive(p)
            /\ \E i \in Invocations :
                  /\ Active(i) /\ target[i] = p
                  /\ IF kind[p] = "worker" THEN spawner[p] = slot[i]
                                           ELSE SessionOf[spawner[p]] = Sess(i)]_vars
  <2> SUFFICES ASSUME IInv, [Next]_vars, NEW p \in Pids, signalled'[p] # signalled[p]
               PROVE  /\ Alive(p)
                      /\ \E i \in Invocations :
                            /\ Active(i) /\ target[i] = p
                            /\ IF kind[p] = "worker" THEN spawner[p] = slot[i]
                                                     ELSE SessionOf[spawner[p]] = Sess(i)
    OBVIOUS
  <2>1. PICK i \in Invocations : /\ pc[i] \in WorkerLabels \cup FixtureLabels
                                 /\ target[i] = p /\ Alive(p)
    BY Signals
  <2>2. Active(i)
    BY <2>1 DEF Active, WorkerLabels, FixtureLabels
  <2>3. IF kind[p] = "worker" THEN spawner[p] = slot[i] ELSE SessionOf[spawner[p]] = Sess(i)
    BY <2>1 DEF IInv, Aimed, StartedBy, FixtureOf
  <2> QED
    BY <2>1, <2>2, <2>3
<1> QED
  BY <1>1, Induction, PTL DEF Spec, SignalsOnlyItsOwn

(* Nothing but the stop verb ends a fixture service: not a crash, not a    *)
(* second worker's teardown, not a restart inside ensure.                  *)
THEOREM FixtureOutlivesTheRest == Spec => OnlyStopEndsTheFixture
<1>1. IInv /\ [Next]_vars =>
        [\A p \in Pids : signalled'[p] # signalled[p] /\ kind[p] = "fixture" =>
            \E i \in Invocations : Active(i) /\ target[i] = p /\ verb[i] = "stop"]_vars
  <2> SUFFICES ASSUME IInv, [Next]_vars, NEW p \in Pids, signalled'[p] # signalled[p],
                      kind[p] = "fixture"
               PROVE  \E i \in Invocations : Active(i) /\ target[i] = p /\ verb[i] = "stop"
    OBVIOUS
  <2>1. PICK i \in Invocations : /\ pc[i] \in WorkerLabels \cup FixtureLabels
                                 /\ target[i] = p /\ Alive(p)
    BY Signals
  <2>2. pc[i] \in FixtureLabels
    BY <2>1 DEF IInv, Aimed, StartedBy
  <2> QED
    BY <2>1, <2>2 DEF Active, IInv, OnlyStop, StopLabels, FixtureLabels
<1> QED
  BY <1>1, Induction, PTL DEF Spec, OnlyStopEndsTheFixture
-----------------------------------------------------------------------------
(* The variables the argument above does not need.                         *)
Codes == {0, 1, 2, 3, 130}

Rest ==
    /\ keyfile \in [Sessions -> KeyStates] /\ keyfileB \in [Sessions -> KeyStates]
    /\ egress \subseteq Databases /\ lost \subseteq Pids
    /\ rc \in [Invocations -> Codes]
    /\ faults \in 0..MaxFaults /\ interrupts \in 0..MaxInterrupts

LEMMA RestStep ==
    ASSUME IInv, Rest, [Next]_vars
    PROVE  Rest'
<1> USE DEF budgetVars, fileVars, keyVars
<1>0. Shape /\ rc \in [Invocations -> Codes]
  BY DEF IInv, Rest
<1>1. ASSUME NEW i \in Invocations, NEW to, Goto(i, to) PROVE rc' \in [Invocations -> Codes]
  BY <1>0, <1>1 DEF Goto, Exit, Codes
<1>2. ASSUME NEW i \in Invocations, NEW c \in Codes, Exit(i, c) PROVE rc' \in [Invocations -> Codes]
  BY <1>0, <1>2 DEF Exit
<1>3. \A c \in {0, 1, 2, 3, 130} : c \in Codes
  BY DEF Codes
<1>4. ASSUME NEW i \in Invocations, Ensure(i) PROVE Rest'
  <2>1. UNCHANGED <<lost, budgetVars>>
    BY <1>4 DEF Ensure, EnsureProbe, EnsureOwned, EnsureRunning, FixtureFirstProbe,
       FixtureCheckOwned, FixtureSpawn, FixtureRecord, FixturePoll, AppRole, MigrateFails,
       SpawnWorker, RecordWorker, LoopProbe, LoopRunning, MintProbe, Mint, MintCheck,
       SecondTenant, SecondTenantCheck, AllowEgress
  <2>2. rc' \in [Invocations -> Codes]
    BY <1>1, <1>2, <1>3, <1>4, Zenon
       DEF Ensure, EnsureProbe, EnsureOwned, EnsureRunning, FixtureFirstProbe,
           FixtureCheckOwned, FixtureSpawn, FixtureRecord, FixturePoll, AppRole,
           MigrateFails, SpawnWorker, RecordWorker, LoopProbe, LoopRunning, MintProbe,
           Mint, MintCheck, SecondTenant, SecondTenantCheck, AllowEgress
  <2>3. /\ \/ keyfile' = keyfile
           \/ \E k \in KeyStates : keyfile' = [keyfile EXCEPT ![Sess(i)] = k]
        /\ \/ keyfileB' = keyfileB
           \/ \E k \in KeyStates : keyfileB' = [keyfileB EXCEPT ![Sess(i)] = k]
        /\ \/ egress' = egress
           \/ egress' = egress \cup {Db[Sess(i)]} /\ pc[i] # "new"
    BY <1>4 DEF KeyStates, Ensure, EnsureProbe, EnsureOwned, EnsureRunning, FixtureFirstProbe,
       FixtureCheckOwned, FixtureSpawn, FixtureRecord, FixturePoll, AppRole, MigrateFails,
       SpawnWorker, RecordWorker, LoopProbe, LoopRunning, MintProbe, Mint, MintCheck,
       SecondTenant, SecondTenantCheck, AllowEgress
  <2>4. pc[i] # "new" => Db[Sess(i)] \in Databases
    BY Configuration DEF IInv, Placed, Sess
  <2> QED
    BY <2>1, <2>2, <2>3, <2>4 DEF Rest
<1>5. ASSUME NEW i \in Invocations, Launch(i) \/ LoopGiveUp(i) \/ Stop(i) \/ Crash(i) PROVE Rest'
  <2>1. UNCHANGED <<keyVars, lost, budgetVars>>
    BY <1>5 DEF Launch, LoopGiveUp, Stop, StopRunning, StopOwned, StopTerm, StopWait,
       StopSecondWait, StopProbe, StopRemovePidfile, StopFixtureOwned, StopFixtureTerm,
       StopFixtureWait, StopFixtureRemove, StopFixtureProbe, Crash, CrashRunning, CrashOwned,
       CrashKill, CrashWait, CrashNothing
  <2>2. rc' \in [Invocations -> Codes]
    BY <1>1, <1>2, <1>3, <1>5, Zenon
       DEF Launch, LoopGiveUp, Stop, StopRunning, StopOwned, StopTerm, StopWait,
           StopSecondWait, StopProbe, StopRemovePidfile, StopFixtureOwned, StopFixtureTerm,
           StopFixtureWait, StopFixtureRemove, StopFixtureProbe, Crash, CrashRunning,
           CrashOwned, CrashKill, CrashWait, CrashNothing
  <2> QED
    BY <2>1, <2>2 DEF Rest
<1>6. ASSUME NEW i \in Invocations, Survived(i) \/ Interrupt(i) PROVE Rest'
  <2>1. UNCHANGED <<keyVars, faults>> /\ rc' \in [Invocations -> Codes]
    BY <1>0, <1>2, <1>6 DEF Survived, Interrupt, Codes
  <2>2. interrupts' \in 0..MaxInterrupts
    BY <1>6, Configuration DEF Survived, Interrupt, Rest
  <2>3. pc[i] \in {"sw_wait2", "crash_wait", "write", "fx_write"} => target[i] \in Pids
    BY DEF IInv, Aimed, Spawned, WorkerLabels, StartedBy, FixtureOf
  <2>4. lost' \subseteq Pids
    BY <1>6, <2>3 DEF Survived, Interrupt, Rest
  <2> QED
    BY <2>1, <2>2, <2>4 DEF Rest
<1>7. ASSUME NEW p \in Pids, Environment(p) PROVE Rest'
  BY <1>7, Configuration DEF Environment, Bind, Drain, Dies, Reuse, osVars, Rest
<1>8. ASSUME NEW d \in Databases, Truncate(d) PROVE Rest'
  BY <1>8, Configuration DEF Truncate, Rest, KeyStates
<1>9. CASE UNCHANGED vars
  BY <1>9 DEF vars, Rest
<1> QED
  BY <1>4, <1>5, <1>6, <1>7, <1>8, <1>9 DEF Next, Step, Finished

(* The script's variables, files and exit codes keep their types.          *)
THEOREM TypeCorrectness == Spec => []TypeOK
<1>1. Init => Rest
  BY Configuration DEF Init, Rest, KeyStates, Codes
<1>2. IInv /\ Rest /\ [Next]_vars => Rest'
  BY RestStep
<1>3. IInv /\ Rest => TypeOK
  BY DEF IInv, Shape, States, Rest, Codes, TypeOK
<1> QED
  BY <1>1, <1>2, <1>3, Induction, PTL DEF Spec
-----------------------------------------------------------------------------
(* A port has one listener: who comes second does not get to serve.        *)
OnePerPort ==
    \A p, q \in Pids : /\ state[p] = "serving" /\ state[q] = "serving"
                       /\ PortOf(p) = PortOf(q)
                       => p = q

\* A step brings up no listener and moves none.
NoNewListener ==
    \A p \in Pids : state'[p] = "serving" =>
        state[p] = "serving" /\ kind'[p] = kind[p] /\ spawner'[p] = spawner[p]

LEMMA ScriptsDoNotListen ==
    ASSUME IInv, NEW i \in Invocations, Launch(i) \/ Step(i) \/ LoopGiveUp(i) \/ Interrupt(i)
    PROVE  NoNewListener
<1>1. Shape
  BY DEF IInv
<1>2. ASSUME NEW p \in Pids, NEW w, Spawn(p, w, i) PROVE NoNewListener
  BY <1>1, <1>2 DEF Spawn, Shape, NoNewListener
<1>3. CASE FixtureSpawn(i) \/ SpawnWorker(i)
  BY <1>2, <1>3 DEF FixtureSpawn, SpawnWorker
<1>4. CASE UNCHANGED <<state, kind, spawner>>
  BY <1>4 DEF NoNewListener
<1>5. CASE Launch(i) \/ LoopGiveUp(i) \/ Interrupt(i) \/ Survived(i)
  BY <1>4, <1>5 DEF procVars, Launch, LoopGiveUp, Interrupt, Survived
<1>6. CASE Ensure(i)
  BY <1>3, <1>4, <1>6, Zenon
     DEF procVars, Ensure, EnsureProbe, EnsureOwned, EnsureRunning, FixtureFirstProbe,
         FixtureCheckOwned, FixtureRecord, FixturePoll, AppRole, MigrateFails,
         RecordWorker, LoopProbe, LoopRunning, MintProbe, Mint, MintCheck,
         SecondTenant, SecondTenantCheck, AllowEgress
<1>7. CASE Stop(i)
  BY <1>4, <1>7
     DEF procVars, Signal, Stop, StopRunning, StopOwned, StopTerm, StopWait, StopSecondWait,
         StopProbe, StopRemovePidfile, StopFixtureOwned, StopFixtureTerm, StopFixtureWait,
         StopFixtureRemove, StopFixtureProbe
<1>8. CASE Crash(i)
  BY <1>4, <1>8
     DEF procVars, Signal, Crash, CrashRunning, CrashOwned, CrashKill, CrashWait, CrashNothing
<1> QED
  BY <1>5, <1>6, <1>7, <1>8 DEF Step

LEMMA StepOnePerPort == IInv /\ OnePerPort /\ [Next]_vars => OnePerPort'
<1> SUFFICES ASSUME IInv, OnePerPort, [Next]_vars PROVE OnePerPort'
  OBVIOUS
<1>1. CASE NoNewListener
  BY <1>1 DEF NoNewListener, OnePerPort, PortOf
<1>2. ASSUME NEW i \in Invocations, Launch(i) \/ Step(i) \/ LoopGiveUp(i) \/ Interrupt(i)
      PROVE  OnePerPort'
  BY <1>1, <1>2, ScriptsDoNotListen
<1>3. ASSUME NEW p \in Pids, Bind(p) PROVE OnePerPort'
  <2>1. UNCHANGED <<kind, spawner>>
    BY <1>3 DEF Bind, osVars
  <2>2. \A q \in Pids : state'[q] = "serving" =>
            \/ state[q] = "serving"
            \/ q = p /\ Listeners(PortOf(p)) = {}
    <3>1. state' = [state EXCEPT ![p] =
                        IF Listeners(PortOf(p)) = {} THEN "serving" ELSE "dead"]
      BY <1>3 DEF Bind
    <3>2. state \in [Pids -> States]
      BY DEF IInv, Shape
    <3> QED
      BY <3>1, <3>2
  <2>3. \A q \in Pids : PortOf(q)' = PortOf(q)
    BY <2>1 DEF PortOf
  <2> QED
    BY <2>2, <2>3 DEF OnePerPort, Listeners
<1>4. ASSUME NEW p \in Pids, Drain(p) \/ Dies(p) \/ Reuse(p) PROVE OnePerPort'
  <2>1. NoNewListener
    BY <1>4 DEF Drain, Dies, Reuse, osVars, IInv, Shape, NoNewListener
  <2> QED
    BY <1>1, <2>1
<1>5. CASE (\E d \in Databases : Truncate(d)) \/ UNCHANGED vars
  <2>1. NoNewListener
    BY <1>5 DEF Truncate, vars, procVars, NoNewListener
  <2> QED
    BY <1>1, <2>1
<1> QED
  BY <1>2, <1>3, <1>4, <1>5 DEF Next, Environment, Finished

(* A step of a script moves that script only.                              *)
LEMMA OthersStay ==
    ASSUME Shape, NEW j \in Invocations, NEW k \in Invocations, k # j,
           Launch(j) \/ Step(j) \/ LoopGiveUp(j) \/ Interrupt(j)
    PROVE  pc'[k] = pc[k]
<1>1. \A to : Goto(j, to) => pc'[k] = pc[k]
  BY DEF Goto, Exit, Shape
<1>2. \A c : Exit(j, c) => pc'[k] = pc[k]
  BY DEF Exit, Shape
<1>3. CASE Launch(j) \/ LoopGiveUp(j) \/ Interrupt(j) \/ Survived(j)
  BY <1>1, <1>2, <1>3 DEF Launch, LoopGiveUp, Interrupt, Survived
<1>4. CASE Ensure(j)
  BY <1>1, <1>2, <1>4, Zenon
     DEF Ensure, EnsureProbe, EnsureOwned, EnsureRunning, FixtureFirstProbe,
         FixtureCheckOwned, FixtureSpawn, FixtureRecord, FixturePoll, AppRole,
         MigrateFails, SpawnWorker, RecordWorker, LoopProbe, LoopRunning, MintProbe, Mint,
         MintCheck, SecondTenant, SecondTenantCheck, AllowEgress
<1>5. CASE Stop(j)
  BY <1>1, <1>2, <1>5, Zenon
     DEF Stop, StopRunning, StopOwned, StopTerm, StopWait, StopSecondWait, StopProbe,
         StopRemovePidfile, StopFixtureOwned, StopFixtureTerm, StopFixtureWait,
         StopFixtureRemove, StopFixtureProbe
<1>6. CASE Crash(j)
  BY <1>1, <1>2, <1>6, Zenon
     DEF Crash, CrashRunning, CrashOwned, CrashKill, CrashWait, CrashNothing
<1> QED
  BY <1>3, <1>4, <1>5, <1>6 DEF Step

LEMMA ScriptSteps ==
    ASSUME [Next]_vars, pc' # pc
    PROVE  \E j \in Invocations : Launch(j) \/ Step(j) \/ LoopGiveUp(j) \/ Interrupt(j)
<1>1. ASSUME NEW p \in Pids, Environment(p) PROVE FALSE
  BY <1>1 DEF Environment, Bind, Drain, Dies, Reuse, osVars
<1>2. ASSUME NEW d \in Databases, Truncate(d) PROVE FALSE
  BY <1>2 DEF Truncate
<1> QED
  BY <1>1, <1>2 DEF Next, Finished, vars

(* ensure goes on with a key only if it found it good, or nobody answered. *)
LEMMA KeyIsFoundGood ==
    ASSUME IInv, [Next]_vars, NEW i \in Invocations,
           pc[i] \in {"mint", "mint_check"}, pc'[i] = "tenantb"
    PROVE  \E a \in KeyState(i, keyfile[Sess(i)]) : a # 1
<1>1. PICK j \in Invocations : Launch(j) \/ Step(j) \/ LoopGiveUp(j) \/ Interrupt(j)
  BY ScriptSteps
<1>2. j = i
  BY <1>1, OthersStay DEF IInv
<1>3. \A c : ~Exit(i, c)
  BY DEF Exit, IInv, Shape
<1>4. CASE Launch(i) \/ LoopGiveUp(i) \/ Interrupt(i) \/ Survived(i)
  BY <1>3, <1>4 DEF Launch, LoopGiveUp, Interrupt, Survived
<1>5. CASE Stop(i)
  BY <1>5 DEF Stop, StopRunning, StopOwned, StopTerm, StopWait, StopSecondWait, StopProbe,
         StopRemovePidfile, StopFixtureOwned, StopFixtureTerm, StopFixtureWait,
         StopFixtureRemove, StopFixtureProbe
<1>6. CASE Crash(i)
  BY <1>6 DEF Crash, CrashRunning, CrashOwned, CrashKill, CrashWait, CrashNothing
<1>7. CASE Ensure(i)
  <2>1. MintProbe(i) \/ MintCheck(i)
    BY <1>7 DEF Ensure, EnsureProbe, EnsureOwned, EnsureRunning, FixtureFirstProbe,
         FixtureCheckOwned, FixtureSpawn, FixtureRecord, FixturePoll, AppRole,
         MigrateFails, SpawnWorker, RecordWorker, LoopProbe, LoopRunning, Mint,
         SecondTenant, SecondTenantCheck, AllowEgress
  <2>2. \A to : Goto(i, to) => to = "tenantb"
    BY <1>3 DEF Goto, IInv, Shape
  <2> QED
    BY <1>3, <2>1, <2>2 DEF MintProbe, MintCheck
<1> QED
  BY <1>1, <1>2, <1>4, <1>5, <1>6, <1>7 DEF Step

(* The key ensure goes on with is accepted by whoever listens on its port, *)
(* if a server that listens answers in the time a probe allows (~Flaky).   *)
THEOREM ReadyKeysWork == ASSUME ~Flaky PROVE Spec => ReadyKeyAuthenticates
<1>1. Init => OnePerPort
  BY DEF Init, OnePerPort
<1>2. IInv /\ OnePerPort /\ [Next]_vars =>
        [\A i \in Invocations : pc[i] \in {"mint", "mint_check"} /\ pc'[i] = "tenantb" =>
            \A p \in Listeners(ApiPort[slot[i]]) :
                keyfile[Sess(i)] = "valid" /\ DbOf(p) = Db[Sess(i)]]_vars
  <2> SUFFICES ASSUME IInv, OnePerPort, [Next]_vars, NEW i \in Invocations,
                      pc[i] \in {"mint", "mint_check"}, pc'[i] = "tenantb",
                      NEW p \in Listeners(ApiPort[slot[i]])
               PROVE  keyfile[Sess(i)] = "valid" /\ DbOf(p) = Db[Sess(i)]
    OBVIOUS
  <2>1. PICK a \in KeyState(i, keyfile[Sess(i)]) : a # 1
    BY KeyIsFoundGood
  <2>2. \A q \in Listeners(ApiPort[slot[i]]) : q = p /\ q # NoPid
    BY Configuration DEF OnePerPort, Listeners
  <2>3. Probe(ApiPort[slot[i]]) = {p}
    BY <2>2, Configuration DEF Probe
  <2> QED
    BY <2>1, <2>2, <2>3 DEF KeyState
<1> QED
  BY <1>1, <1>2, StepOnePerPort, Induction, PTL DEF Spec, ReadyKeyAuthenticates

-----------------------------------------------------------------------------
(***************************************************************************)
(* What worker.sh leaves behind, for any number of sessions, slots, ports, *)
(* databases and invocations: a crash that reports success killed its own  *)
(* worker, and, when a session waits for one verb before it runs the next, *)
(* no live worker loses its pidfile and no stop that reports success       *)
(* leaves a worker.                                                        *)
(*                                                                         *)
(* The pidfile is removed in steps that look at no process.  The argument  *)
(* is that an earlier step did: on the way there the pidfile names either  *)
(* the very process the invocation holds, or one seen dead, and the dead   *)
(* do not come back; and no other verb of the session writes it meanwhile. *)
(***************************************************************************)

CrashLabels == {"crash", "crash_owned", "crash_kill", "crash_wait", "crash_rm"}
StopWorkerLabels ==
    {"sw_running", "sw_owned", "sw_term", "sw_wait", "sw_wait2", "sw_probe", "sw_rm"}
TeardownLabels == StopWorkerLabels \cup StopLabels

\* Where $pid is what the pidfile names, and where the pidfile names nothing
\* that lives: on the start route, already through start_fixture.
LapsedLabels == {"sw_probe", "sw_rm", "crash_rm", "role", "migrate", "write"} \cup StopLabels
StartLabels == {"fx_probe", "fx_owned", "fx_spawn", "fx_write", "fx_poll"}

Lives(p) == p \in Pids /\ Alive(p)

\* Invocation i is where its verb can be.
OnPath(i, l) ==
    /\ verb[i] = "crash" <=> l \in CrashLabels
    /\ verb[i] \in {"stop", "stop-worker"} => l \in TeardownLabels
StopReturns(i) == Active(i) /\ verb[i] \in {"stop", "stop-worker"} =>
                     then[i] = IF verb[i] = "stop" THEN "sf_owned" ELSE "done"

\* Its target is a worker of its own slot, dead.
Killed(i) == /\ target[i] \in Pids /\ state[target[i]] \in {"dead", "reused"}
             /\ kind[target[i]] = "worker" /\ spawner[target[i]] = slot[i]

Outcomes == \A i \in Invocations :
             /\ Active(i) => OnPath(i, pc[i])
             /\ StopReturns(i)
             /\ pc[i] = "ensure_owned" => route[i] = "verify"
             /\ pc[i] = "exited" /\ verb[i] = "crash" /\ rc[i] = 0 => Killed(i)

\* One verb of a session at a time.
Exclusive == \A i, j \in Invocations : Active(i) /\ Active(j) /\ i # j => Sess(i) # Sess(j)

HeldAt(i) == pc[i] \in WorkerLabels => pidfile[slot[i]] = target[i]
LapsedAt(i) == pc[i] \in LapsedLabels \/ (pc[i] \in StartLabels /\ route[i] = "start")
                  => ~Lives(pidfile[slot[i]])

\* A live worker is in its slot's pidfile, or about to be written to it.
Tracked ==
    \A p \in Pids \ lost : Alive(p) /\ kind[p] = "worker" /\ spawner[p] \in Slots =>
        \/ pidfile[spawner[p]] = p
        \/ \E i \in Invocations : pc[i] = "write" /\ slot[i] = spawner[p] /\ target[i] = p

Ledger == /\ Exclusive /\ Tracked
          /\ \A i \in Invocations : HeldAt(i) /\ LapsedAt(i)

TInv == IInv /\ Outcomes /\ (OnePerSession => Ledger)
-----------------------------------------------------------------------------
LEMMA InitTInv == Init => TInv
<1> SUFFICES ASSUME Init PROVE TInv
  OBVIOUS
<1>1. IInv /\ \A i \in Invocations : pc[i] = "new" /\ ~Active(i)
  BY InitIInv DEF Init, Active
<1>2. \A p \in Pids : ~Alive(p)
  BY DEF Init, Alive
<1> QED
  BY <1>1, <1>2 DEF TInv, Outcomes, StopReturns, Ledger, Exclusive, Tracked, HeldAt, LapsedAt,
                    WorkerLabels, LapsedLabels, StopLabels, FixtureLabels, StartLabels

(* A step of an invocation that starts no process and records none keeps   *)
(* TInv: it drops its pidfile only when that names nothing alive, or what  *)
(* the invocation reports lost.                                            *)
LEMMA MoveStep ==
    ASSUME TInv, IInv', NEW i \in Invocations, Active(i), NEW l, l # "new",
           pc' = [pc EXCEPT ![i] = l], UNCHANGED <<state, kind, spawner, slot, verb>>,
           \A j \in Invocations \ {i} : /\ target'[j] = target[j] /\ then'[j] = then[j]
                                        /\ rc'[j] = rc[j] /\ route'[j] = route[j],
           \A s \in Slots \ {slot[i]} : pidfile'[s] = pidfile[s],
           \/ pidfile'[slot[i]] = pidfile[slot[i]]
           \/ pidfile'[slot[i]] = NoPid /\ (OnePerSession => \/ ~Lives(pidfile[slot[i]])
                                                             \/ pidfile[slot[i]] \in lost'),
           lost \subseteq lost', pc[i] = "write" => target[i] \in lost',
           l = "ensure_owned" => route'[i] = "verify",
           l # "exited" => /\ OnPath(i, l) /\ l # "write"
                           /\ verb[i] \in {"stop", "stop-worker"} => then'[i] = then[i],
           l = "exited" /\ verb[i] = "crash" /\ rc'[i] = 0 =>
              Killed(i) /\ target'[i] = target[i],
           OnePerSession =>
              /\ l \in WorkerLabels => pidfile'[slot[i]] = target'[i]
              /\ l \in LapsedLabels \/ (l \in StartLabels /\ route'[i] = "start")
                    => ~Lives(pidfile'[slot[i]])
    PROVE  TInv'
<1>0. Shape
  BY DEF TInv, IInv
<1>1. \A j \in Invocations : pc'[j] = IF j = i THEN l ELSE pc[j]
  BY <1>0 DEF Shape
<1>2. /\ \A p \in Pids : Alive(p)' <=> Alive(p)
      /\ \A p : Lives(p)' <=> Lives(p)
      /\ \A j \in Invocations : Sess(j)' = Sess(j)
      /\ NoPid \notin Pids
  BY Configuration DEF Alive, Lives, Sess
<1>3. \A j \in Invocations : Active(j)' => Active(j)
  BY <1>1 DEF Active
<1>4. Outcomes'
  <2> SUFFICES ASSUME NEW j \in Invocations
               PROVE  /\ Active(j)' => OnPath(j, pc[j])'
                      /\ StopReturns(j)' /\ (pc'[j] = "ensure_owned" => route'[j] = "verify")
                      /\ pc'[j] = "exited" /\ verb'[j] = "crash" /\ rc'[j] = 0 => Killed(j)'
    BY DEF Outcomes
  <2>1. /\ Active(j) => OnPath(j, pc[j])
        /\ StopReturns(j) /\ (pc[j] = "ensure_owned" => route[j] = "verify")
        /\ pc[j] = "exited" /\ verb[j] = "crash" /\ rc[j] = 0 => Killed(j)
    BY DEF TInv, Outcomes
  <2>2. CASE j = i
    BY <1>1, <2>1, <2>2 DEF Active, OnPath, StopReturns, Killed
  <2>3. CASE j # i
    BY <1>1, <2>1, <2>3 DEF Active, OnPath, StopReturns, Killed
  <2> QED
    BY <2>2, <2>3
<1>5. ASSUME OnePerSession PROVE Ledger'
  <2>0. Ledger /\ Placed
    BY <1>5 DEF TInv, IInv
  <2>1. Exclusive'
    BY <1>2, <1>3, <2>0 DEF Ledger, Exclusive
  <2>2. ASSUME NEW j \in Invocations, j # i, Active(j) PROVE pidfile'[slot[j]] = pidfile[slot[j]]
    <3>1. Sess(j) # Sess(i) /\ slot[j] \in Slots
      BY <2>0, <2>2 DEF Ledger, Exclusive, Placed, Active
    <3> QED
      BY <3>1 DEF Sess
  <2>3. ASSUME NEW j \in Invocations PROVE HeldAt(j)' /\ LapsedAt(j)'
    <3>1. CASE j = i
      BY <1>1, <1>2, <1>5, <3>1 DEF HeldAt, LapsedAt
    <3>2. CASE j # i /\ Active(j)
      <4>1. HeldAt(j) /\ LapsedAt(j)
        BY <2>0 DEF Ledger
      <4> QED
        BY <1>1, <1>2, <2>2, <3>2, <4>1 DEF HeldAt, LapsedAt
    <3>3. CASE j # i /\ ~Active(j)
      BY <1>1, <3>3 DEF HeldAt, LapsedAt, Active, WorkerLabels, LapsedLabels, StopLabels,
                        FixtureLabels, StartLabels
    <3> QED
      BY <3>1, <3>2, <3>3
  <2>4. Tracked'
    <3> SUFFICES ASSUME NEW p \in Pids \ lost', Alive(p), kind[p] = "worker", spawner[p] \in Slots
                 PROVE  \/ pidfile'[spawner[p]] = p
                        \/ \E j \in Invocations : /\ pc'[j] = "write" /\ slot[j] = spawner[p]
                                                  /\ target'[j] = p
      BY <1>2 DEF Tracked
    <3>1. CASE pidfile[spawner[p]] = p
      BY <1>2, <1>5, <3>1 DEF Lives
    <3>2. CASE pidfile[spawner[p]] # p
      <4>1. PICK j \in Invocations : /\ pc[j] = "write" /\ slot[j] = spawner[p]
                                     /\ target[j] = p
        BY <2>0, <3>2 DEF Ledger, Tracked
      <4> QED
        BY <1>1, <4>1
    <3> QED
      BY <3>1, <3>2
  <2> QED
    BY <2>1, <2>3, <2>4 DEF Ledger
<1> QED
  BY <1>4, <1>5 DEF TInv

(* The steps of ensure.                                                   *)
LEMMA EnsureMoves ==
    ASSUME TInv, IInv', NEW i \in Invocations,
           \/ EnsureProbe(i)
           \/ EnsureOwned(i)
           \/ EnsureRunning(i)
           \/ FixtureFirstProbe(i)
           \/ FixtureCheckOwned(i)
           \/ FixtureRecord(i)
           \/ FixturePoll(i)
           \/ AppRole(i)
           \/ MigrateFails(i)
           \/ LoopProbe(i)
           \/ LoopRunning(i)
           \/ LoopGiveUp(i)
           \/ MintProbe(i)
           \/ Mint(i)
           \/ MintCheck(i)
           \/ SecondTenant(i)
           \/ SecondTenantCheck(i)
           \/ AllowEgress(i)
    PROVE  TInv'
<1> USE DEF procVars, fileVars, keyVars, localVars, Goto, Exit, Shape, HeldAt, LapsedAt,
        StopReturns, Active, OnPath, Lives, Alive, Kill0, Running, PidOrNone, CrashLabels,
        TeardownLabels, StopWorkerLabels, WorkerLabels, LapsedLabels, StartLabels,
        StopLabels, FixtureLabels
<1>0. /\ Shape /\ (pc[i] # "new" => slot[i] \in Slots)
      /\ Active(i) => OnPath(i, pc[i])
      /\ StopReturns(i) /\ (pc[i] = "ensure_owned" => route[i] = "verify")
      /\ OnePerSession => HeldAt(i) /\ LapsedAt(i)
      /\ NoPid \notin Pids /\ ~Lives(NoPid)
  BY Configuration DEF TInv, IInv, Placed, Outcomes, Ledger, Lives
<1>1. ASSUME EnsureProbe(i) PROVE TInv'
  BY <1>0, <1>1, MoveStep DEF EnsureProbe
<1>2. ASSUME EnsureOwned(i) PROVE TInv'
  <2>1. Goto(i, "fx_probe") \/ Exit(i, 3)
    BY <1>2, Zenon DEF EnsureOwned
  <2> QED
    BY <1>0, <1>2, <2>1, MoveStep
       DEF EnsureOwned
<1>3. ASSUME EnsureRunning(i) PROVE TInv'
  BY <1>0, <1>3, MoveStep DEF EnsureRunning
<1>4. ASSUME FixtureFirstProbe(i) PROVE TInv'
  BY <1>0, <1>4, MoveStep DEF FixtureFirstProbe
<1>5. ASSUME FixtureCheckOwned(i) PROVE TInv'
  BY <1>0, <1>5, MoveStep DEF FixtureCheckOwned, AfterFixture
<1>6. ASSUME FixtureRecord(i) PROVE TInv'
  BY <1>0, <1>6, MoveStep DEF FixtureRecord
<1>7. ASSUME FixturePoll(i) PROVE TInv'
  <2>1. Goto(i, AfterFixture(i)) \/ Exit(i, 1)
    BY <1>7, Zenon DEF FixturePoll
  <2> QED
    BY <1>0, <1>7, <2>1, MoveStep
       DEF FixturePoll, AfterFixture
<1>8. ASSUME AppRole(i) PROVE TInv'
  BY <1>0, <1>8, MoveStep DEF AppRole
<1>9. ASSUME MigrateFails(i) PROVE TInv'
  BY <1>0, <1>9, MoveStep DEF MigrateFails
<1>10. ASSUME LoopProbe(i) PROVE TInv'
  BY <1>0, <1>10, MoveStep DEF LoopProbe
<1>11. ASSUME LoopRunning(i) PROVE TInv'
  BY <1>0, <1>11, MoveStep DEF LoopRunning
<1>12. ASSUME LoopGiveUp(i) PROVE TInv'
  BY <1>0, <1>12, MoveStep DEF LoopGiveUp
<1>13. ASSUME MintProbe(i) PROVE TInv'
  BY <1>0, <1>13, MoveStep DEF MintProbe
<1>14. ASSUME Mint(i) PROVE TInv'
  BY <1>0, <1>14, MoveStep DEF Mint
<1>15. ASSUME MintCheck(i) PROVE TInv'
  BY <1>0, <1>15, MoveStep DEF MintCheck
<1>16. ASSUME SecondTenant(i) PROVE TInv'
  BY <1>0, <1>16, MoveStep DEF SecondTenant, AfterTenant
<1>17. ASSUME SecondTenantCheck(i) PROVE TInv'
  BY <1>0, <1>17, MoveStep DEF SecondTenantCheck, AfterTenant
<1>18. ASSUME AllowEgress(i) PROVE TInv'
  BY <1>0, <1>18, MoveStep DEF AllowEgress
<1> QED
  BY <1>1, <1>2, <1>3, <1>4, <1>5, <1>6, <1>7, <1>8, <1>9, <1>10, <1>11, <1>12, <1>13,
     <1>14, <1>15, <1>16, <1>17, <1>18

(* Those of stop, stop-worker and crash.                                   *)
LEMMA TeardownMoves ==
    ASSUME TInv, IInv', NEW i \in Invocations,
           \/ StopRunning(i)
           \/ StopOwned(i)
           \/ StopTerm(i)
           \/ StopWait(i)
           \/ StopSecondWait(i)
           \/ StopProbe(i)
           \/ StopRemovePidfile(i)
           \/ StopFixtureOwned(i)
           \/ StopFixtureTerm(i)
           \/ StopFixtureWait(i)
           \/ StopFixtureRemove(i)
           \/ StopFixtureProbe(i)
           \/ CrashRunning(i)
           \/ CrashOwned(i)
           \/ CrashKill(i)
           \/ CrashWait(i)
           \/ CrashNothing(i)
           \/ Survived(i)
           \/ Interrupt(i)
    PROVE  TInv'
<1> USE DEF procVars, fileVars, keyVars, localVars, Goto, Exit, Shape, HeldAt, LapsedAt,
        StopReturns, Active, OnPath, Lives, Alive, Kill0, Running, PidOrNone, CrashLabels,
        TeardownLabels, StopWorkerLabels, WorkerLabels, LapsedLabels, StartLabels,
        StopLabels, FixtureLabels
<1>0. /\ Shape /\ (pc[i] # "new" => slot[i] \in Slots)
      /\ Active(i) => OnPath(i, pc[i])
      /\ StopReturns(i) /\ (pc[i] = "ensure_owned" => route[i] = "verify")
      /\ OnePerSession => HeldAt(i) /\ LapsedAt(i)
      /\ NoPid \notin Pids /\ ~Lives(NoPid)
  BY Configuration DEF TInv, IInv, Placed, Outcomes, Ledger, Lives
<1>1. ASSUME StopRunning(i) PROVE TInv'
  BY <1>0, <1>1, MoveStep DEF StopRunning
<1>2. ASSUME StopOwned(i) PROVE TInv'
  BY <1>0, <1>2, MoveStep DEF StopOwned
<1>3. ASSUME StopTerm(i) PROVE TInv'
  BY <1>0, <1>3, MoveStep DEF StopTerm, Signal
<1>4. ASSUME StopWait(i) PROVE TInv'
  BY <1>0, <1>4, MoveStep DEF StopWait, Signal
<1>5. ASSUME StopSecondWait(i) PROVE TInv'
  BY <1>0, <1>5, MoveStep DEF StopSecondWait
<1>6. ASSUME StopProbe(i) PROVE TInv'
  <2>1. \/ Goto(i, "sw_rm") /\ UNCHANGED pidfile
        \/ Exit(i, 1) /\ pidfile' = [pidfile EXCEPT ![slot[i]] = NoPid]
    BY <1>6, Zenon DEF StopProbe
  <2>2. /\ pc[i] = "sw_probe" /\ UNCHANGED <<procVars, localVars, lost>> /\ slot[i] \in Slots
    BY <1>0, <1>6 DEF StopProbe
  <2>3. /\ pidfile'[slot[i]] \in {pidfile[slot[i]], NoPid}
        /\ \A s \in Slots \ {slot[i]} : pidfile'[s] = pidfile[s]
    BY <1>0, <2>1, <2>2 DEF Shape
  <2>4. OnePerSession => ~Lives(pidfile[slot[i]])
    BY <1>0, <2>2 DEF LapsedAt, LapsedLabels
  <2> QED
    BY <1>0, <2>1, <2>2, <2>3, <2>4, MoveStep
<1>7. ASSUME StopRemovePidfile(i) PROVE TInv'
  BY <1>0, <1>7, MoveStep DEF StopRemovePidfile
<1>8. ASSUME StopFixtureOwned(i) PROVE TInv'
  BY <1>0, <1>8, MoveStep DEF StopFixtureOwned
<1>9. ASSUME StopFixtureTerm(i) PROVE TInv'
  BY <1>0, <1>9, MoveStep DEF StopFixtureTerm, Signal
<1>10. ASSUME StopFixtureWait(i) PROVE TInv'
  BY <1>0, <1>10, MoveStep DEF StopFixtureWait, Signal
<1>11. ASSUME StopFixtureRemove(i) PROVE TInv'
  BY <1>0, <1>11, MoveStep DEF StopFixtureRemove
<1>12. ASSUME StopFixtureProbe(i) PROVE TInv'
  BY <1>0, <1>12, MoveStep DEF StopFixtureProbe
<1>13. ASSUME CrashRunning(i) PROVE TInv'
  BY <1>0, <1>13, MoveStep DEF CrashRunning
<1>14. ASSUME CrashOwned(i) PROVE TInv'
  BY <1>0, <1>14, MoveStep DEF CrashOwned
<1>15. ASSUME CrashKill(i) PROVE TInv'
  BY <1>0, <1>15, MoveStep DEF CrashKill, Signal
<1>16. ASSUME CrashWait(i) PROVE TInv'
  <2>1. /\ pidfile' = [pidfile EXCEPT ![slot[i]] = NoPid] /\ slot[i] \in Slots
        /\ UNCHANGED <<procVars, localVars, lost>>
    BY <1>0, <1>16 DEF CrashWait
  <2>2. /\ pidfile'[slot[i]] = NoPid
        /\ \A s \in Slots \ {slot[i]} : pidfile'[s] = pidfile[s]
    BY <1>0, <2>1 DEF Shape
  <2>3. /\ pc[i] = "crash_wait" /\ pc' = [pc EXCEPT ![i] = "exited"]
        /\ rc' = [rc EXCEPT ![i] = 0] /\ ~Kill0(target[i])
    BY <1>16 DEF CrashWait, Exit
  <2>4. StartedBy(target[i], "worker", slot[i])
    <3>1. Aimed
      BY DEF TInv, IInv
    <3>2. pc[i] \in WorkerLabels
      BY <2>3 DEF WorkerLabels
    <3> QED
      BY <3>1, <3>2, Zenon DEF Aimed
  <2>5. target[i] \in Pids /\ ~Alive(target[i])
    BY <1>0, <2>3, <2>4 DEF Kill0, StartedBy
  <2>6. Killed(i) /\ ~Lives(target[i])
    BY <1>0, <2>4, <2>5 DEF Killed, StartedBy, Shape, States, Alive, Lives
  <2>7. OnePerSession => ~Lives(pidfile[slot[i]])
    BY <1>0, <2>3, <2>6 DEF HeldAt, WorkerLabels
  <2> QED
    BY <1>0, <2>1, <2>2, <2>3, <2>6, <2>7, MoveStep
<1>17. ASSUME CrashNothing(i) PROVE TInv'
  <2>1. /\ pidfile' = [pidfile EXCEPT ![slot[i]] = NoPid] /\ slot[i] \in Slots
        /\ UNCHANGED <<procVars, localVars, lost>>
    BY <1>0, <1>17 DEF CrashNothing
  <2>2. /\ pidfile'[slot[i]] = NoPid
        /\ \A s \in Slots \ {slot[i]} : pidfile'[s] = pidfile[s]
    BY <1>0, <2>1 DEF Shape
  <2>3. /\ pc[i] = "crash_rm" /\ pc' = [pc EXCEPT ![i] = "exited"]
        /\ rc' = [rc EXCEPT ![i] = 1]
    BY <1>17 DEF CrashNothing, Exit
  <2>4. OnePerSession => ~Lives(pidfile[slot[i]])
    BY <1>0, <2>3 DEF LapsedAt, LapsedLabels
  <2>9. rc'[i] # 0
    BY <1>0, <2>3 DEF Shape
  <2> QED
    BY <1>0, <2>9, <2>1, <2>2, <2>3, <2>4, MoveStep
<1>18. ASSUME Survived(i) PROVE TInv'
  <2>1. /\ pidfile' = [pidfile EXCEPT ![slot[i]] = NoPid] \/ UNCHANGED pidfile
        /\ UNCHANGED <<procVars, localVars>> /\ slot[i] \in Slots
        /\ lost' = lost \cup {target[i]}
    BY <1>0, <1>18 DEF Survived
  <2>2. /\ pidfile'[slot[i]] \in {pidfile[slot[i]], NoPid}
        /\ \A s \in Slots \ {slot[i]} : pidfile'[s] = pidfile[s]
    BY <1>0, <2>1 DEF Shape
  <2>3. /\ pc[i] \in {"sw_wait2", "crash_wait"} /\ pc' = [pc EXCEPT ![i] = "exited"]
        /\ rc' = [rc EXCEPT ![i] = 1]
    BY <1>18 DEF Survived, Exit
  <2>4. OnePerSession => pidfile[slot[i]] = target[i]
    BY <1>0, <2>3 DEF HeldAt, WorkerLabels
  <2>9. rc'[i] # 0
    BY <1>0, <2>3 DEF Shape
  <2> QED
    BY <1>0, <2>9, <2>1, <2>2, <2>3, <2>4, MoveStep
<1>19. ASSUME Interrupt(i) PROVE TInv'
  <2>1. /\ Active(i) /\ pc' = [pc EXCEPT ![i] = "exited"] /\ rc' = [rc EXCEPT ![i] = 130]
        /\ UNCHANGED <<procVars, fileVars, localVars>>
        /\ lost \subseteq lost' /\ (pc[i] = "write" => target[i] \in lost')
    BY <1>19 DEF Interrupt, Exit
  <2>9. rc'[i] # 0
    BY <1>0, <2>1 DEF Shape
  <2> QED
    BY <1>0, <2>9, <2>1, MoveStep
<1> QED
  BY <1>1, <1>2, <1>3, <1>4, <1>5, <1>6, <1>7, <1>8, <1>9, <1>10, <1>11, <1>12, <1>13,
     <1>14, <1>15, <1>16, <1>17, <1>18, <1>19

(* A new process has a pid that nothing names: the worker is the pid its   *)
(* invocation is about to write, over a pidfile that names nothing alive.  *)
LEMMA SpawnMoves ==
    ASSUME TInv, IInv', NEW i \in Invocations, FixtureSpawn(i) \/ SpawnWorker(i)
    PROVE  TInv'
<1> USE DEF fileVars
<1> DEFINE what == IF pc[i] = "migrate" THEN "worker" ELSE "fixture"
           l == IF pc[i] = "migrate" THEN "write" ELSE "fx_write"
<1>0. Shape /\ Pidfiles /\ slot[i] \in Slots /\ Active(i)
  BY DEF TInv, IInv, Placed, FixtureSpawn, SpawnWorker, Active
<1>1. PICK p \in Pids : Spawn(p, what, i)
  BY DEF FixtureSpawn, SpawnWorker
<1>2. /\ pc[i] \in {"migrate", "fx_spawn"} /\ pc' = [pc EXCEPT ![i] = l]
      /\ UNCHANGED <<pidfile, verb, slot, route, then, rc, lost>>
  BY DEF FixtureSpawn, SpawnWorker, Goto
<1>3. /\ state[p] = "free" /\ state' = [state EXCEPT ![p] = "starting"]
      /\ kind' = [kind EXCEPT ![p] = what] /\ spawner' = [spawner EXCEPT ![p] = slot[i]]
      /\ target' = [target EXCEPT ![i] = p]
  BY <1>1 DEF Spawn
<1> HIDE DEF what, l
<1>4. /\ \A j \in Invocations : /\ pc'[j] = IF j = i THEN l ELSE pc[j]
                                /\ target'[j] = IF j = i THEN p ELSE target[j]
      /\ \A q \in Pids : q # p => /\ state'[q] = state[q] /\ kind'[q] = kind[q]
                                  /\ spawner'[q] = spawner[q]
      /\ state'[p] = "starting" /\ kind'[p] = what /\ spawner'[p] = slot[i]
  BY <1>0, <1>2, <1>3 DEF Shape
<1>5. /\ l \in {"write", "fx_write"} /\ (what = "worker" => l = "write")
      /\ pc[i] = "migrate" <=> l = "write"
  BY <1>2 DEF what, l
<1>6. \A j \in Invocations : Active(j)' <=> Active(j)
  BY <1>0, <1>4, <1>5 DEF Active
<1>7. Outcomes'
  <2> SUFFICES ASSUME NEW j \in Invocations
               PROVE  /\ Active(j)' => OnPath(j, pc[j])'
                      /\ StopReturns(j)' /\ (pc'[j] = "ensure_owned" => route'[j] = "verify")
                      /\ pc'[j] = "exited" /\ verb'[j] = "crash" /\ rc'[j] = 0 => Killed(j)'
    BY DEF Outcomes
  <2>1. /\ Active(j) => OnPath(j, pc[j])
        /\ StopReturns(j) /\ (pc[j] = "ensure_owned" => route[j] = "verify")
        /\ pc[j] = "exited" /\ verb[j] = "crash" /\ rc[j] = 0 => Killed(j)
    BY DEF TInv, Outcomes
  <2>2. CASE j = i
    BY <1>0, <1>2, <1>4, <1>5, <2>1, <2>2 DEF OnPath, StopReturns, Active, CrashLabels,
       TeardownLabels, StopWorkerLabels, StopLabels, FixtureLabels
  <2>3. CASE j # i
    <3>1. Killed(j) => Killed(j)'
      BY <1>2, <1>3, <1>4, <2>3 DEF Killed
    <3> QED
      BY <1>2, <1>4, <2>1, <2>3, <3>1 DEF OnPath, StopReturns, Active
  <2> QED
    BY <2>2, <2>3
<1>8. ASSUME OnePerSession PROVE Ledger'
  <2>0. Ledger
    BY <1>8 DEF TInv
  <2>1. \A j \in Invocations : Sess(j)' = Sess(j)
    BY <1>2 DEF Sess
  <2>2. Exclusive'
    BY <1>6, <2>0, <2>1 DEF Ledger, Exclusive
  <2>3. \A s \in Slots : pidfile[s] # p /\ (Lives(pidfile[s])' <=> Lives(pidfile[s]))
    <3> SUFFICES ASSUME NEW s \in Slots
                 PROVE  pidfile[s] # p /\ (Lives(pidfile[s])' <=> Lives(pidfile[s]))
      OBVIOUS
    <3>1. pidfile[s] \in Pids \cup {NoPid} /\ NoPid \notin Pids
      BY <1>0, Configuration DEF Shape, PidOrNone
    <3>2. pidfile[s] # p
      BY <1>0, <1>3, <3>1 DEF Pidfiles, StartedBy
    <3> QED
      BY <1>2, <1>4, <3>1, <3>2 DEF Lives, Alive
  <2>4. ASSUME NEW j \in Invocations PROVE HeldAt(j)' /\ LapsedAt(j)'
    <3>1. HeldAt(j) /\ LapsedAt(j)
      BY <2>0 DEF Ledger
    <3>2. Active(j) => slot[j] \in Slots
      BY DEF TInv, IInv, Placed, Active
    <3>3. CASE j = i
      BY <1>0, <1>2, <1>4, <1>5, <2>3, <3>1, <3>3
         DEF HeldAt, LapsedAt, WorkerLabels, LapsedLabels, StopLabels, FixtureLabels,
             StartLabels
    <3>4. CASE j # i
      BY <1>2, <1>4, <2>3, <3>1, <3>2, <3>4
         DEF HeldAt, LapsedAt, Active, WorkerLabels, LapsedLabels, StopLabels,
             FixtureLabels, StartLabels
    <3> QED
      BY <3>3, <3>4
  <2>5. Tracked'
    <3> SUFFICES ASSUME NEW q \in Pids \ lost', Alive(q)', kind'[q] = "worker",
                        spawner'[q] \in Slots
                 PROVE  \/ pidfile'[spawner'[q]] = q
                        \/ \E j \in Invocations : /\ pc'[j] = "write" /\ slot'[j] = spawner'[q]
                                                  /\ target'[j] = q
      BY DEF Tracked
    <3>1. CASE q = p
      BY <1>2, <1>4, <1>5, <3>1
    <3>2. CASE q # p
      <4>1. Alive(q) /\ kind[q] = "worker" /\ spawner[q] = spawner'[q]
        BY <1>4, <3>2 DEF Alive
      <4>2. CASE pidfile[spawner[q]] = q
        BY <1>2, <4>1, <4>2
      <4>3. CASE pidfile[spawner[q]] # q
        <5>1. PICK j \in Invocations : /\ pc[j] = "write" /\ slot[j] = spawner[q]
                                       /\ target[j] = q
          BY <1>2, <2>0, <4>1, <4>3 DEF Ledger, Tracked
        <5> QED
          BY <1>2, <1>4, <4>1, <5>1
      <4> QED
        BY <4>2, <4>3
    <3> QED
      BY <3>1, <3>2
  <2> QED
    BY <2>2, <2>4, <2>5 DEF Ledger
<1> QED
  BY <1>7, <1>8 DEF TInv

(* Writing the pid down: nothing alive was named by what it overwrites.    *)
LEMMA RecordMoves ==
    ASSUME TInv, IInv', NEW i \in Invocations, RecordWorker(i)
    PROVE  TInv'
<1> USE DEF procVars, localVars
<1>0. Shape /\ slot[i] \in Slots /\ Active(i) /\ NoPid \notin Pids
  BY Configuration DEF TInv, IInv, Placed, RecordWorker, Active
<1>1. /\ pc[i] = "write" /\ pc' = [pc EXCEPT ![i] = "loop"]
      /\ pidfile' = [pidfile EXCEPT ![slot[i]] = target[i]]
      /\ UNCHANGED <<state, kind, spawner, verb, slot, route, then, target, rc, lost>>
  BY DEF RecordWorker, Goto
<1>2. /\ \A j \in Invocations : pc'[j] = IF j = i THEN "loop" ELSE pc[j]
      /\ pidfile'[slot[i]] = target[i]
      /\ \A s \in Slots : s # slot[i] => pidfile'[s] = pidfile[s]
  BY <1>0, <1>1 DEF Shape
<1>3. \A j \in Invocations : Active(j)' <=> Active(j)
  BY <1>0, <1>2 DEF Active
<1>4. Outcomes'
  BY <1>1, <1>2 DEF TInv, Outcomes, OnPath, StopReturns, Killed, Active, CrashLabels,
                    TeardownLabels, StopWorkerLabels, StopLabels, FixtureLabels
<1>5. ASSUME OnePerSession PROVE Ledger'
  <2>0. Ledger /\ Placed
    BY <1>5 DEF TInv, IInv
  <2>1. /\ \A j \in Invocations : Sess(j)' = Sess(j)
        /\ \A p : Lives(p)' <=> Lives(p)
    BY <1>1 DEF Sess, Lives, Alive
  <2>2. Exclusive'
    BY <1>3, <2>0, <2>1 DEF Ledger, Exclusive
  <2>3. ASSUME NEW j \in Invocations, Active(j), j # i
        PROVE  slot[j] \in Slots /\ slot[j] # slot[i]
    BY <1>0, <2>0, <2>3 DEF Ledger, Exclusive, Sess, Placed, Active
  <2>4. ASSUME NEW j \in Invocations PROVE HeldAt(j)' /\ LapsedAt(j)'
    <3>1. HeldAt(j) /\ LapsedAt(j)
      BY <2>0 DEF Ledger
    <3>2. CASE j = i
      BY <1>2, <3>2 DEF HeldAt, LapsedAt, WorkerLabels, LapsedLabels, StopLabels, FixtureLabels,
                        StartLabels
    <3>3. CASE j # i
      BY <1>1, <1>2, <2>1, <2>3, <3>1, <3>3
         DEF HeldAt, LapsedAt, Active, WorkerLabels, LapsedLabels, StopLabels,
             FixtureLabels, StartLabels
    <3> QED
      BY <3>2, <3>3
  <2>5. ~Lives(pidfile[slot[i]])
    BY <1>1, <2>0 DEF Ledger, LapsedAt, LapsedLabels
  <2>6. Tracked'
    <3> SUFFICES ASSUME NEW p \in Pids \ lost, Alive(p), kind[p] = "worker", spawner[p] \in Slots
                 PROVE  \/ pidfile'[spawner[p]] = p
                        \/ \E j \in Invocations : /\ pc'[j] = "write" /\ slot[j] = spawner[p]
                                                  /\ target[j] = p
      BY <1>1 DEF Tracked, Alive
    <3>1. CASE pidfile[spawner[p]] = p
      BY <1>2, <2>5, <3>1 DEF Lives
    <3>2. CASE pidfile[spawner[p]] # p
      <4>1. PICK j \in Invocations : /\ pc[j] = "write" /\ slot[j] = spawner[p]
                                     /\ target[j] = p
        BY <2>0, <3>2 DEF Ledger, Tracked
      <4> QED
        BY <1>2, <4>1
    <3> QED
      BY <3>1, <3>2
  <2> QED
    BY <2>2, <2>4, <2>6 DEF Ledger
<1> QED
  BY <1>4, <1>5 DEF TInv

(* A session that waits for its verbs launches one when none runs.         *)
LEMMA LaunchMoves ==
    ASSUME TInv, IInv', NEW i \in Invocations, Launch(i)
    PROVE  TInv'
<1> USE DEF procVars, fileVars
<1>0. Shape
  BY DEF TInv, IInv
<1>1. PICK s \in Slots, v \in Verbs :
          /\ OnePerSession => \A j \in Invocations : Active(j) => Sess(j) # SessionOf[s]
          /\ slot' = [slot EXCEPT ![i] = s] /\ verb' = [verb EXCEPT ![i] = v]
          /\ Goto(i, FirstLabel(v)) /\ then' = [then EXCEPT ![i] = Afterwards(v)]
  BY DEF Launch
<1>2. /\ pc[i] = "new" /\ UNCHANGED <<state, kind, spawner, pidfile, route, target, lost>>
  BY DEF Launch
<1>3. v \in AllVerbs
  BY Configuration
<1>4. /\ v = "ensure" => FirstLabel(v) = "ensure"
      /\ v = "crash" => FirstLabel(v) = "crash"
      /\ v \in {"stop", "stop-worker"} => FirstLabel(v) = "sw_running"
      /\ Afterwards(v) = IF v = "stop" THEN "sf_owned" ELSE "done"
  BY DEF FirstLabel, Afterwards
<1>5. pc' = [pc EXCEPT ![i] = FirstLabel(v)] /\ UNCHANGED rc
  BY <1>1, <1>3, <1>4 DEF Goto, AllVerbs
<1>6. \A j \in Invocations :
          /\ j # i => /\ pc'[j] = pc[j] /\ slot'[j] = slot[j] /\ verb'[j] = verb[j]
                      /\ then'[j] = then[j]
          /\ j = i => /\ pc'[j] = FirstLabel(v) /\ slot'[j] = s /\ verb'[j] = v
                      /\ then'[j] = Afterwards(v)
  BY <1>0, <1>1, <1>5 DEF Shape
<1>7. Outcomes'
  <2> SUFFICES ASSUME NEW j \in Invocations
               PROVE  /\ Active(j)' => OnPath(j, pc[j])'
                      /\ StopReturns(j)' /\ (pc'[j] = "ensure_owned" => route'[j] = "verify")
                      /\ pc'[j] = "exited" /\ verb'[j] = "crash" /\ rc'[j] = 0 => Killed(j)'
    BY DEF Outcomes
  <2>1. /\ Active(j) => OnPath(j, pc[j])
        /\ StopReturns(j) /\ (pc[j] = "ensure_owned" => route[j] = "verify")
        /\ pc[j] = "exited" /\ verb[j] = "crash" /\ rc[j] = 0 => Killed(j)
    BY DEF TInv, Outcomes
  <2>2. CASE j = i
    BY <1>3, <1>4, <1>6, <2>2 DEF AllVerbs, OnPath, StopReturns, CrashLabels, TeardownLabels,
       StopWorkerLabels
  <2>3. CASE j # i
    BY <1>2, <1>5, <1>6, <2>1, <2>3 DEF OnPath, StopReturns, Killed, Active
  <2> QED
    BY <2>2, <2>3
<1>8. ASSUME OnePerSession PROVE Ledger'
  <2>0. Ledger
    BY <1>8 DEF TInv
  <2>1. /\ Sess(i)' = SessionOf[s]
        /\ \A j \in Invocations : j # i => Sess(j)' = Sess(j) /\ (Active(j)' <=> Active(j))
    BY <1>6 DEF Sess, Active
  <2>2. Exclusive'
    BY <1>1, <1>8, <2>0, <2>1 DEF Ledger, Exclusive
  <2>3. \A p : Lives(p)' <=> Lives(p)
    BY <1>2 DEF Lives, Alive
  <2>4. ASSUME NEW j \in Invocations PROVE HeldAt(j)' /\ LapsedAt(j)'
    <3>1. HeldAt(j) /\ LapsedAt(j)
      BY <2>0 DEF Ledger
    <3>2. CASE j = i
      BY <1>3, <1>4, <1>6, <3>2 DEF AllVerbs, HeldAt, LapsedAt, WorkerLabels, LapsedLabels,
         StopLabels, FixtureLabels, StartLabels
    <3>3. CASE j # i
      BY <1>2, <1>6, <2>3, <3>1, <3>3 DEF HeldAt, LapsedAt
    <3> QED
      BY <3>2, <3>3
  <2>5. Tracked'
    <3> SUFFICES ASSUME NEW p \in Pids \ lost, Alive(p), kind[p] = "worker", spawner[p] \in Slots
                 PROVE  \/ pidfile[spawner[p]] = p
                        \/ \E j \in Invocations : /\ pc'[j] = "write" /\ slot'[j] = spawner[p]
                                                  /\ target[j] = p
      BY <1>2 DEF Tracked, Alive
    <3>1. CASE pidfile[spawner[p]] # p
      <4>1. PICK j \in Invocations : /\ pc[j] = "write" /\ slot[j] = spawner[p]
                                     /\ target[j] = p
        BY <2>0, <3>1 DEF Ledger, Tracked
      <4> QED
        BY <1>2, <1>6, <4>1
    <3> QED
      BY <3>1
  <2> QED
    BY <2>2, <2>4, <2>5 DEF Ledger
<1> QED
  BY <1>7, <1>8 DEF TInv

(* What the processes do of themselves brings none to life, and nothing    *)
(* else the invariant speaks of moves.                                     *)
LEMMA DeathStep ==
    ASSUME TInv, IInv', UNCHANGED <<kind, spawner, pidfile, localVars, pc, rc, lost>>,
           \A p \in Pids : /\ Alive(p)' => Alive(p)
                           /\ state[p] \in {"dead", "reused"} => state'[p] \in {"dead", "reused"}
    PROVE  TInv'
<1> USE DEF localVars
<1>1. \A j \in Invocations : /\ Active(j)' = Active(j) /\ Sess(j)' = Sess(j)
                             /\ \A l : OnPath(j, l)' = OnPath(j, l)
                             /\ StopReturns(j)' = StopReturns(j)
                             /\ Killed(j) => Killed(j)'
  BY DEF Active, Sess, OnPath, StopReturns, Killed
<1>2. Outcomes'
  BY <1>1 DEF TInv, Outcomes, OnPath
<1>3. ASSUME OnePerSession PROVE Ledger'
  <2>1. Ledger
    BY <1>3 DEF TInv
  <2>2. Exclusive'
    BY <1>1, <2>1 DEF Ledger, Exclusive
  <2>3. \A p : Lives(p)' => Lives(p)
    BY DEF Lives
  <2>4. Tracked'
    BY <2>1 DEF Ledger, Tracked
  <2> QED
    BY <2>1, <2>2, <2>3, <2>4 DEF Ledger, HeldAt, LapsedAt
<1> QED
  BY <1>2, <1>3 DEF TInv

LEMMA EnvironmentMoves ==
    ASSUME TInv, IInv', NEW p \in Pids, Environment(p)
    PROVE  TInv'
<1> USE DEF osVars, fileVars
<1>1. state \in [Pids -> States]
  BY DEF TInv, IInv, Shape
<1>2. \A q \in Pids : q # p => state'[q] = state[q]
  BY <1>1 DEF Environment, Bind, Drain, Dies, Reuse
<1>3. /\ Alive(p)' => Alive(p)
      /\ state[p] \in {"dead", "reused"} => state'[p] \in {"dead", "reused"}
  BY <1>1 DEF Environment, Bind, Drain, Dies, Reuse, Alive
<1>4. UNCHANGED <<kind, spawner, pidfile, localVars, pc, rc, lost>>
  BY DEF Environment, Bind, Drain, Dies, Reuse
<1> QED
  BY <1>2, <1>3, <1>4, DeathStep DEF Alive

LEMMA StepTInv == TInv /\ [Next]_vars => TInv'
<1> SUFFICES ASSUME TInv, [Next]_vars PROVE TInv'
  OBVIOUS
<1>0. IInv'
  BY StepIInv DEF TInv
<1>1. ASSUME NEW i \in Invocations, Launch(i) PROVE TInv'
  BY <1>0, <1>1, LaunchMoves
<1>2. ASSUME NEW i \in Invocations, Ensure(i) PROVE TInv'
  BY <1>0, <1>2, EnsureMoves, SpawnMoves, RecordMoves DEF Ensure
<1>3. ASSUME NEW i \in Invocations, Stop(i) PROVE TInv'
  BY <1>0, <1>3, TeardownMoves DEF Stop
<1>4. ASSUME NEW i \in Invocations, Crash(i) \/ Survived(i) \/ Interrupt(i) PROVE TInv'
  BY <1>0, <1>4, TeardownMoves DEF Crash
<1>5. ASSUME NEW i \in Invocations, LoopGiveUp(i) PROVE TInv'
  BY <1>0, <1>5, EnsureMoves
<1>6. ASSUME NEW p \in Pids, Environment(p) PROVE TInv'
  BY <1>0, <1>6, EnvironmentMoves
<1>7. ASSUME NEW d \in Databases, Truncate(d) PROVE TInv'
  BY <1>0, <1>7, DeathStep DEF Truncate, procVars, Alive
<1>8. CASE UNCHANGED vars
  BY <1>0, <1>8, DeathStep DEF vars, procVars, fileVars, Alive
<1> QED
  BY <1>1, <1>2, <1>3, <1>4, <1>5, <1>6, <1>7, <1>8 DEF Next, Step, Finished

LEMMA TrackingInduction == Spec => []TInv
BY InitTInv, StepTInv, PTL DEF Spec
-----------------------------------------------------------------------------
(* crash exits 0 only if a worker of its own slot is dead by then, however *)
(* many verbs overlap.                                                     *)
THEOREM CrashIsConclusive == Spec => []CrashKilledItsWorker
<1>1. TInv => CrashKilledItsWorker
  <2> SUFFICES ASSUME TInv, NEW i \in Invocations, pc[i] = "exited", verb[i] = "crash", rc[i] = 0
               PROVE  /\ target[i] # NoPid /\ ~Alive(target[i])
                      /\ kind[target[i]] = "worker" /\ spawner[target[i]] = slot[i]
    BY DEF CrashKilledItsWorker
  <2>1. Killed(i)
    BY DEF TInv, Outcomes
  <2> QED
    BY <2>1, Configuration DEF Killed, Alive
<1> QED
  BY <1>1, TrackingInduction, PTL

(* No sequence of verbs, deaths, reused pids and interruptions leaves a    *)
(* live worker that its pidfile does not name, save one reported lost.     *)
THEOREM WorkersStayTracked == ASSUME OnePerSession PROVE Spec => []LiveWorkersAreTracked
<1>1. TInv => LiveWorkersAreTracked
  <2> SUFFICES ASSUME TInv, NEW s \in Slots,
                      \A i \in Invocations : Active(i) => slot[i] # s,
                      NEW p \in Pids \ lost, Alive(p), kind[p] = "worker", spawner[p] = s
               PROVE  pidfile[s] = p
    BY DEF LiveWorkersAreTracked
  <2>1. Tracked
    BY DEF TInv, Ledger
  <2> QED
    BY <2>1 DEF Tracked, Active
<1> QED
  BY <1>1, TrackingInduction, PTL

(* On its way through stop_worker, before the pidfile is removed, a verb   *)
(* leaves only with an error.                                              *)
LEMMA TeardownExits ==
    ASSUME Shape, [Next]_vars, NEW i \in Invocations, pc[i] \in StopWorkerLabels \ {"sw_rm"},
           pc'[i] = "exited"
    PROVE  rc'[i] # 0
<1>1. pc[i] # "exited"
  BY DEF StopWorkerLabels
<1>2. PICK j \in Invocations : Launch(j) \/ Step(j) \/ LoopGiveUp(j) \/ Interrupt(j)
  BY <1>1, ScriptSteps
<1>3. j = i
  BY <1>1, <1>2, OthersStay
<1>4. ~(Launch(i) \/ LoopGiveUp(i) \/ Ensure(i) \/ Crash(i))
  BY DEF StopWorkerLabels, Launch, LoopGiveUp, Crash, CrashRunning, CrashOwned, CrashKill,
         CrashWait, CrashNothing,
         Ensure, EnsureProbe, EnsureOwned, EnsureRunning, FixtureFirstProbe, FixtureCheckOwned,
         FixtureSpawn, FixtureRecord, FixturePoll, AppRole, MigrateFails, SpawnWorker,
         RecordWorker, LoopProbe, LoopRunning, MintProbe, Mint, MintCheck, SecondTenant,
         SecondTenantCheck, AllowEgress
<1>5. CASE Survived(i) \/ Interrupt(i)
  BY <1>5 DEF Survived, Interrupt, Exit, Shape
<1>6. CASE Stop(i)
  <2>1. \A to : to \notin {"done", "exited"} => ~Goto(i, to)
    BY DEF Goto, Shape
  <2>2. StopOwned(i) \/ StopProbe(i)
    BY <1>6, <2>1 DEF StopWorkerLabels, Stop, StopRunning, StopOwned, StopTerm, StopWait,
       StopSecondWait, StopProbe, StopRemovePidfile, StopFixtureOwned, StopFixtureTerm,
       StopFixtureWait, StopFixtureRemove, StopFixtureProbe
  <2>3. Exit(i, 3) \/ Exit(i, 1)
    BY <2>1, <2>2 DEF StopOwned, StopProbe
  <2> QED
    BY <2>3 DEF Exit, Shape
<1> QED
  BY <1>2, <1>3, <1>4, <1>5, <1>6 DEF Step

(* A stop or a stop-worker that exits 0 leaves no worker of its slot.      *)
THEOREM StopIsConclusive == ASSUME OnePerSession PROVE Spec => StopLeavesNoWorker
<1>1. ASSUME TInv, [Next]_vars, NEW i \in Invocations, ExitsWith0(i),
             verb[i] \in {"stop", "stop-worker"}, NEW p \in Pids \ lost, kind[p] = "worker",
             spawner[p] = slot[i]
      PROVE  ~Alive(p)
  <2>1. Active(i) /\ Ledger /\ OnPath(i, pc[i]) /\ slot[i] \in Slots
    BY <1>1 DEF TInv, IInv, Outcomes, Placed, ExitsWith0, Active
  <2>2. pc[i] \in {"sw_rm"} \cup StopLabels
    <3>1. pc[i] \in TeardownLabels /\ pc'[i] = "exited" /\ rc'[i] = 0 /\ Shape
      BY <1>1, <2>1 DEF OnPath, ExitsWith0, TInv, IInv
    <3> QED
      BY <1>1, <3>1, TeardownExits DEF TeardownLabels, StopWorkerLabels
  <2>3. ~Lives(pidfile[slot[i]])
    BY <2>1, <2>2 DEF Ledger, LapsedAt, LapsedLabels
  <2>4. ASSUME Alive(p) PROVE FALSE
    <3>1. pidfile[slot[i]] # p
      BY <2>3, <2>4 DEF Lives
    <3>2. PICK j \in Invocations : pc[j] = "write" /\ slot[j] = slot[i] /\ target[j] = p
      BY <1>1, <2>1, <2>4, <3>1 DEF Ledger, Tracked
    <3>3. i # j
      BY <2>2, <3>2 DEF StopLabels, FixtureLabels
    <3> QED
      BY <2>1, <3>2, <3>3 DEF Ledger, Exclusive, Active, Sess
  <2> QED
    BY <2>4
<1>2. TInv /\ [Next]_vars =>
        [\A i \in Invocations : ExitsWith0(i) /\ verb[i] \in {"stop", "stop-worker"} =>
            \A p \in Pids \ lost : kind[p] = "worker" /\ spawner[p] = slot[i] => ~Alive(p)]_vars
  BY <1>1
<1> QED
  BY <1>2, TrackingInduction, PTL DEF Spec, StopLeavesNoWorker
=============================================================================
