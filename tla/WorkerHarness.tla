--------------------------- MODULE WorkerHarness ---------------------------
(***************************************************************************)
(* scripts/worker.sh: the verbs that start, verify, crash and stop the     *)
(* worker and the fixture service of a test session.  Several invocations  *)
(* of the script run at once; each step below is one observation (a curl,  *)
(* a kill -0, a ps) or one change (a spawn, a signal, a file), so anything *)
(* another process does between two of them is a step in between.          *)
(*                                                                         *)
(* A slot is one CLEAT_PORTS_WORKER_INSTANCE of a session: it has a pidfile*)
(* and an API port of its own, and shares the session's database, key file *)
(* and fixture service with the session's other slots.                     *)
(***************************************************************************)
EXTENDS Naturals, FiniteSets

CONSTANTS
    Invocations,    \* runs of the script, one-shot, numbered as launched
    Pids,           \* process ids; each is spawned at most once
    Slots, Sessions, Ports, Databases,
    Verbs,          \* the verbs invocations are launched with
    SessionOf,      \* [Slots -> Sessions]
    ApiPort,        \* [Slots -> Ports]        CLEAT_PORTS_API_PORT + N - 1
    FixturePort,    \* [Sessions -> Ports]     CLEAT_PORTS_FIXTURE_PORT
    Db,             \* [Sessions -> Databases] CLEAT_PORTS_DSN
    OnePerSession,  \* a session waits for one invocation before the next
    Flaky,          \* a live server may fail to answer a probe in time
    Postgres,       \* the dialect provisions a role and a second tenant
    MaxFaults,      \* bound on spontaneous deaths, reuses and truncations
    MaxInterrupts,  \* bound on invocations killed from outside
    NoPid, NoSlot

AllVerbs == {"ensure", "crash", "stop", "stop-worker"}

ASSUME Configuration ==
    /\ Verbs \subseteq AllVerbs /\ Invocations \subseteq Nat
    /\ SessionOf \in [Slots -> Sessions] /\ ApiPort \in [Slots -> Ports]
    /\ FixturePort \in [Sessions -> Ports] /\ Db \in [Sessions -> Databases]
    /\ {OnePerSession, Flaky, Postgres} \subseteq BOOLEAN
    /\ MaxFaults \in Nat /\ MaxInterrupts \in Nat
    /\ NoPid \notin Pids /\ NoSlot \notin Slots

VARIABLES
    state, kind, spawner,   \* of each pid: life, what it runs, who started it
    signalled,              \* the strongest signal each pid has been sent
    pidfile, fixpid,        \* worker.pid per slot, fixture.pid per session
    keyfile, keyfileB,      \* api-key and api-key-b per session
    egress,                 \* databases whose egress allowlist has the fixture
    verb, slot, pc,         \* of each invocation
    route, then, target,    \* its locals: how it got ready, where stop_worker
                            \* returns to, and $pid
    rc,                     \* its exit code
    lost,                   \* ghost: live processes an invocation reported it
                            \* could not stop, or died before recording
    faults, interrupts

procVars == <<state, kind, spawner, signalled>>
keyVars == <<keyfile, keyfileB, egress>>
fileVars == <<pidfile, fixpid, keyVars>>
localVars == <<verb, slot, route, then, target>>
budgetVars == <<faults, interrupts>>
vars == <<procVars, fileVars, localVars, pc, rc, lost, budgetVars>>

KeyStates == {"absent", "revoked", "valid"}
-----------------------------------------------------------------------------
(* The operating system, as the script sees it.                            *)
Alive(p) == state[p] \in {"starting", "serving", "stopping"}

\* kill -0: true of the process and of a stranger that was given its pid.
Kill0(p) == p # NoPid /\ (Alive(p) \/ state[p] = "reused")

PortOf(p) == IF kind[p] = "worker" THEN ApiPort[spawner[p]]
                                   ELSE FixturePort[SessionOf[spawner[p]]]
DbOf(p) == Db[SessionOf[spawner[p]]]

Listeners(port) == {p \in Pids : state[p] = "serving" /\ PortOf(p) = port}

\* curl -m 2 .../healthz: the set of answers a probe can see, as the process
\* that answers or NoPid.
Probe(port) == IF Listeners(port) = {} \/ Flaky
               THEN Listeners(port) \cup {NoPid} ELSE Listeners(port)
-----------------------------------------------------------------------------
Sess(i) == SessionOf[slot[i]]
Running(i) == Kill0(pidfile[slot[i]])

\* Mutant: the pidfile is believed, as a flat pidfile once was.
OwnedByPidfile(i) == Running(i)

\* owned: the pidfile names a process whose argv is a worker on this port and
\* this database.
Owned(i) ==
    LET p == pidfile[slot[i]]
    IN /\ p # NoPid /\ Alive(p) /\ kind[p] = "worker"
       /\ PortOf(p) = ApiPort[slot[i]] /\ DbOf(p) = Db[Sess(i)]

FixtureOwned(i) ==
    LET p == fixpid[Sess(i)]
    IN p # NoPid /\ Alive(p) /\ kind[p] = "fixture" /\ PortOf(p) = FixturePort[Sess(i)]

\* key_state_of: 1 for no file and for 401/403, 2 when nothing answers or the
\* answer is about the endpoint, 0 for 200.  The key is one of this session's
\* database, so a worker on another database rejects it.
KeyState(i, key) ==
    IF key = "absent" THEN {1}
    ELSE {IF p = NoPid THEN 2
          ELSE IF kind[p] = "worker" /\ key = "valid" /\ DbOf(p) = Db[Sess(i)]
               THEN 0 ELSE 1 : p \in Probe(ApiPort[slot[i]])}

Init ==
    /\ state = [p \in Pids |-> "free"]
    /\ kind = [p \in Pids |-> "worker"]
    /\ spawner = [p \in Pids |-> NoSlot]
    /\ signalled = [p \in Pids |-> "none"]
    /\ pidfile = [s \in Slots |-> NoPid]
    /\ fixpid = [s \in Sessions |-> NoPid]
    /\ keyfile = [s \in Sessions |-> "absent"]
    /\ keyfileB = [s \in Sessions |-> "absent"]
    /\ egress = {}
    /\ verb = [i \in Invocations |-> "ensure"]
    /\ slot = [i \in Invocations |-> NoSlot]
    /\ pc = [i \in Invocations |-> "new"]
    /\ route = [i \in Invocations |-> "none"]
    /\ then = [i \in Invocations |-> "none"]
    /\ target = [i \in Invocations |-> NoPid]
    /\ rc = [i \in Invocations |-> 0]
    /\ lost = {}
    /\ faults = 0 /\ interrupts = 0

Active(i) == pc[i] \notin {"new", "exited"}
Exit(i, code) == /\ pc' = [pc EXCEPT ![i] = "exited"]
                 /\ rc' = [rc EXCEPT ![i] = code]
\* "done" falls off the end of the script.
Goto(i, to) == IF to = "done" THEN Exit(i, 0)
                              ELSE pc' = [pc EXCEPT ![i] = to] /\ UNCHANGED rc

\* healthy, fixture_healthy: the possible answers.
Healthy(i) == {p # NoPid : p \in Probe(ApiPort[slot[i]])}
FixtureHealthy(i) == {p # NoPid : p \in Probe(FixturePort[Sess(i)])}

\* A child in the background; $! is kept in target until it is written down.
Spawn(p, what, i) ==
    /\ p = CHOOSE q \in Pids : state[q] = "free"
    /\ state[p] = "free"
    /\ target' = [target EXCEPT ![i] = p]
    /\ state' = [state EXCEPT ![p] = "starting"]
    /\ kind' = [kind EXCEPT ![p] = what]
    /\ spawner' = [spawner EXCEPT ![p] = slot[i]]
    /\ UNCHANGED signalled
-----------------------------------------------------------------------------
(* The case statement at the bottom of the script.                         *)
FirstLabel(v) == CASE v = "ensure" -> "ensure"
                   [] v = "crash" -> "crash"
                   [] OTHER -> "sw_running"

\* Mutant: stop-worker is stop, the teardown that took the suite's fixture away.
AfterwardsAlwaysFixture(v) == IF v \in {"stop", "stop-worker"} THEN "sf_owned" ELSE "done"

\* Where stop_worker returns to.
Afterwards(v) == IF v = "stop" THEN "sf_owned" ELSE "done"

Launch(i) ==
    /\ pc[i] = "new"
    /\ \A j \in Invocations : j < i => pc[j] # "new"
    /\ \E s \in Slots, v \in Verbs :
          /\ OnePerSession =>
                \A j \in Invocations : Active(j) => Sess(j) # SessionOf[s]
          /\ slot' = [slot EXCEPT ![i] = s]
          /\ verb' = [verb EXCEPT ![i] = v]
          /\ Goto(i, FirstLabel(v))
          /\ then' = [then EXCEPT ![i] = Afterwards(v)]
    /\ UNCHANGED <<procVars, fileVars, route, target, lost, budgetVars>>

\* ensure: is anything serving the URL?
EnsureProbe(i) ==
    /\ pc[i] = "ensure"
    /\ \E up \in Healthy(i) : Goto(i, IF up THEN "ensure_owned" ELSE "ensure_running")
    /\ route' = [route EXCEPT ![i] = "verify"]
    /\ UNCHANGED <<procVars, fileVars, verb, slot, then, target, lost, budgetVars>>

\* Something is: refuse it unless the pidfile and argv say it is ours.
EnsureOwned(i) ==
    /\ pc[i] = "ensure_owned"
    /\ IF Owned(i) THEN Goto(i, "fx_probe") ELSE Exit(i, 3)
    /\ UNCHANGED <<procVars, fileVars, localVars, lost, budgetVars>>

\* Mutant: a process that is up but not serving is started over, not stopped.
EnsureRunningStartsOver(i) ==
    /\ pc[i] = "ensure_running"
    /\ pidfile' = [pidfile EXCEPT ![slot[i]] = NoPid]
    /\ Goto(i, "role")
    /\ UNCHANGED <<procVars, fixpid, keyVars, localVars, lost, budgetVars>>

\* Nothing is: restart a process that does not serve, or start afresh.
EnsureRunning(i) ==
    /\ pc[i] = "ensure_running"
    /\ \/ /\ Running(i)
          /\ Goto(i, "sw_running")
          /\ then' = [then EXCEPT ![i] = "role"]
          /\ UNCHANGED pidfile
       \/ /\ ~Running(i)
          /\ pidfile' = [pidfile EXCEPT ![slot[i]] = NoPid]
          /\ Goto(i, "role")
          /\ UNCHANGED then
    /\ UNCHANGED <<procVars, fixpid, keyVars, verb, slot, route, target, lost, budgetVars>>
-----------------------------------------------------------------------------
(* start_fixture.                                                          *)
FixtureFirstProbe(i) ==
    /\ pc[i] = "fx_probe"
    /\ \E up \in FixtureHealthy(i) : Goto(i, IF up THEN "fx_owned" ELSE "fx_spawn")
    /\ UNCHANGED <<procVars, fileVars, localVars, lost, budgetVars>>

AfterFixture(i) == IF route[i] = "start" THEN "migrate" ELSE "mint"

FixtureCheckOwned(i) ==
    /\ pc[i] = "fx_owned"
    /\ IF FixtureOwned(i) THEN Goto(i, AfterFixture(i)) ELSE Exit(i, 3)
    /\ UNCHANGED <<procVars, fileVars, localVars, lost, budgetVars>>

\* Not healthy, so whatever the pidfile names is taken for stale.
FixtureSpawn(i) ==
    /\ pc[i] = "fx_spawn"
    /\ \E p \in Pids : Spawn(p, "fixture", i)
    /\ fixpid' = [fixpid EXCEPT ![Sess(i)] = NoPid]
    /\ Goto(i, "fx_write")
    /\ UNCHANGED <<pidfile, keyVars, verb, slot, route, then, lost, budgetVars>>

FixtureRecord(i) ==
    /\ pc[i] = "fx_write"
    /\ fixpid' = [fixpid EXCEPT ![Sess(i)] = target[i]]
    /\ Goto(i, "fx_poll")
    /\ UNCHANGED <<procVars, pidfile, keyVars, localVars, lost, budgetVars>>

\* fixture_healthy && return 0, forty times; then give up.
FixturePoll(i) ==
    /\ pc[i] = "fx_poll"
    /\ \/ TRUE \in FixtureHealthy(i) /\ Goto(i, AfterFixture(i))
       \/ FALSE \in FixtureHealthy(i) /\ Exit(i, 1)
    /\ UNCHANGED <<procVars, fileVars, localVars, lost, budgetVars>>
-----------------------------------------------------------------------------
(* start.                                                                  *)
\* ensure_app_role: nothing to do on the other dialects, may fail on postgres.
AppRole(i) ==
    /\ pc[i] = "role"
    /\ Goto(i, "fx_probe") \/ (Postgres /\ Exit(i, 1))
    /\ route' = [route EXCEPT ![i] = "start"]
    /\ UNCHANGED <<procVars, fileVars, verb, slot, then, target, lost, budgetVars>>

MigrateFails(i) ==
    /\ pc[i] = "migrate"
    /\ Exit(i, 1)
    /\ UNCHANGED <<procVars, fileVars, localVars, lost, budgetVars>>

SpawnWorker(i) ==
    /\ pc[i] = "migrate"
    /\ \E p \in Pids : Spawn(p, "worker", i)
    /\ Goto(i, "write")
    /\ UNCHANGED <<fileVars, verb, slot, route, then, lost, budgetVars>>

RecordWorker(i) ==
    /\ pc[i] = "write"
    /\ pidfile' = [pidfile EXCEPT ![slot[i]] = target[i]]
    /\ Goto(i, "loop")
    /\ UNCHANGED <<procVars, fixpid, keyVars, localVars, lost, budgetVars>>

\* The readiness loop: ready as soon as the URL answers, whoever answers it.
LoopProbe(i) ==
    /\ pc[i] = "loop"
    /\ \E up \in Healthy(i) : Goto(i, IF up THEN "mint" ELSE "loop_running")
    /\ UNCHANGED <<procVars, fileVars, localVars, lost, budgetVars>>

LoopRunning(i) ==
    /\ pc[i] = "loop_running"
    /\ \/ Running(i) /\ Goto(i, "loop") /\ UNCHANGED pidfile
       \/ /\ ~Running(i) /\ Exit(i, 1)
          /\ pidfile' = [pidfile EXCEPT ![slot[i]] = NoPid]
    /\ UNCHANGED <<procVars, fixpid, keyVars, localVars, lost, budgetVars>>

\* Mutant: the readiness loop has no ceiling.
LoopNeverGivesUp(i) == FALSE /\ pc[i] = "loop_running" /\ UNCHANGED vars

\* 90s without output, or 300s in all: stop_worker and exit 1.
LoopGiveUp(i) ==
    /\ pc[i] = "loop_running"
    /\ Running(i)
    /\ Goto(i, "sw_running")
    /\ then' = [then EXCEPT ![i] = "fail"]
    /\ UNCHANGED <<procVars, fileVars, verb, slot, route, target, lost, budgetVars>>
-----------------------------------------------------------------------------
(* mint_key, ensure_second_tenant, allow_fixture_egress.                   *)
\* Mutant: a key file that is not empty is taken for a key.
MintProbeTrustsFile(i) ==
    /\ pc[i] = "mint"
    /\ Goto(i, IF keyfile[Sess(i)] # "absent" THEN "tenantb" ELSE "mint_do")
    /\ UNCHANGED <<procVars, fileVars, localVars, lost, budgetVars>>

MintProbe(i) ==
    /\ pc[i] = "mint"
    /\ \E a \in KeyState(i, keyfile[Sess(i)]) :
          Goto(i, IF a \in {0, 2} THEN "tenantb" ELSE "mint_do")
    /\ UNCHANGED <<procVars, fileVars, localVars, lost, budgetVars>>

\* -generate-api-key against this session's own database.
Mint(i) ==
    /\ pc[i] = "mint_do"
    /\ \/ /\ keyfile' = [keyfile EXCEPT ![Sess(i)] = "valid"]
          /\ Goto(i, "mint_check")
       \/ /\ keyfile' = [keyfile EXCEPT ![Sess(i)] = "absent"]
          /\ Exit(i, 1)
    /\ UNCHANGED <<procVars, pidfile, fixpid, keyfileB, egress, localVars, lost, budgetVars>>

\* Only a key known NOT to authenticate is refused.
MintCheck(i) ==
    /\ pc[i] = "mint_check"
    /\ \E a \in KeyState(i, keyfile[Sess(i)]) :
          \/ a = 1 /\ Exit(i, 1)
             /\ keyfile' = [keyfile EXCEPT ![Sess(i)] = "absent"]
          \/ a # 1 /\ Goto(i, "tenantb") /\ UNCHANGED keyfile
    /\ UNCHANGED <<procVars, pidfile, fixpid, keyfileB, egress, localVars, lost, budgetVars>>

AfterTenant(i) == IF route[i] = "start" THEN "egress" ELSE "done"

\* Postgres only: the same three-way question about the second key, then the
\* organisation, the tenant and its key, any of which can fail.
SecondTenant(i) ==
    /\ pc[i] = "tenantb"
    /\ \/ /\ ~Postgres \/ KeyState(i, keyfileB[Sess(i)]) \cap {0, 2} # {}
          /\ Goto(i, AfterTenant(i))
          /\ UNCHANGED keyfileB
       \/ /\ Postgres /\ 1 \in KeyState(i, keyfileB[Sess(i)])
          /\ \/ /\ keyfileB' = [keyfileB EXCEPT ![Sess(i)] = "valid"]
                /\ Goto(i, "tenantb_check")
             \/ Exit(i, 1) /\ UNCHANGED keyfileB
    /\ UNCHANGED <<procVars, pidfile, fixpid, keyfile, egress, localVars, lost, budgetVars>>

SecondTenantCheck(i) ==
    /\ pc[i] = "tenantb_check"
    /\ \E a \in KeyState(i, keyfileB[Sess(i)]) :
          \/ a = 1 /\ Exit(i, 1)
             /\ keyfileB' = [keyfileB EXCEPT ![Sess(i)] = "absent"]
          \/ a # 1 /\ Goto(i, AfterTenant(i)) /\ UNCHANGED keyfileB
    /\ UNCHANGED <<procVars, pidfile, fixpid, keyfile, egress, localVars, lost, budgetVars>>

AllowEgress(i) ==
    /\ pc[i] = "egress"
    /\ \/ egress' = egress \cup {Db[Sess(i)]} /\ Goto(i, "done")
       \/ Exit(i, 2) /\ UNCHANGED egress
    /\ UNCHANGED <<procVars, pidfile, fixpid, keyfile, keyfileB, localVars, lost, budgetVars>>

-----------------------------------------------------------------------------
(* stop_worker, also from the restart and give-up paths of ensure.         *)
StopRunning(i) ==
    /\ pc[i] = "sw_running"
    /\ Goto(i, IF Running(i) THEN "sw_owned" ELSE "sw_probe")
    /\ UNCHANGED <<procVars, fileVars, localVars, lost, budgetVars>>

StopOwned(i) ==
    /\ pc[i] = "sw_owned"
    /\ \/ /\ ~Owned(i) /\ Exit(i, 3) /\ UNCHANGED target
       \/ /\ Owned(i) /\ Goto(i, "sw_term")
          /\ target' = [target EXCEPT ![i] = pidfile[slot[i]]]
    /\ UNCHANGED <<procVars, fileVars, verb, slot, route, then, lost, budgetVars>>

\* Mutant: pkill by the program's name.
SignalByName(i, sig) ==
    /\ signalled' = [p \in Pids |-> IF Alive(p) /\ kind[p] = kind[target[i]]
                                   THEN sig ELSE signalled[p]]
    /\ UNCHANGED <<state, kind, spawner>>

\* kill [-9] $pid: no effect on a pid that is no longer there.
Signal(i, sig) ==
    /\ signalled' = [signalled EXCEPT ![target[i]] =
                        IF Kill0(target[i]) THEN sig ELSE @]
    /\ UNCHANGED <<state, kind, spawner>>

StopTerm(i) ==
    /\ pc[i] = "sw_term"
    /\ Signal(i, "term") /\ Goto(i, "sw_wait")
    /\ UNCHANGED <<fileVars, localVars, lost, budgetVars>>

\* Mutant: SIGKILL is sent and the stop reported without looking again.
StopWaitReportsAttempt(i) ==
    /\ pc[i] = "sw_wait"
    /\ \/ ~Kill0(target[i]) /\ UNCHANGED procVars
       \/ Kill0(target[i]) /\ Signal(i, "kill")
    /\ Goto(i, "sw_rm")
    /\ UNCHANGED <<fileVars, localVars, lost, budgetVars>>

\* Wait, escalate when the wait runs out, wait again.
StopWait(i) ==
    /\ pc[i] = "sw_wait"
    /\ \/ ~Kill0(target[i]) /\ Goto(i, "sw_rm") /\ UNCHANGED procVars
       \/ Kill0(target[i]) /\ Signal(i, "kill") /\ Goto(i, "sw_wait2")
    /\ UNCHANGED <<fileVars, localVars, lost, budgetVars>>

StopSecondWait(i) ==
    /\ pc[i] = "sw_wait2"
    /\ ~Kill0(target[i]) /\ Goto(i, "sw_rm")
    /\ UNCHANGED <<procVars, fileVars, localVars, lost, budgetVars>>

StopProbe(i) ==
    /\ pc[i] = "sw_probe"
    /\ \/ FALSE \in Healthy(i) /\ Goto(i, "sw_rm") /\ UNCHANGED pidfile
       \/ /\ TRUE \in Healthy(i) /\ Exit(i, 1)
          /\ pidfile' = [pidfile EXCEPT ![slot[i]] = NoPid]
    /\ UNCHANGED <<procVars, fixpid, keyVars, localVars, lost, budgetVars>>

StopRemovePidfile(i) ==
    /\ pc[i] = "sw_rm"
    /\ pidfile' = [pidfile EXCEPT ![slot[i]] = NoPid]
    /\ IF then[i] = "fail" THEN Exit(i, 1) ELSE Goto(i, then[i])
    /\ UNCHANGED <<procVars, fixpid, keyVars, localVars, lost, budgetVars>>
-----------------------------------------------------------------------------
(* stop_fixture.                                                           *)
StopFixtureOwned(i) ==
    /\ pc[i] = "sf_owned"
    /\ \/ ~FixtureOwned(i) /\ Goto(i, "sf_rm") /\ UNCHANGED target
       \/ /\ FixtureOwned(i) /\ Goto(i, "sf_term")
          /\ target' = [target EXCEPT ![i] = fixpid[Sess(i)]]
    /\ UNCHANGED <<procVars, fileVars, verb, slot, route, then, lost, budgetVars>>

StopFixtureTerm(i) ==
    /\ pc[i] = "sf_term"
    /\ Signal(i, "term") /\ Goto(i, "sf_wait")
    /\ UNCHANGED <<fileVars, localVars, lost, budgetVars>>

StopFixtureWait(i) ==
    /\ pc[i] = "sf_wait"
    /\ \/ ~Kill0(target[i]) /\ UNCHANGED procVars
       \/ Kill0(target[i]) /\ Signal(i, "kill")
    /\ Goto(i, "sf_rm")
    /\ UNCHANGED <<fileVars, localVars, lost, budgetVars>>

StopFixtureRemove(i) ==
    /\ pc[i] = "sf_rm"
    /\ fixpid' = [fixpid EXCEPT ![Sess(i)] = NoPid]
    /\ Goto(i, "sf_probe")
    /\ UNCHANGED <<procVars, pidfile, keyVars, localVars, lost, budgetVars>>

StopFixtureProbe(i) ==
    /\ pc[i] = "sf_probe"
    /\ \E up \in FixtureHealthy(i) : IF up THEN Exit(i, 1) ELSE Goto(i, "done")
    /\ UNCHANGED <<procVars, fileVars, localVars, lost, budgetVars>>
-----------------------------------------------------------------------------
(* crash_worker.                                                           *)
CrashRunning(i) ==
    /\ pc[i] = "crash"
    /\ Goto(i, IF Running(i) THEN "crash_owned" ELSE "crash_rm")
    /\ UNCHANGED <<procVars, fileVars, localVars, lost, budgetVars>>

CrashOwned(i) ==
    /\ pc[i] = "crash_owned"
    /\ \/ ~Owned(i) /\ Exit(i, 3) /\ UNCHANGED target
       \/ /\ Owned(i) /\ Goto(i, "crash_kill")
          /\ target' = [target EXCEPT ![i] = pidfile[slot[i]]]
    /\ UNCHANGED <<procVars, fileVars, verb, slot, route, then, lost, budgetVars>>

CrashKill(i) ==
    /\ pc[i] = "crash_kill"
    /\ Signal(i, "kill") /\ Goto(i, "crash_wait")
    /\ UNCHANGED <<fileVars, localVars, lost, budgetVars>>

CrashWait(i) ==
    /\ pc[i] = "crash_wait"
    /\ ~Kill0(target[i])
    /\ pidfile' = [pidfile EXCEPT ![slot[i]] = NoPid]
    /\ Exit(i, 0)
    /\ UNCHANGED <<procVars, fixpid, keyVars, localVars, lost, budgetVars>>

\* Mutant: a crash that killed nothing exits 0.
CrashNothingSucceeds(i) ==
    /\ pc[i] = "crash_rm"
    /\ pidfile' = [pidfile EXCEPT ![slot[i]] = NoPid]
    /\ Exit(i, 0)
    /\ UNCHANGED <<procVars, fixpid, keyVars, localVars, lost, budgetVars>>

\* Serving or not, there is nothing this script can show it killed.
CrashNothing(i) ==
    /\ pc[i] = "crash_rm"
    /\ pidfile' = [pidfile EXCEPT ![slot[i]] = NoPid]
    /\ Exit(i, 1)
    /\ UNCHANGED <<procVars, fixpid, keyVars, localVars, lost, budgetVars>>

\* A process that outlives SIGKILL by ten seconds: stop and crash give up.
Survived(i) ==
    /\ pc[i] \in {"sw_wait2", "crash_wait"}
    /\ Kill0(target[i])
    /\ pidfile' = IF pc[i] = "sw_wait2" THEN [pidfile EXCEPT ![slot[i]] = NoPid]
                                        ELSE pidfile
    /\ lost' = lost \cup {target[i]}
    /\ Exit(i, 1)
    /\ UNCHANGED <<procVars, fixpid, keyVars, localVars, budgetVars>>

\* Ctrl-C or a cancelled job: the script stops where it is, the processes it
\* put in the background do not.
Interrupt(i) ==
    /\ Active(i) /\ interrupts < MaxInterrupts
    /\ interrupts' = interrupts + 1
    /\ Exit(i, 130)
    /\ lost' = IF pc[i] \in {"write", "fx_write"} THEN lost \cup {target[i]} ELSE lost
    /\ UNCHANGED <<procVars, fileVars, localVars, faults>>
-----------------------------------------------------------------------------
(* The processes themselves, external to the script.                       *)
osVars == <<kind, spawner, signalled, fileVars, localVars, pc, rc, lost, interrupts>>

\* The listening socket is exclusive: the second process on a port exits.
Bind(p) ==
    /\ state[p] = "starting"
    /\ state' = [state EXCEPT ![p] =
                    IF Listeners(PortOf(p)) = {} THEN "serving" ELSE "dead"]
    /\ UNCHANGED <<osVars, faults>>

\* A worker asked to stop closes its listener before it is gone.
Drain(p) ==
    /\ state[p] = "serving" /\ kind[p] = "worker" /\ signalled[p] = "term"
    /\ state' = [state EXCEPT ![p] = "stopping"]
    /\ UNCHANGED <<osVars, faults>>

Dies(p) ==
    /\ Alive(p)
    /\ \/ signalled[p] # "none" /\ UNCHANGED faults
       \/ signalled[p] = "none" /\ faults < MaxFaults /\ faults' = faults + 1
    /\ state' = [state EXCEPT ![p] = "dead"]
    /\ UNCHANGED osVars

\* The pid of a dead process is given to a stranger, though not within the
\* seconds for which an invocation holds it.
Reuse(p) ==
    /\ state[p] = "dead" /\ faults < MaxFaults
    /\ \A i \in Invocations : Active(i) => target[i] # p
    /\ state' = [state EXCEPT ![p] = "reused"]
    /\ faults' = faults + 1
    /\ UNCHANGED osVars

\* A suite truncates the tenant rows: the key files of every session on that
\* database now hold keys it no longer knows.
Truncate(d) ==
    LET Revoke(file) == [s \in Sessions |-> IF Db[s] = d /\ file[s] = "valid"
                                            THEN "revoked" ELSE file[s]]
    IN /\ faults < MaxFaults
       /\ \E s \in Sessions : Db[s] = d /\ keyfile[s] = "valid"
       /\ keyfile' = Revoke(keyfile) /\ keyfileB' = Revoke(keyfileB)
       /\ faults' = faults + 1
       /\ UNCHANGED <<procVars, pidfile, fixpid, egress, localVars, pc, rc, lost,
                      interrupts>>
-----------------------------------------------------------------------------
Ensure(i) ==
    \/ EnsureProbe(i) \/ EnsureOwned(i) \/ EnsureRunning(i)
    \/ FixtureFirstProbe(i) \/ FixtureCheckOwned(i)
    \/ FixtureSpawn(i) \/ FixtureRecord(i) \/ FixturePoll(i)
    \/ AppRole(i) \/ MigrateFails(i) \/ SpawnWorker(i) \/ RecordWorker(i)
    \/ LoopProbe(i) \/ LoopRunning(i)
    \/ MintProbe(i) \/ Mint(i) \/ MintCheck(i)
    \/ SecondTenant(i) \/ SecondTenantCheck(i) \/ AllowEgress(i)

Stop(i) ==
    \/ StopRunning(i) \/ StopOwned(i) \/ StopTerm(i) \/ StopWait(i)
    \/ StopSecondWait(i) \/ StopProbe(i) \/ StopRemovePidfile(i)
    \/ StopFixtureOwned(i) \/ StopFixtureTerm(i) \/ StopFixtureWait(i)
    \/ StopFixtureRemove(i) \/ StopFixtureProbe(i)

Crash(i) == CrashRunning(i) \/ CrashOwned(i) \/ CrashKill(i) \/ CrashWait(i)
            \/ CrashNothing(i)

Step(i) == Ensure(i) \/ Stop(i) \/ Crash(i) \/ Survived(i)

Environment(p) == Bind(p) \/ Drain(p) \/ Dies(p) \/ Reuse(p)

\* Every invocation has run: the session is over.
Finished == (\A i \in Invocations : pc[i] = "exited") /\ UNCHANGED vars

Next ==
    \/ \E i \in Invocations : Launch(i) \/ Step(i) \/ LoopGiveUp(i) \/ Interrupt(i)
    \/ \E p \in Pids : Environment(p)
    \/ \E d \in Databases : Truncate(d)
    \/ Finished

Spec == Init /\ [][Next]_vars

\* The script's next step is taken sooner or later, and its readiness loop
\* counts to 600: it cannot keep finding a process up and not serving.  Nothing
\* is assumed of the processes it waits for.
FairSpec == Spec /\ \A i \in Invocations : WF_vars(Step(i)) /\ SF_vars(LoopGiveUp(i))
-----------------------------------------------------------------------------
(* Properties.                                                             *)
PidOrNone == Pids \cup {NoPid}

\* The variables have their types.
TypeOK ==
    /\ state \in [Pids -> {"free", "starting", "serving", "stopping", "dead", "reused"}]
    /\ kind \in [Pids -> {"worker", "fixture"}] /\ spawner \in [Pids -> Slots \cup {NoSlot}]
    /\ signalled \in [Pids -> {"none", "term", "kill"}]
    /\ pidfile \in [Slots -> PidOrNone] /\ fixpid \in [Sessions -> PidOrNone]
    /\ keyfile \in [Sessions -> KeyStates] /\ keyfileB \in [Sessions -> KeyStates]
    /\ egress \subseteq Databases /\ lost \subseteq Pids
    /\ verb \in [Invocations -> AllVerbs] /\ slot \in [Invocations -> Slots \cup {NoSlot}]
    /\ route \in [Invocations -> {"none", "verify", "start"}]
    /\ then \in [Invocations -> {"none", "done", "sf_owned", "role", "fail"}]
    /\ target \in [Invocations -> PidOrNone]
    /\ rc \in [Invocations -> {0, 1, 2, 3, 130}]
    /\ faults \in 0..MaxFaults /\ interrupts \in 0..MaxInterrupts

\* No verb ever signals a process that is not the invocation's own: a stranger
\* that was given a recycled pid, or the worker or fixture of another session
\* that chose the same port, is refused, whatever the pidfile says.
SignalsOnlyItsOwn ==
    [][\A p \in Pids : signalled'[p] # signalled[p] =>
          /\ Alive(p)
          /\ \E i \in Invocations :
                /\ Active(i) /\ target[i] = p
                /\ IF kind[p] = "worker" THEN spawner[p] = slot[i]
                                         ELSE SessionOf[spawner[p]] = Sess(i)]_vars

\* The fixture service is one per session and holds the counters the tests
\* assert on: only the stop verb ends it, so neither a crash nor the teardown
\* of a second worker (stop-worker) nor a restart inside ensure touches it.
OnlyStopEndsTheFixture ==
    [][\A p \in Pids : signalled'[p] # signalled[p] /\ kind[p] = "fixture" =>
          \E i \in Invocations : Active(i) /\ target[i] = p /\ verb[i] = "stop"]_vars

\* A worker that is alive while its session runs no verb is named by its slot's
\* pidfile, or an invocation failed loudly letting it go: no sequence of verbs
\* leaves a live worker that a later crash or stop has nothing to act on.
LiveWorkersAreTracked ==
    \A s \in Slots : (\A i \in Invocations : Active(i) => slot[i] # s) =>
        \A p \in Pids \ lost :
            Alive(p) /\ kind[p] = "worker" /\ spawner[p] = s => pidfile[s] = p

ExitsWith0(i) == Active(i) /\ pc'[i] = "exited" /\ rc'[i] = 0

\* stop and stop-worker exit 0 only when no worker the slot started is alive,
\* other than one that an invocation failed loudly letting go.
StopLeavesNoWorker ==
    [][\A i \in Invocations : ExitsWith0(i) /\ verb[i] \in {"stop", "stop-worker"} =>
          \A p \in Pids \ lost : kind[p] = "worker" /\ spawner[p] = slot[i] => ~Alive(p)]_vars

\* crash exits 0 only if it identified a worker of its own slot and that worker
\* is dead: a recovery test never measures the uncrashed control.
CrashKilledItsWorker ==
    \A i \in Invocations : pc[i] = "exited" /\ verb[i] = "crash" /\ rc[i] = 0 =>
        /\ target[i] # NoPid /\ ~Alive(target[i])
        /\ kind[target[i]] = "worker" /\ spawner[target[i]] = slot[i]

\* When ensure goes on with a key, any worker listening on its port accepts that
\* key: a revoked key is minted again, and a worker on another session's
\* database is refused before the suite can run against it.
ReadyKeyAuthenticates ==
    [][\A i \in Invocations : pc[i] \in {"mint", "mint_check"} /\ pc'[i] = "tenantb" =>
          \A p \in Listeners(ApiPort[slot[i]]) :
              keyfile[Sess(i)] = "valid" /\ DbOf(p) = Db[Sess(i)]]_vars

\* Every verb returns, whatever the processes it waits for do.
VerbsTerminate == \A i \in Invocations : Active(i) ~> pc[i] = "exited"

\* The header: "ensure healthy AND owned".
EnsureIsOwned ==
    [][\A i \in Invocations : ExitsWith0(i) /\ verb[i] = "ensure" => Owned(i)]_vars

\* The comment in start_fixture: "Healthy is false, so any pidfile is stale".
DroppedFixturePidfileIsStale ==
    [][\A i \in Invocations : pc[i] = "fx_spawn" /\ pc'[i] = "fx_write"
          => ~FixtureOwned(i)]_vars

\* The comment in allow_fixture_egress: it is called on both of the routes by
\* which ensure reaches readiness.
EnsureAllowsEgress ==
    [][\A i \in Invocations : ExitsWith0(i) /\ verb[i] = "ensure"
          => Db[Sess(i)] \in egress']_vars
=============================================================================
