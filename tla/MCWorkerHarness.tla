-------------------------- MODULE MCWorkerHarness --------------------------
(* Layouts of sessions, slots and ports for the runs of WorkerHarness.      *)
EXTENDS WorkerHarness, TLC

\* Two sessions that chose the same ports by hand, each on a database of its own.
TwoSessions == [s \in Slots |-> s]
SharedPort == [s \in Slots |-> "8099"]
SharedFixturePort == [s \in Sessions |-> "8098"]
OwnDb == [s \in Sessions |-> s]

\* The two sessions are interchangeable, and each is its own slot and database.
Symmetry == Permutations(Slots)

\* The same two sessions on the default DSN.
DefaultDb == [s \in Sessions |-> CHOOSE d \in Databases : TRUE]

\* One session with a worker and a second worker.
OneSession == [s \in {"A", "A2"} |-> "A"]
OwnPorts == [s \in {"A", "A2"} |-> IF s = "A" THEN "8099" ELSE "8100"]
OneFixture == [s \in {"A"} |-> "8098"]
OneDb == [s \in {"A"} |-> "A"]

\* One session with one worker.
OneSlot == [s \in {"A"} |-> "A"]
OnePort == [s \in {"A"} |-> "8099"]
=============================================================================
