--------------------------- MODULE MCFixtureGate ---------------------------
(* Small instances of FixtureGate, and the plausible bugs of               *)
(* fixture-service.py as mutants of its definitions.                       *)
EXTENDS FixtureGate, TLC

CONSTANTS c1, c2, c3, r1, r2, k1, k2, debit, credit

Body(k, o, n, p, h) ==
    [key |-> k, op |-> o, failTimes |-> n, permanent |-> p, hold |-> h]

\* Holds under two keys: the gate.
HoldRequests == {Body(k, debit, 0, FALSE, TRUE) : k \in {k1, k2}}

\* Every branch of do_POST under one key: the counters and the log.
AllRequests ==
    {Body(k1, debit, 1, FALSE, FALSE), Body(k1, credit, 1, FALSE, TRUE),
     Body(k1, credit, 0, TRUE, FALSE)}

Symmetry == Permutations({c1, c2, c3}) \cup Permutations({r1, r2})
=============================================================================
