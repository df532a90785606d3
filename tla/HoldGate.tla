------------------------------ MODULE HoldGate ------------------------------
(***************************************************************************)
(* What the fixture's hold gate promises the tests that use it, without    *)
(* epochs, locks or condition variables (scripts/fixture-service.py).      *)
(*                                                                         *)
(* A /call/ request that asks to be held is first `coming', then `held'    *)
(* (this is what GET /inflight reports), then `left'.  POST /release of a  *)
(* key tells EVERY call held under that key to leave; it may or may not    *)
(* reach a call that is still coming.  Each release has one such moment    *)
(* and nothing else ever tells a call to leave, so a release that is over  *)
(* before a call comes does not end it.                                    *)
(* A call may also leave untold: the mandatory ceiling, delay_ms.          *)
(***************************************************************************)
CONSTANTS Calls, Releases, Keys

VARIABLES phase,   \* phase[c]: where call c is with respect to the gate
          under,   \* under[c]: the key c was made under
          told,    \* the calls a release has told to leave
          over     \* the releases that have had their moment

hvars == <<phase, under, told, over>>

HInit ==
    /\ phase = [c \in Calls |-> "out"]
    /\ under \in [Calls -> Keys]
    /\ told = {} /\ over = {}

Come(c) ==
    /\ phase[c] = "out"
    /\ phase' = [phase EXCEPT ![c] = "coming"]
    /\ \E k \in Keys : under' = [under EXCEPT ![c] = k]
    /\ UNCHANGED <<told, over>>

Enter(c) ==
    /\ phase[c] = "coming"
    /\ phase' = [phase EXCEPT ![c] = "held"]
    /\ UNCHANGED <<under, told, over>>

Leave(c) ==
    /\ phase[c] \in {"coming", "held"}
    /\ phase' = [phase EXCEPT ![c] = "left"]
    /\ told' = told \ {c}
    /\ UNCHANGED <<under, over>>

At(k, p) == {c \in Calls : phase[c] = p /\ under[c] = k}

Release(r, k) ==
    /\ r \notin over /\ over' = over \cup {r}
    /\ \E reached \in SUBSET At(k, "coming") :
          told' = told \cup At(k, "held") \cup reached
    /\ UNCHANGED <<phase, under>>

HNext ==
    \/ \E c \in Calls : Come(c) \/ Enter(c) \/ Leave(c)
    \/ \E r \in Releases, k \in Keys : Release(r, k)

HSpec == HInit /\ [][HNext]_hvars
=============================================================================
