----------------------------- MODULE TrafficMC ------------------------------
(* A small instance of Traffic for TLC. *)
EXTENDS Traffic

CONSTANTS r1, r2, r3

\* Three requests for one slot, two of them of one client.
Few == {r1, r2, r3}
FewKeyOf == [r \in Few |-> IF r = r3 THEN "k2" ELSE "k1"]
=============================================================================
