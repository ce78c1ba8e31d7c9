------------------------------ MODULE MCUpkeep ------------------------------
(* The upkeep for TLC: a memory without a class, as memory.write stores it, *)
(* and a later one of any class, which may repeat it.                       *)
EXTENDS Upkeep

CONSTANTS r1, r2, service, once, a, b, null

MCInit == /\ UpkeepInit
          /\ mem[1] = Created("none", a, FALSE)
          /\ \A i \in Ids \ {1} : mem[i] = Absent

MCSpec == MCInit /\ [][UpkeepNext]_upkeepVars /\ Fairness
=============================================================================
