----------------------------- MODULE MCPairing -----------------------------
(* Pairing for TLC: one bot that is killed or replaced while time passes,  *)
(* or two bots beside the console that are not killed, at one moment.      *)
EXTENDS Pairing, TLC

CONSTANTS b1, b2, a1, a2, cli, own, other, none

MCInit == /\ Init
          /\ now \in {0, MaxTime}
          /\ pc[b1] = "idle"
          /\ now = 0 <=> pc[b2] = "off"
          /\ deaths = IF now = 0 THEN 0 ELSE MaxDeaths
          /\ inbound = 0

\* Neither the accounts nor, without a pin, the logins are told apart.
Symmetry == Permutations({a1, a2}) \cup Permutations({own, other})

MCSpec == MCInit /\ [][Next]_vars
=============================================================================
