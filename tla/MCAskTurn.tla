----------------------------- MODULE MCAskTurn -----------------------------
(* The ask for TLC, in three scenes: one process asks while the login, the   *)
(* tokens and the processes come and go; one asks twice, its cache expires   *)
(* and the day changes; two ask at once, on a token that lasts.              *)
EXTENDS AskTurn

CONSTANTS p1, p2, login, a1, a2, none, q1, q2

Lasting == /\ file.state = "whole" /\ file.text.fresh /\ file.text.oauth = a1
           /\ logins = MaxLogins /\ lapses = MaxLapses

\* The accounts are alike, so the one logged in may be a1.
Stormy == /\ ~(file.state = "whole" /\ file.text.fresh) /\ file.text.oauth # a2
          /\ logins + lapses = 1 /\ kills = 0 /\ nights = MaxNights
          /\ turns = [p \in Procs |-> IF p = p1 THEN MaxTurns - 1 ELSE MaxTurns]

Twice == /\ Lasting /\ kills = 0 /\ nights = 0
         /\ turns = [p \in Procs |-> IF p = p1 THEN 0 ELSE MaxTurns]

Together == /\ Lasting /\ kills = MaxKills /\ nights = MaxNights
            /\ turns = [p \in Procs |-> MaxTurns - 1]

MCInit == Init /\ (Stormy \/ Twice \/ Together)

MCSpec == MCInit /\ [][Next]_vars /\ Fairness
=============================================================================
