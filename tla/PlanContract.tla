---------------------------- MODULE PlanContract ----------------------------
(***************************************************************************)
(* What a job's plan promises, from the status table of the design: a      *)
(* draft is approved or abandoned as a whole, an approved plan is started  *)
(* once, its phases are signed off one at a time in their order, and the   *)
(* plan is resolved when the last of them is.  A new draft may take the    *)
(* place of a plan at any time.                                            *)
(***************************************************************************)
EXTENDS Naturals

VARIABLES status,   \* of the plan, "none" before the first draft
          total,    \* how many phases it has
          signed    \* the phases signed off

vars == <<status, total, signed>>

Init == status = "none" /\ total = 0 /\ signed = {}

Draft == /\ status' = "New"
         /\ total' \in Nat \ {0}
         /\ signed' = {}

Review == /\ status = "New"
          /\ status' \in {"Approved", "Abandoned"}
          /\ UNCHANGED <<total, signed>>

Start == /\ status = "Approved"
         /\ status' = "InProgress"
         /\ UNCHANGED <<total, signed>>

SignOff == /\ status = "InProgress"
           /\ \E h \in 1 .. total : signed = 1 .. (h - 1) /\ signed' = 1 .. h
           /\ UNCHANGED <<status, total>>

Resolve == /\ status = "InProgress"
           /\ signed = 1 .. total
           /\ status' = "Resolved"
           /\ UNCHANGED <<total, signed>>

Next == Draft \/ Review \/ Start \/ SignOff \/ Resolve

Spec == Init /\ [][Next]_vars
=============================================================================
