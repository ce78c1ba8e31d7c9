------------------------------ MODULE Lifecycle ------------------------------
(***************************************************************************)
(* The status lifecycle of plans, phases and tasks (roles/lifecycle.py):   *)
(* which role may drive which status change.  Every write of a status goes *)
(* through validate_transition, which raises on any other change.          *)
(***************************************************************************)

Statuses == {"New", "Approved", "Active", "InProgress", "Resolved", "Closed", "Abandoned"}

\* TERMINAL: no way out of these.
Terminal == {"Closed", "Abandoned"}

\* _TRANSITIONS: entity, from, to, the role that may.
Transitions ==
  { <<"plan",  "New",        "Approved",   "company_expert">>,
    <<"plan",  "Approved",   "InProgress", "boss">>,
    <<"plan",  "InProgress", "Resolved",   "company_expert">>,
    <<"plan",  "Resolved",   "Closed",     "librarian">>,
    <<"phase", "New",        "Approved",   "company_expert">>,
    <<"phase", "Approved",   "Active",     "boss">>,
    <<"phase", "Active",     "InProgress", "senior_worker">>,
    <<"phase", "InProgress", "Resolved",   "plan_expert">>,
    <<"phase", "Resolved",   "Closed",     "company_expert">>,
    <<"phase", "Resolved",   "Active",     "company_expert">>,
    <<"task",  "New",        "Approved",   "company_expert">>,
    <<"task",  "Approved",   "InProgress", "senior_worker">>,
    <<"task",  "InProgress", "Resolved",   "senior_worker">>,
    <<"task",  "Resolved",   "Closed",     "company_expert">>,
    <<"task",  "Resolved",   "InProgress", "boss">> }

\* _ABANDON_ACTORS: who may abandon whatever is not over yet.
AbandonActors == {"user", "company_expert"}

\* can_transition.
CanTransition(entity, frm, to, actor) ==
  IF to = "Abandoned" THEN frm \notin Terminal /\ actor \in AbandonActors
  ELSE <<entity, frm, to, actor>> \in Transitions
=============================================================================
