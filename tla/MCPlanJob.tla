------------------------------ MODULE MCPlanJob ------------------------------
(* Small instances of PlanJob.                                             *)
EXTENDS PlanJob

\* Two tasks in a phase, two phases in a row, and a phase without tasks, which
\* PhaseSpec allows.
AnyShapes == {<<2>>, <<1, 1>>, <<1, 0>>}

\* Drafts whose phases all have tasks.
WorkShapes == {<<1>>, <<1, 1>>}

BothKinds == {"task", "feature"}
JustTasks == {"task"}
=============================================================================
