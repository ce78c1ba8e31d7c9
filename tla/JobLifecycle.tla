---------------------------- MODULE JobLifecycle ----------------------------
(***************************************************************************)
(* What the background job queue promises the rest of the service about    *)
(* one planned job, whoever runs it: a submitted job waits, is worked on   *)
(* by one runner at a time, may be given back at most MaxRetries times,    *)
(* and once it is settled nobody works on it again.                        *)
(***************************************************************************)
EXTENDS Naturals

CONSTANTS Jobs,        \* the jobs that may be submitted
          MaxRetries   \* policies.max_job_retries

VARIABLES stage,       \* stage[j]: where job j is in its life
          tries        \* tries[j]: how often a runner began it

vars == <<stage, tries>>

Stages == {"absent", "waiting", "working", "settled"}

TypeOK == /\ stage \in [Jobs -> Stages]
          /\ tries \in [Jobs -> 0 .. MaxRetries + 1]

Init == /\ stage = [j \in Jobs |-> "absent"]
        /\ tries = [j \in Jobs |-> 0]

Submit(j) == /\ stage[j] = "absent"
             /\ stage' = [stage EXCEPT ![j] = "waiting"]
             /\ UNCHANGED tries

Begin(j) == /\ stage[j] = "waiting"
            /\ tries[j] <= MaxRetries
            /\ stage' = [stage EXCEPT ![j] = "working"]
            /\ tries' = [tries EXCEPT ![j] = @ + 1]

GiveBack(j) == /\ stage[j] = "working"
               /\ tries[j] <= MaxRetries
               /\ stage' = [stage EXCEPT ![j] = "waiting"]
               /\ UNCHANGED tries

Settle(j) == /\ stage[j] = "working"
             /\ stage' = [stage EXCEPT ![j] = "settled"]
             /\ UNCHANGED tries

Next == \E j \in Jobs : Submit(j) \/ Begin(j) \/ GiveBack(j) \/ Settle(j)

Spec == Init /\ [][Next]_vars
=============================================================================
