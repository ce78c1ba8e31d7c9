------------------------------ MODULE MCIntake ------------------------------
(* Small instances of Intake: a bot that is started again, or one that is  *)
(* not and a session beside it.                                            *)
EXTENDS Intake

CONSTANTS bot, sh

MCInit == /\ IntakeInit
          /\ starts \in {1, MaxStarts}
          /\ starts = MaxStarts <=> \E s \in Shells : doing[s] = "start"

MCSpec == MCInit /\ [][IntakeNext]_intakeVars /\ WF_intakeVars(Serve)
=============================================================================
