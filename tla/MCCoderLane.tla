---------------------------- MODULE MCCoderLane ----------------------------
(***************************************************************************)
(* CoderLane for TLC.  Jobs are numbered, claim_next takes the oldest.     *)
(***************************************************************************)
EXTENDS CoderLane

CONSTANTS w1, w2, srv, shell, f1, f2
=============================================================================
