------------------------------- MODULE MCRunsv -------------------------------
(* Instances of Runsv.                                                      *)
EXTENDS Runsv

=============================================================================
