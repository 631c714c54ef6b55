----------------------------- MODULE MCFirstBoot -----------------------------
(* Instances of FirstBoot.                                                  *)
EXTENDS FirstBoot
=============================================================================
