----------------------------- MODULE MCMakeImage -----------------------------
(* Instances of MakeImage.                                                  *)
EXTENDS MakeImage
=============================================================================
