------------------------------ MODULE MCTripit ------------------------------
(* Tripit has no model values; its constants are numbers.                  *)
EXTENDS Tripit, TLC
=============================================================================
