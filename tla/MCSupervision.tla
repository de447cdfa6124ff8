--------------------------- MODULE MCSupervision ---------------------------
(* Instances of Supervision for TLC.                                        *)
EXTENDS Supervision, TLC
=============================================================================
