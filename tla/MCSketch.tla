------------------------------- MODULE MCSketch -------------------------------
(***************************************************************************)
(* Small instances of Sketch for TLC: two bins of at most four, values of  *)
(* both signs in three sizes of bin.                                        *)
(***************************************************************************)
EXTENDS Sketch

(* The unit is a twelfth. *)
MCMinKey == -2
MCObservation == {-12, -3, 0, 3, 24}

=============================================================================
