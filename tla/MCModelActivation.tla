------------------------- MODULE MCModelActivation -------------------------
(***************************************************************************)
(* An instance of ModelActivation: four models, so that a champion is       *)
(* replaced, restored and left half replaced, and the next runs meet what   *)
(* the interrupted ones have left.                                          *)
(***************************************************************************)
EXTENDS ModelActivation
=============================================================================
