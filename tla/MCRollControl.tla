--------------------------- MODULE MCRollControl ---------------------------
(***************************************************************************)
(* RollControl on small instances.                                         *)
(***************************************************************************)
EXTENDS RollControl

(* Opposite rates, one the integrator can outweigh and one it cannot. *)
MCRollRates == {-2, -1, 0, 2}

(* Far from the wrap of the 48-bit timestamp, and just before it. *)
MCEarly == {1}
MCLate  == {3}
=============================================================================
