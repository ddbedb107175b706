--------------------------- MODULE MCStateEstimator ---------------------------
(***************************************************************************)
(* StateEstimator on small instances.                                      *)
(***************************************************************************)
EXTENDS StateEstimator

(* Rest, coasting, and a shock in either direction. *)
MCAccels == {-5, 0, 1, 5}

MCRollRates == {-1, 2}

(* Two samples at once, samples in turn, a lost sample. *)
MCGaps == {0, 1, 2}

(* Far from the wrap of the 48-bit timestamp, and just before it. *)
MCEarly == {1}
MCLate  == {14}
=============================================================================
