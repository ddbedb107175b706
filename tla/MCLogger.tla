------------------------------ MODULE MCLogger ------------------------------
(***************************************************************************)
(* Logger on a small instance: two long ground messages overfill the      *)
(* packet, the long disk-only message fills the disk buffer by itself and  *)
(* is longer than a packet.                                                *)
(***************************************************************************)
EXTENDS Logger
=============================================================================
