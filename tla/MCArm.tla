------------------------------- MODULE MCArm -------------------------------
(***************************************************************************)
(* Arm on a small instance.                                                *)
(***************************************************************************)
EXTENDS Arm

(* Two's complement, least significant byte first: what a little-endian    *)
(* host reads as n.                                                        *)
LE(n) == LET u == n % 2^16 IN <<u % 256, u \div 256>>
BE(n) == LET u == n % 2^16 IN <<u \div 256, u % 256>>

Sample(x, y, z) == [acc_x |-> x, acc_y |-> y, acc_z |-> z]

(* A rocket standing on the pad as the IMU sends it, the same with the     *)
(* bytes the other way round, and both sides of each bound of the band.    *)
MCSamples == {
  Sample(BE(-300), BE(0), BE(0)), Sample(LE(-300), LE(0), LE(0)),
  Sample(LE(-330), LE(30), LE(-30)), Sample(LE(-271), LE(-30), LE(30)),
  Sample(LE(-331), LE(0), LE(0)), Sample(LE(-270), LE(0), LE(0)),
  Sample(LE(-300), LE(31), LE(0)), Sample(LE(-300), LE(0), LE(-31)) }
=============================================================================
