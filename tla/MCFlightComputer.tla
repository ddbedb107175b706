--------------------------- MODULE MCFlightComputer ---------------------------
(***************************************************************************)
(* FlightComputer on a small instance.                                     *)
(***************************************************************************)
EXTENDS FlightComputer

(* Two's complement in the order of the network, and of an Intel host. *)
BE(n) == LET u == n % 2^16 IN <<u \div 256, u % 256>>
LE(n) == LET u == n % 2^16 IN <<u % 256, u \div 256>>

Sample(x, gyro_x) ==
  [acc |-> [acc_x |-> x, acc_y |-> BE(0), acc_z |-> BE(0)], gyro_x |-> gyro_x]

(* Shaken with roll, the thrust of a launch with roll, and the words arm.c *)
(* takes for a rocket that stands still.                                   *)
MCImu == {Sample(BE(600), 1), Sample(BE(1500), -1), Sample(LE(-300), 0)}

MCFixes == {0, 2}
MCStartTimes == {1}

(* Loopback addresses can always be connected to; the network may be down. *)
MCFailures == {<<"RS", "connect">>, <<"ETH", "socket">>, <<"RNH", "connect">>}
=============================================================================
