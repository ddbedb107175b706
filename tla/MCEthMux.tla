------------------------------ MODULE MCEthMux ------------------------------
(***************************************************************************)
(* EthMux on small instances.                                              *)
(***************************************************************************)
EXTENDS EthMux, TLC

CONSTANTS ADIS_PORT, GPS_COTS, MPU_PORT, ARM_PORT, UNKNOWN_PORT

(* A fixed-size and a variable-size stream beside the two plain ports. *)
MCPorts == {ADIS_PORT, GPS_COTS}
MCDataLength == (ADIS_PORT :> 2) @@ (GPS_COTS :> 0)
MCNodeLength == (ADIS_PORT :> {2}) @@ (GPS_COTS :> {0, 3})

(* The MPU node, as seq_MPU is declared (ethmux.c:67). *)
MPUPorts == {MPU_PORT}
MPUDataLength == MPU_PORT :> UINT16_MAX
MPUNodeLength == MPU_PORT :> {2}
=============================================================================
