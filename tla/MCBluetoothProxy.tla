------------------------- MODULE MCBluetoothProxy -------------------------
(* Instances of BluetoothProxy for TLC; all bounds are in the constants.   *)
EXTENDS BluetoothProxy
=============================================================================
