--------------------------- MODULE MCBleLifecycle ---------------------------
(* TLC instances of BleLifecycle: the bounds are given in the .cfg files.   *)
EXTENDS BleLifecycle
=============================================================================
