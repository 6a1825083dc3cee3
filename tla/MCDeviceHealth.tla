--------------------------- MODULE MCDeviceHealth ---------------------------
(* TLC instances of DeviceHealth: readings at the rounding and clamping edges. *)
EXTENDS DeviceHealth

EdgeReadings == {-3, 3186, 4300}
=============================================================================
