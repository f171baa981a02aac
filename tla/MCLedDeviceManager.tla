------------------------- MODULE MCLedDeviceManager -------------------------
(* Small instances of LedDeviceManager for TLC                             *)
EXTENDS LedDeviceManager

CONSTANTS v1, v2

OneParam == {"setGamma"}
OneVoid  == {UpdateSettings}
=============================================================================
