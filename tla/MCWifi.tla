-------------------------------- MODULE MCWifi --------------------------------
(***************************************************************************)
(* Instances of the Wi-Fi manager for TLC.                                 *)
(***************************************************************************)
EXTENDS WifiProperties

CONSTANTS home, work
=============================================================================
