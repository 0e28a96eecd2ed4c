----------------------------- MODULE MCWifiNet ------------------------------
(* Small instances of WifiNet.  TLC evaluates ConstantsOK.                  *)
EXTENDS WifiNet
=============================================================================
