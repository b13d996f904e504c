----------------------------- MODULE MCWifiOta -----------------------------
(* Instances of WifiOta for TLC. *)
EXTENDS WifiOta

CONSTANTS a, b

TwoNodes == <<a, b>>
=============================================================================
