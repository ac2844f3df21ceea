--------------------------- MODULE MCNetworkSetup ---------------------------
(***************************************************************************)
(* Instances of NetworkSetup for TLC: the values of its sequences.         *)
(***************************************************************************)
EXTENDS NetworkSetup

TwoDns == <<"dns1", "dns2">>
OneLan == <<"lan1">>
=============================================================================
