---------------------------- MODULE MCBeaconLink ----------------------------
(***************************************************************************)
(* BeaconLink with numbers of two digits to the base 2 for two bytes.      *)
(***************************************************************************)
EXTENDS BeaconLink

MCSwap == [n \in 0 .. 3 |-> (n % 2) * 2 + n \div 2]
=============================================================================
