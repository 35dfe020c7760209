--------------------------------- MODULE MCOta --------------------------------
(***************************************************************************)
(* The OTA client for TLC: the versions a server offers are alike.         *)
(***************************************************************************)
EXTENDS Ota, TLC

Symmetry == Permutations(Offers)
=============================================================================
