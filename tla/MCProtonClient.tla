--------------------------- MODULE MCProtonClient ---------------------------
(* ProtonClient for TLC: what the cfg files choose from.                     *)
EXTENDS ProtonClientInv

OneHost  == <<1>>
TwoHosts == <<1, 2>>
=============================================================================
