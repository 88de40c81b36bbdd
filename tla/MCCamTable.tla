------------------------------ MODULE MCCamTable ------------------------------
(* The table for TLC.                                                      *)
EXTENDS CamTable, TLC

(* Keys and values are only compared and stored.                           *)
Interchangeable == Permutations(Keys) \cup Permutations(Values)
=============================================================================
