----------------------------- MODULE MCMinQueue -----------------------------
(* Seven slots, with two pairs of equal keys.                                *)
EXTENDS MinQueue

MCPointers == 1..7
MCCle == <<1, 2, 2, 3, 4, 5, 5>>
=============================================================================
