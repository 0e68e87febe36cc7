----------------------------- MODULE MCInterop ------------------------------
(* The pairs with a program of another group in them.                       *)
EXTENDS Interop

AllDuos == Couples \ {<<0, 0>>}
Duo42 == {<<42, 0>>}
Duo20 == {<<20, 0>>}
=============================================================================
