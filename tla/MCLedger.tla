-------------------------------- MODULE MCLedger --------------------------------
(* Three replacements: two continue the same old item, two claim the same   *)
(* new one.                                                                 *)
EXTENDS Ledger, TLC

Replacements == {<<"old1", "new1">>, <<"old1", "new2">>, <<"old2", "new2">>}
Symmetry == Permutations(Users)
=================================================================================
