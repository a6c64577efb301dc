------------------------------ MODULE MCIdentity ------------------------------
(* One account with two addresses of its own and one that another account     *)
(* holds, and a browser with two tabs, which may change places.                *)
EXTENDS Identity, TLC

Tabs == Permutations(Tab)
=============================================================================
