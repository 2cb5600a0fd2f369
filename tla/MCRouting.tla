----------------------------- MODULE MCRouting ------------------------------
(* Addresses of two bits and three prefixes: all, the upper half (also     *)
(* written with a host bit) and one address in it.                         *)
EXTENDS Routing

MCDests == {<<1, 0>>, <<2, 1>>, <<3, 1>>, <<2, 2>>}

=============================================================================
