------------------------------ MODULE MCCache ------------------------------
(***************************************************************************)
(* A small cache for TLC: three ways, and three sets of which the split,   *)
(* which rounds down to a power of two, uses two.                          *)
(***************************************************************************)
EXTENDS AddressedCache

SomeAddresses == {0, 7, 8, 16, 24, 32, 36, 48, 60}
SomeTags      == 0..3
=============================================================================
