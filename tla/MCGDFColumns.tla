---------------------------- MODULE MCGDFColumns ----------------------------
(* GDFColumns on a few handles and addresses, all interchangeable.         *)
EXTENDS GDFColumns, TLC

Symmetry == Permutations(Handle) \cup Permutations(Address)
=============================================================================
