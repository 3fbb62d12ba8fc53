------------------------- MODULE MCDescriptorVector -------------------------
(* An instance of DescriptorVector: addresses are as good as each other, and *)
(* so are the objects of a client and what descriptors hold.                 *)
EXTENDS DescriptorVector, TLC

Symmetry == Permutations(Addresses) \cup Permutations(Objects) \cup Permutations(Contents)
=============================================================================
