--------------------------- MODULE MCBindingTable ---------------------------
(* TLC instances of BindingTable: the sizes are given in the .cfg files.    *)
EXTENDS BindingTable, TLC

\* No operation compares parts with anything but each other.
PartSymmetry == Permutations(Part)
=============================================================================
