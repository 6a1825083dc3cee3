----------------------------- MODULE MCReadAll -----------------------------
(* TLC instances of ReadAll: the sizes are given in the .cfg file.          *)
EXTENDS ReadAll
=============================================================================
