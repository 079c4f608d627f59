-------------------------- MODULE MCBlockListener --------------------------
(* BlockListener over a few blocks; the values are in the .cfg files.      *)
EXTENDS BlockListener
=============================================================================
