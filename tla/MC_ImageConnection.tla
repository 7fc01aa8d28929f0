------------------------- MODULE MC_ImageConnection -------------------------
(* Two partitions are looked into at the same target directory.             *)
EXTENDS ImageConnection
=============================================================================
