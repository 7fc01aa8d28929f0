-------------------------- MODULE MC_ImagePipeline --------------------------
(* All configurations, and a build directory with or without leftovers.     *)
EXTENDS ImagePipeline
=============================================================================
