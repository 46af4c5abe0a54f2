------------------------------ MODULE MCBuildCache ------------------------------
(* Model checking of BuildCache. *)
EXTENDS BuildCache
================================================================================
