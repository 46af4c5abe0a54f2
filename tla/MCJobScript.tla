------------------------------ MODULE MCJobScript ------------------------------
(* Model checking of JobScript: one or two scratch directories. *)
EXTENDS JobScript
================================================================================
