---------------------------- MODULE MCThrottledBatch ----------------------------
(* Model checking of ThrottledBatch. *)
EXTENDS ThrottledBatch
================================================================================
