-------------------------------- MODULE MCWatch --------------------------------
(* Model checking of Watch: two jobs, one of them started twice. *)
EXTENDS Watch, TLC

CONSTANTS j1, j2

MCJobs == {j1, j2}
MCMaxRuns == j1 :> 1 @@ j2 :> 2
================================================================================
