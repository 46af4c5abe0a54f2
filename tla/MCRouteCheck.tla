----------------------------- MODULE MCRouteCheck -----------------------------
(* Model checking of RouteCheck: few ranks, two or three sizes, bursts of one  *)
(* and two messages, with and without an interval.                             *)
EXTENDS RouteCheck

Run(size, smin, emax, burst, interval) ==
  [mpi_size |-> size, smin |-> smin, emax |-> emax, burst_size |-> burst, interval |-> interval]

MCSetups ==
  { Run(3, 1, 2, 1, FALSE), Run(3, 3, 6, 2, FALSE), Run(2, 1, 4, 2, TRUE), Run(3, 1, 1, 1, TRUE),
    Run(4, 2, 4, 2, FALSE), Run(4, 2, 2, 1, TRUE) }
================================================================================
