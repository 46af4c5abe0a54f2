------------------------------ MODULE MCResultsDB ------------------------------
(* Model checking of ResultsDB: a new database, and one from before the index  *)
(* with two rows of a job; the second run of a job shows fewer metrics.        *)
EXTENDS ResultsDB, TLC

MCMetricsOf == <<{"bw", "lat"}, {"bw"}>>
MCDatabases ==
  { [rows |-> {}, lastid |-> 0],
    [rows |-> {[id |-> 1, job |-> 1, run |-> 1], [id |-> 2, job |-> 1, run |-> 1]}, lastid |-> 2] }

Sym == Permutations(Procs)
================================================================================
