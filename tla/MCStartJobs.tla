------------------------------ MODULE MCStartJobs ------------------------------
(* Model checking of StartJobs: invocations that share the batch system, or
   interactive ones, which run their scripts themselves. *)
EXTENDS StartJobs, TLC

CONSTANTS s1, s2, s3, s4, s5

MCMode == s1 :> "throttled" @@ s2 :> "throttled" @@ s3 :> "batch"
          @@ s4 :> "interactive" @@ s5 :> "concurrent"
MCN == s1 :> 4 @@ s2 :> 2 @@ s3 :> 1 @@ s4 :> 3 @@ s5 :> 3

\* The invocations of one kind are made together: those of the other kind have
\* nothing to do with them.
MCTogether == {{s1, s2, s3}, {s4, s5}}

\* The query's pattern matches all names but that of one script of s1.
MostNamed == Jobs \ {<<s1, 2>>}

\* Scripts as gen-jobs writes them: no scheduler is told a job name, so a job is
\* called after its script's file, where the identifier the query looks for is not.
NoneNamed == {}
================================================================================
