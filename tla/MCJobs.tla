------------------------------- MODULE MCJobs -------------------------------
(* Two tasks of different kinds and two pool threads. *)
EXTENDS JobScheduler, TLC

CONSTANTS t1, t2

LongAndCron == t1 :> "long_running" @@ t2 :> "cron"
LongAndDelay == t1 :> "long_running" @@ t2 :> "delay"

\* Pool threads differ in nothing but their names.
PoolSymmetry == Permutations(Pool)
=============================================================================
