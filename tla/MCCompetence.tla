---------------------------- MODULE MCCompetence ----------------------------
(* Small instances of CompetenceJob.                                         *)
EXTENDS CompetenceJob, TLC

CONSTANTS f, r, t1, t2, t3, c1, c2

\* Job f is a fit; job r is a refit that names the scorer of f.
FitThenRefit == (f :> NoJob) @@ (r :> f)
OneFit == f :> NoJob

Perms == Permutations(Tasks) \cup Permutations(CleanupOps)
=============================================================================
