----------------------------- MODULE MCJobQueue ------------------------------
(* Small instances of JobQueue: tasks and workers are model values, and      *)
(* interchangeable wherever no liveness is checked.                          *)
EXTENDS JobQueue, TLC

QueueSymmetry == Permutations(Tasks) \cup Permutations(Workers)

=============================================================================
