-------------------------------- MODULE MCSqs --------------------------------
(* Small instances of SqsDelivery: tasks, Lambda instances and messages are  *)
(* model values, interchangeable where no liveness is checked.               *)
EXTENDS SqsDelivery, TLC

SqsSymmetry == Permutations(Tasks) \cup Permutations(Workers) \cup Permutations(Messages)

=============================================================================
