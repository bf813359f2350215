------------------------------- MODULE MCJobs -------------------------------
(* The buffer pipeline beside one compiler. *)
EXTENDS Jobs

FewJobs == [p \in Pipes |-> IF p = Nrt THEN 3 ELSE 1]

=============================================================================
