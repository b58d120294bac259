-------------------------- MODULE MCTenantDeletion --------------------------
(***************************************************************************)
(* A company with a plan of three categories (1 revokes the access, 2      *)
(* deletes the data, 3 closes the company), and attempts that interleave.  *)
(***************************************************************************)
EXTENDS TenantDeletion, TLC

ExecutorSymmetry == Permutations(Executors)
RequestSymmetry == Permutations(Requests)
Symmetry == ExecutorSymmetry \cup RequestSymmetry
=============================================================================
