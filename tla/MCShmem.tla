------------------------------ MODULE MCShmem ------------------------------
EXTENDS Shmem, TLC

\* Clients differ in nothing but their names.
Symmetry == Permutations(Client)
=============================================================================
