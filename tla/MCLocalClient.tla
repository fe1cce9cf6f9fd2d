--------------------------- MODULE MCLocalClient ---------------------------
(* LocalClient.tla for TLC.                                                *)
EXTENDS LocalClient, TLC

ClientSymmetry == Permutations(Conn)
NoFilters == {<<NoFilter, NoFilter>>}
=============================================================================
