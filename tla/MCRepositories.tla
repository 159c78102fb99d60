--------------------------- MODULE MCRepositories ---------------------------
(* The repositories by themselves: two requests on the tables of a scan.    *)
EXTENDS Repositories

Spec == RepositoriesInit /\ [][RepositoriesNext]_storeVars
=============================================================================
