---------------------------- MODULE MCEndpointPolicy ----------------------------
(***************************************************************************)
(* Small instances of EndpointPolicy.                                      *)
(***************************************************************************)
EXTENDS EndpointPolicy, TLC

Symmetry == Permutations(Worker)
===============================================================================
