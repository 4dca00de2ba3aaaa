------------------------------ MODULE MCQuerier ------------------------------
(* The querier on small instances: the constants are given in the cfg files. *)
EXTENDS Querier, TLC

CONSTANT MaxStamp   \* bound: stamps in use at the same time

StampRange == 1 .. MaxStamp

(* Sources are interchangeable: no definition orders or chooses one.       *)
Symmetry == Permutations(Sources)
=============================================================================
