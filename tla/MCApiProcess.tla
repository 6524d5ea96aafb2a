---------------------------- MODULE MCApiProcess ----------------------------
(* Two requests: one for each server, or two of one server where one ends and *)
(* the other does not.                                                        *)
EXTENDS ApiProcess, TLC

CONSTANTS h1, h2

Symmetry == Permutations({h1, h2})
=============================================================================
