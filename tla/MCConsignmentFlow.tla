-------------------------- MODULE MCConsignmentFlow --------------------------
(* Two codes with a template, one without; two requests and two attempts.    *)
(* Of the three nodes an exclusive split may end the run after the first,    *)
(* and a second one may skip the third.                                      *)
EXTENDS ConsignmentFlow

CONSTANTS x, y, z, n1, n2, n3

MCSupported == {x, y}
MCNode == {n1, n2, n3}
MCRoute == {{n1}, {n1, n2}, MCNode}
=============================================================================
