------------------------------ MODULE MCRollup ------------------------------
(* Instances of Rollup for TLC.                                             *)
EXTENDS Rollup, TLC

CONSTANT n1
=============================================================================
