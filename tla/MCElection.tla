---------------------------- MODULE MCElection ----------------------------
(* Instances of Election for TLC. *)
EXTENDS Election

CONSTANTS b1, b2, b3, none

===========================================================================
