------------------------------ MODULE MCAtaPio ------------------------------
(* Instances of AtaPio for TLC. *)
EXTENDS AtaPio
=============================================================================
