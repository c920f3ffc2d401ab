------------------------------ MODULE Machine ------------------------------
(***************************************************************************)
(* The one processor of the machine: every program that runs on it, from    *)
(* the loader to the shell, is at one place at a time.                      *)
(***************************************************************************)
VARIABLE pc
=============================================================================
