------------------------------ MODULE MCFat12 ------------------------------
(***************************************************************************)
(* Instances of Fat12 and Fat12Store for TLC.                               *)
(***************************************************************************)
EXTENDS Fat12Store

\* A volume that a restart in the middle of a call left inconsistent is not
\* followed further: the code gives no promise about one.
Consistent == NoCrossLink /\ AllocatedIffHeld /\ DirectoriesSound
=============================================================================
