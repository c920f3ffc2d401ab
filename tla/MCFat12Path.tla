---------------------------- MODULE MCFat12Path ----------------------------
(***************************************************************************)
(* Instances of Fat12Path for TLC: a chain of three directories, of which  *)
(* the last one has another name than those before it, a second directory   *)
(* in the root, and files.                                                  *)
(***************************************************************************)
EXTENDS Fat12Path

CONSTANTS a, b

MCLookup ==
    [d \in Dirs |-> [n \in Names |->
        CASE d < 2 /\ n = a -> d + 1
          [] d = 2 /\ n = b -> 3
          [] d = 0 /\ n = b -> 4
          [] d > 2 /\ n = a -> NoEntry
          [] OTHER -> AFile]]
MCLevel == [d \in Dirs |-> IF d = 4 THEN 1 ELSE d]
MCPaths == UNION {[1..n -> Names \cup {BadName, ".", ".."}] : n \in 0..3}
=============================================================================
