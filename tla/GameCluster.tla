----------------------------- MODULE GameCluster -----------------------------
(* What the modules of the game side share: the processes and the players. *)
CONSTANTS
    Games,      \* game processes (instance ids)
    Players     \* player ids
=============================================================================
