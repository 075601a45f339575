---------------------------- MODULE MCUnitCache ----------------------------
(* Two requests and three tracks of one block, of which the disk has one;  *)
(* it starts cleared.                                                      *)
EXTENDS UnitCache, TLC

CONSTANTS r1, r2, d1, d2

MCUses == r1 :> {"CMD_WRITE", "CMD_UPDATE"} @@ r2 :> {"CMD_READ", "CMD_WRITE", "CMD_CLEAR"}

MCInit == Init /\ disk = [b \in C!Block |-> Zero]

MCSpec == MCInit /\ [][Next]_vars
=============================================================================
