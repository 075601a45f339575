-------------------------- MODULE MCVirtioBlkUnit --------------------------
(* Three requests, so that one is served while one is queued and one is    *)
(* begun or aborted.                                                       *)
EXTENDS VirtioBlkUnit, TLC

CONSTANTS r1, r2, r3

MCSymmetry == Permutations({r1, r2, r3})
=============================================================================
