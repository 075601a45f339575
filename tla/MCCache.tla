------------------------------ MODULE MCCache ------------------------------
(* Two tracks of two blocks: a request can start and end anywhere in them. *)
EXTENDS Cache

CONSTANTS d1, d2
=============================================================================
