---------------------------- MODULE MCVirtQueues ----------------------------
(* Two queues. Blocks start on a page, just behind one and just before one *)
(* and there is one place fewer than two queues need.                      *)
EXTENDS VirtQueues

MCAddresses == {4096, 36863, 65537, 98304, 98308}

MCNumQueues == {-1, 0, 1, 2, 257}
=============================================================================
