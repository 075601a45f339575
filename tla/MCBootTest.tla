----------------------------- MODULE MCBootTest -----------------------------
(* The two tasks of the concurrency test, and each test that test_TestTask *)
(* can be made to run, next to the first of them.                          *)
EXTENDS BootTest

CONSTANTS suite0, suite1

MCSuites == {[t \in Tasks |-> IF t = suite0 THEN test_virtio_blk0 ELSE f] :
               f \in {test_virtio_blk1, test_virtio_blk_performance, test_Timer}}
=============================================================================
