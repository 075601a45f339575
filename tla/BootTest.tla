------------------------------ MODULE BootTest ------------------------------
(***************************************************************************)
(* The test tasks of src/src/boot.test/testcase.c as clients of a unit:    *)
(* each runs test functions of one shape (message port, request, device,   *)
(* DoIO in a loop, everything back), some of which call another. The unit  *)
(* is VirtioBlkUnit; timer.device answers some day. CreateMsgPort,         *)
(* CreateIORequest, OpenDevice and AllocVec may fail at any call.          *)
(***************************************************************************)
EXTENDS Integers, Sequences, FiniteSets

CONSTANTS Tasks,         \* the test tasks
          Suites,        \* which test each of them may run: functions from Tasks
          Turns,         \* bound: turns of the loops over the sectors
          OneInterrupt   \* as in VirtioBlkUnit

ASSUME TurnsAssumption == Turns \in Nat

ASSUME TasksAssumption == IsFiniteSet(Tasks) /\ OneInterrupt \in BOOLEAN

VARIABLES
  stack,        \* of each task: its calls, the innermost first
  live,         \* what it has allocated and not freed: pairs of a call's depth and a name
  lib_OpenCnt,  \* of each device, what the tests have open
  fault,        \* a write through NULL has stopped the machine
  io_Command, io_Flags, io_Error, io_Actual, client, served, MsgList,
  pc, curr_req, chains, isr, wakeup

\* A task has one IOStdReq for virtio_blk.device at a time.
U == INSTANCE VirtioBlkUnit WITH Requests <- Tasks, Commands <- {"CMD_READ"}, MaxChains <- 3

unit == <<io_Command, io_Flags, io_Error, io_Actual, client, served, MsgList,
          pc, curr_req, chains, isr, wakeup>>
test == <<stack, live, lib_OpenCnt, fault>>
vars == <<test, unit>>

-----------------------------------------------------------------------------
(* The test functions: the device each opens, whether it has a buffer, how *)
(* many times it calls DoIO between opening and closing (once per round),  *)
(* and what it calls after each DoIO.                                      *)

Nothing == [none |-> TRUE]

test_mhz_delay ==
  [device |-> "timer.device", buffer |-> FALSE, rounds |-> <<1>>, calls |-> Nothing]

\* TR_SETSYSTIME and a delay, then an alarm with a port and a request of its own.
test_Timer ==
  [device |-> "timer.device", buffer |-> FALSE, rounds |-> <<2, 1>>, calls |-> Nothing]

test_virtio_blk ==
  [device |-> "virtio_blk.device", buffer |-> TRUE, rounds |-> <<Turns>>, calls |-> Nothing]

test_virtio_blk0 ==
  [device |-> "virtio_blk.device", buffer |-> TRUE, rounds |-> <<Turns>>, calls |-> test_mhz_delay]

test_virtio_blk1 ==
  [device |-> "virtio_blk.device", buffer |-> TRUE, rounds |-> <<Turns>>, calls |-> test_mhz_delay]

test_virtio_blk_performance ==
  [device |-> "timer.device", buffer |-> FALSE, rounds |-> <<1>>, calls |-> test_virtio_blk]

Functions ==
  {test_mhz_delay, test_Timer, test_virtio_blk, test_virtio_blk0, test_virtio_blk_performance}

ASSUME SuitesAssumption == Suites \subseteq [Tasks -> Functions]

Devices == {"timer.device", "virtio_blk.device"}

\* A call as it starts: mp, io and buf are pointers, FALSE for NULL.
Call(f) == [fn |-> f, at |-> "port", mp |-> FALSE, io |-> FALSE, buf |-> FALSE, round |-> 1, i |-> 0]

\* test_Init creates the tasks. (test_TestTask jumps over the calls it
\* lists: which of them runs is decided by moving that goto.)
Init ==
  /\ \E s \in Suites : stack = [t \in Tasks |-> <<Call(s[t])>>]
  /\ live = [t \in Tasks |-> {}]
  /\ lib_OpenCnt = [d \in Devices |-> 0]
  /\ fault = FALSE
  /\ U!Init

-----------------------------------------------------------------------------
(* One step of a task. Tasks run where clients of the unit may.            *)

Depth(t) == Len(stack[t])

\* The innermost call is at the given place; afterwards it is f.
At(t, place) == stack[t] # << >> /\ Head(stack[t]).at = place /\ U!ClientRuns /\ ~fault

Becomes(t, f) == stack' = [stack EXCEPT ![t] = <<f>> \o Tail(@)]

Allocates(t, name) == live' = [live EXCEPT ![t] = @ \cup {<<Depth(t), name>>}]
Frees(t, names)    == live' = [live EXCEPT ![t] = @ \ {<<Depth(t), n>> : n \in names}]

CreateMsgPort(t) ==
  /\ At(t, "port")
  /\ LET f == Head(stack[t])
     IN  \/ Becomes(t, [f EXCEPT !.mp = TRUE, !.at = "request"]) /\ Allocates(t, "mp")
         \/ Becomes(t, [f EXCEPT !.at = "end"]) /\ UNCHANGED live
  /\ UNCHANGED <<lib_OpenCnt, fault, unit>>

CreateIORequest(t) ==
  /\ At(t, "request")
  /\ LET f == Head(stack[t])
     IN  \/ Becomes(t, [f EXCEPT !.io = TRUE, !.at = "open"]) /\ Allocates(t, "io")
         \/ Becomes(t, [f EXCEPT !.at = "end"]) /\ UNCHANGED live
  /\ UNCHANGED <<lib_OpenCnt, fault, unit>>

\* Mutant: a device that did not open is used all the same.
MutOpenDevice(t) ==
  /\ At(t, "open")
  /\ LET f == Head(stack[t])
     IN  /\ Becomes(t, [f EXCEPT !.at = IF f.fn.buffer THEN "buffer" ELSE "loop"])
         /\ \E n \in {0, 1} : lib_OpenCnt' = [lib_OpenCnt EXCEPT ![f.fn.device] = @ + n]
  /\ UNCHANGED <<live, fault, unit>>

\* virtio_blk_OpenDev counts the tasks that have it open; it fails without a unit.
OpenDevice(t) ==
  /\ At(t, "open")
  /\ LET f == Head(stack[t])
     IN  \/ /\ Becomes(t, [f EXCEPT !.at = IF f.fn.buffer THEN "buffer" ELSE "loop"])
            /\ lib_OpenCnt' = [lib_OpenCnt EXCEPT ![f.fn.device] = @ + 1]
         \/ Becomes(t, [f EXCEPT !.at = "end"]) /\ UNCHANGED lib_OpenCnt
  /\ UNCHANGED <<live, fault, unit>>

\* "ERROR: No Buffer", and on.
AllocBuffer(t) ==
  /\ At(t, "buffer")
  /\ LET f == Head(stack[t])
     IN  \/ Becomes(t, [f EXCEPT !.buf = TRUE, !.at = "loop"]) /\ Allocates(t, "buf")
         \/ Becomes(t, [f EXCEPT !.at = "loop"]) /\ UNCHANGED live
  /\ UNCHANGED <<lib_OpenCnt, fault, unit>>

InLoop(t) == At(t, "loop") /\ LET f == Head(stack[t]) IN f.i < f.fn.rounds[f.round]

\* The buffer is cleared and the request sent. Without a buffer both write
\* to low memory, or the machine stops.
SendRead(t) ==
  /\ InLoop(t) /\ Head(stack[t]).fn.device = "virtio_blk.device"
  /\ \/ /\ U!BeginIO(t, "DoIO", "CMD_READ")
        /\ Becomes(t, [Head(stack[t]) EXCEPT !.at = "DoIO"])
        /\ UNCHANGED <<live, lib_OpenCnt, fault>>
     \/ /\ ~Head(stack[t]).buf
        /\ fault' = TRUE
        /\ UNCHANGED <<stack, live, lib_OpenCnt, unit>>

SendTimer(t) ==
  /\ InLoop(t) /\ Head(stack[t]).fn.device = "timer.device"
  /\ Becomes(t, [Head(stack[t]) EXCEPT !.at = "DoIO"])
  /\ UNCHANGED <<live, lib_OpenCnt, fault, unit>>

\* Mutant: SendIO instead of DoIO.
MutDoIOReturns(t) ==
  /\ At(t, "DoIO")
  /\ Becomes(t, [Head(stack[t]) EXCEPT !.at = "after DoIO"])
  /\ UNCHANGED <<live, lib_OpenCnt, fault, unit>>

\* DoIO returns: the request ended at once, or its reply is there.
DoIOReturns(t) ==
  /\ At(t, "DoIO")
  /\ Becomes(t, [Head(stack[t]) EXCEPT !.at = "after DoIO"])
  /\ \/ Head(stack[t]).fn.device = "timer.device" /\ UNCHANGED unit
     \/ Head(stack[t]).fn.device = "virtio_blk.device" /\ client[t] = "idle" /\ UNCHANGED unit
     \/ Head(stack[t]).fn.device = "virtio_blk.device" /\ U!WaitIO(t)
  /\ UNCHANGED <<live, lib_OpenCnt, fault>>

\* Mutant: j is 0 in i += j.
MutNextTurn(t) ==
  /\ At(t, "after DoIO")
  /\ LET f == [Head(stack[t]) EXCEPT !.at = "loop"]
     IN  IF f.fn.calls = Nothing
         THEN Becomes(t, f)
         ELSE stack' = [stack EXCEPT ![t] = <<Call(f.fn.calls), f>> \o Tail(@)]
  /\ UNCHANGED <<live, lib_OpenCnt, fault, unit>>

\* The end of a turn: the function calls another, or goes round.
NextTurn(t) ==
  /\ At(t, "after DoIO")
  /\ LET f == [Head(stack[t]) EXCEPT !.i = @ + 1, !.at = "loop"]
     IN  IF f.fn.calls = Nothing
         THEN Becomes(t, f)
         ELSE stack' = [stack EXCEPT ![t] = <<Call(f.fn.calls), f>> \o Tail(@)]
  /\ UNCHANGED <<live, lib_OpenCnt, fault, unit>>

\* Mutant: mp and io keep their values.
MutCloseDevice(t) ==
  /\ At(t, "loop") /\ ~InLoop(t)
  /\ LET f == Head(stack[t])
         last == f.round = Len(f.fn.rounds)
     IN  /\ lib_OpenCnt' = [lib_OpenCnt EXCEPT ![f.fn.device] = @ - 1]
         /\ Becomes(t, [f EXCEPT !.round = @ + 1, !.i = 0, !.at = IF last THEN "end" ELSE "port"])
         /\ Frees(t, {"buf", "io", "mp"})
  /\ UNCHANGED <<fault, unit>>

\* FreeVec(buf), CloseDevice, and the request and the port go. Only the
\* last round of test_Timer leaves those to the code at end.
CloseDevice(t) ==
  /\ At(t, "loop") /\ ~InLoop(t)
  /\ LET f == Head(stack[t])
         last == f.round = Len(f.fn.rounds)
     IN  /\ lib_OpenCnt' = [lib_OpenCnt EXCEPT ![f.fn.device] = @ - 1]
         /\ IF f.round = 1
            THEN /\ Becomes(t, [f EXCEPT !.mp = FALSE, !.io = FALSE, !.round = @ + 1, !.i = 0,
                                         !.at = IF last THEN "end" ELSE "port"])
                 /\ Frees(t, {"buf", "io", "mp"})
            ELSE /\ Becomes(t, [f EXCEPT !.at = "end"])
                 /\ Frees(t, {"buf"})
  /\ UNCHANGED <<fault, unit>>

\* What is not NULL at end is deleted, and the function returns.
End(t) ==
  /\ At(t, "end")
  /\ LET f == Head(stack[t])
     IN  Frees(t, (IF f.io THEN {"io"} ELSE {}) \cup (IF f.mp THEN {"mp"} ELSE {}))
  /\ stack' = [stack EXCEPT ![t] = Tail(@)]
  /\ UNCHANGED <<lib_OpenCnt, fault, unit>>

Task(t) ==
  \/ CreateMsgPort(t) \/ CreateIORequest(t) \/ OpenDevice(t) \/ AllocBuffer(t)
  \/ SendRead(t) \/ SendTimer(t) \/ DoIOReturns(t) \/ NextTurn(t)
  \/ CloseDevice(t) \/ End(t)

\* The worker task, the device and the interrupt server.
Unit(step) == step /\ ~fault /\ UNCHANGED test

Next ==
  \/ \E t \in Tasks : Task(t)
  \/ Unit(U!Worker) \/ Unit(U!DeviceCompletes) \/ Unit(U!IRQServer)

Spec == Init /\ [][Next]_vars

\* As in VirtioBlkUnit; the tests only read, so nobody dirties the track in
\* the cache and its calls end (Cache!RequestEnds); tasks of one priority take
\* turns. They can run again and again, not always: the worker comes first.
Fairness ==
  /\ WF_vars(Unit(U!Worker)) /\ SF_vars(Unit(U!CacheReturns))
  /\ WF_vars(Unit(U!DeviceCompletes)) /\ WF_vars(Unit(U!IRQServer))
  /\ \A t \in Tasks : SF_vars(Task(t))

FairSpec == Spec /\ Fairness

-----------------------------------------------------------------------------
Places == {"port", "request", "open", "buffer", "loop", "DoIO", "after DoIO", "end"}

Calls ==
  [fn : Functions, at : Places, mp : BOOLEAN, io : BOOLEAN, buf : BOOLEAN, round : 1 .. 3, i : Nat]

\* Every variable has its type, and no device is closed more often than opened.
TypeOK ==
  /\ stack \in [Tasks -> Seq(Calls)]
  /\ \A t \in Tasks : Depth(t) <= 2
  /\ live \in [Tasks -> SUBSET ((1 .. 2) \X {"mp", "io", "buf"})]
  /\ lib_OpenCnt \in [Devices -> Nat]
  /\ fault \in BOOLEAN
  /\ U!TypeOK

\* The call of t at depth d, 1 being the outermost.
CallAt(t, d) == stack[t][Depth(t) - d + 1]

IsOpen(f) == f.at \in {"buffer", "loop", "DoIO", "after DoIO"}

\* What a call at depth d still needs.
Holds(d, f) ==
  (IF f.mp THEN {<<d, "mp">>} ELSE {})
  \cup (IF f.io THEN {<<d, "io">>} ELSE {})
  \cup (IF f.buf /\ IsOpen(f) THEN {<<d, "buf">>} ELSE {})

\* The calls that have a device open: pairs of a task and a depth.
OpenCalls(dev) ==
  {x \in Tasks \X (1 .. 2) :
     x[2] <= Depth(x[1]) /\ LET f == CallAt(x[1], x[2]) IN IsOpen(f) /\ f.fn.device = dev}

(* Whichever call of a test fails: what a task has allocated and not freed *)
(* is exactly what its calls hold a pointer to that the code at end, the   *)
(* end of the loop or the device will follow, the calls that wait for      *)
(* another one to return included; so nothing is freed twice, used when it *)
(* is free, or left behind. The devices are open for the calls between     *)
(* OpenDevice and CloseDevice.                                             *)
LiveIsHeld ==
  /\ \A t \in Tasks : live[t] = UNION {Holds(d, CallAt(t, d)) : d \in 1 .. Depth(t)}
  /\ \A dev \in Devices : lib_OpenCnt[dev] = Cardinality(OpenCalls(dev))

(* While the unit holds a task's request, or its reply has not been taken, *)
(* that task waits in DoIO of a test of virtio_blk.device: the request and *)
(* the port are alive and the device is open.                              *)
RequestStaysAlive ==
  \A t \in Tasks :
    U!Held(t) \/ client[t] # "idle" =>
      /\ stack[t] # << >> /\ Head(stack[t]).at = "DoIO"
      /\ Head(stack[t]).fn.device = "virtio_blk.device"
      /\ {<<Depth(t), "io">>, <<Depth(t), "mp">>} \subseteq live[t]
      /\ lib_OpenCnt["virtio_blk.device"] > 0

\* The pointers of a call at each place.
WellFormed(f) ==
  /\ f \in Calls
  /\ f.at = "port" => ~f.mp /\ ~f.io
  /\ f.at = "request" => f.mp /\ ~f.io
  /\ f.at \in {"open", "buffer", "loop", "DoIO", "after DoIO"} => f.mp /\ f.io
  /\ f.buf => f.at \in {"loop", "DoIO", "after DoIO", "end"}
  /\ f.buf \/ f.at = "buffer" => f.fn.buffer
  /\ f.at # "end" => f.round \in 1 .. Len(f.fn.rounds)

\* One call, or one that another waits for and that calls none.
StackOK(t) ==
  /\ stack[t] \in Seq(Calls) /\ Depth(t) <= 2
  /\ \A k \in 1 .. Depth(t) : WellFormed(stack[t][k])
  /\ Depth(t) = 2 => stack[t][1].fn.calls = Nothing /\ stack[t][2].at = "loop"

\* Until its request has been collected, a task is where it waits for it.
WaitsInDoIO(t) ==
  client[t] # "idle" =>
    stack[t] # << >> /\ Head(stack[t]).at = "DoIO" /\ Head(stack[t]).fn.device = "virtio_blk.device"

\* The inductive invariant of the proofs, next to that of the unit.
BootInvariant ==
  /\ DOMAIN stack = Tasks /\ DOMAIN live = Tasks /\ DOMAIN lib_OpenCnt = Devices
  /\ fault \in BOOLEAN
  /\ \A t \in Tasks : StackOK(t) /\ WaitsInDoIO(t)
  /\ LiveIsHeld

(* Every test task leaves, whatever fails for it and however the two       *)
(* compete for the unit, unless a missing buffer stopped the machine.      *)
TestsEnd == \A t \in Tasks : <>(fault \/ stack[t] = << >>)
=============================================================================
