---------------------------- MODULE DetectVirtio ----------------------------
(***************************************************************************)
(* DetectVirtio of src/src/boot.test/testvirtio.c: a driver in one         *)
(* function, without cache, interrupt or worker. It sets the block device  *)
(* up with one queue, then reads sector after sector into a buffer on its  *)
(* stack; after each notification it sleeps for a second and shows what    *)
(* the buffer holds, whether the device is done or not.                    *)
(*                                                                         *)
(* Any AllocVec may fail. vt->queues is NULL after a failure to set the    *)
(* queue up, which the caller does not look at: it goes on through NULL,   *)
(* and the machine stops or lets it write to low memory.                   *)
(***************************************************************************)
EXTENDS Integers

CONSTANTS Features,  \* of the configuration: SEG_MAX, GEOMETRY, BLK_SIZE
          Sectors    \* bound: sectors read (8192 in the code)

ASSUME SectorsAssumption == Sectors \in Nat

VARIABLES
  pc,            \* where the function is
  live,          \* blocks allocated and not freed
  ptr,           \* pointers that are not NULL, named like the blocks
  slow,          \* the device may need more than a second
  offered,       \* features of the device
  host_support,  \* vt->features[].host_support
  info,          \* fields of blk_config that were read
  dev_status,    \* the device status register
  i,             \* the loop of DetectVirtio
  buf,           \* its buffer: Zero, or a sector's number
  hdr,           \* hdrs[0].sector
  status,        \* status[0]
  pending,       \* entries of the available ring the device has not taken
  notified,      \* the device looks at the ring
  job,           \* the sector it is reading
  delayed,       \* test_mhz_delay did sleep in this turn ...
  kept,          \* ... and in all turns so far
  fault          \* the machine has stopped

memory == <<live, ptr>>
setup  == <<slow, offered, host_support, info, dev_status>>
turn   == <<i, buf, hdr, status, delayed, kept>>
device == <<pending, notified, job>>
vars   == <<pc, memory, setup, turn, device, fault>>

Zero == -1
NoJob == -2

QueueReady == "queues" \in ptr
DeviceIdle == pending = 0 /\ job = NoJob

Init ==
  /\ pc = "open"
  /\ live = {} /\ ptr = {}
  /\ slow \in BOOLEAN
  /\ offered \in SUBSET Features
  /\ host_support = {} /\ info = {} /\ dev_status = "unknown"
  /\ i = 0 /\ buf = Zero /\ hdr = 0 /\ status = 0
  /\ pending = 0 /\ notified = FALSE /\ job = NoJob
  /\ delayed = FALSE /\ kept = TRUE
  /\ fault = FALSE

At(place) == pc = place /\ ~fault

-----------------------------------------------------------------------------
(* Set-up.                                                                 *)

\* expansion.library is not closed again.
OpenExpansion ==
  /\ At("open")
  /\ pc' \in {"find", "returned"}
  /\ UNCHANGED <<memory, setup, turn, device, fault>>

PCIFindDevice ==
  /\ At("find")
  /\ pc' \in {"reset", "returned"}
  /\ UNCHANGED <<memory, setup, turn, device, fault>>

Reset ==
  /\ At("reset")
  /\ dev_status' = "ACK"
  /\ pc' = "features"
  /\ UNCHANGED <<memory, slow, offered, host_support, info, turn, device, fault>>

\* The table blkf takes the bits of the register; the driver itself supports
\* nothing and writes 0. "We know how to drive the device."
exchange_features ==
  /\ At("features")
  /\ host_support' = host_support \cup offered
  /\ dev_status' = "DRV"
  /\ pc' = "queues"
  /\ UNCHANGED <<memory, slow, offered, info, turn, device, fault>>

\* virtio_alloc_queues: the structure of the one queue.
virtio_alloc_queues ==
  /\ At("queues")
  /\ \/ live' = live \cup {"queues"} /\ ptr' = ptr \cup {"queues"} /\ pc' = "size"
     \/ UNCHANGED memory /\ pc' = "hdrs"
  /\ UNCHANGED <<setup, turn, device, fault>>

\* The queue could not be set up: its structure goes, with its pointers.
\* (The error path of init_phys_queues frees the queues before this one: none.)
NoQueue(alive) ==
  /\ live' = alive \ {"queues"}
  /\ ptr' = ptr \ {"queues", "ring", "data"}
  /\ pc' = "hdrs"

\* Not a power of two?
init_phys_queues ==
  /\ At("size")
  /\ \/ NoQueue(live)
     \/ pc' = "ring" /\ UNCHANGED memory
  /\ UNCHANGED <<setup, turn, device, fault>>

AllocRing ==
  /\ At("ring")
  /\ \/ live' = live \cup {"ring"} /\ ptr' = ptr \cup {"ring"} /\ pc' = "data"
     \/ NoQueue(live)
  /\ UNCHANGED <<setup, turn, device, fault>>

\* Then init_phys_queue, and the device learns the page of the queue.
AllocData ==
  /\ At("data")
  /\ \/ live' = live \cup {"data"} /\ ptr' = ptr \cup {"data"} /\ pc' = "hdrs"
     \/ NoQueue(live \ {"ring"})
  /\ UNCHANGED <<setup, turn, device, fault>>

\* virtio_blk_alloc_requests
AllocHdrs ==
  /\ At("hdrs")
  /\ \/ live' = live \cup {"hdrs"} /\ ptr' = ptr \cup {"hdrs"} /\ pc' = "status"
     \/ UNCHANGED memory /\ pc' = "free"
  /\ UNCHANGED <<setup, turn, device, fault>>

\* Mutant: hdrs is not freed.
MutAllocStatus ==
  /\ At("status")
  /\ \/ live' = live \cup {"status"} /\ ptr' = ptr \cup {"status"} /\ pc' = "configuration"
     \/ UNCHANGED memory /\ pc' = "free"
  /\ UNCHANGED <<setup, turn, device, fault>>

\* hdrs keeps its value when it is freed.
AllocStatus ==
  /\ At("status")
  /\ \/ live' = live \cup {"status"} /\ ptr' = ptr \cup {"status"} /\ pc' = "configuration"
     \/ live' = live \ {"hdrs"} /\ UNCHANGED ptr /\ pc' = "free"
  /\ UNCHANGED <<setup, turn, device, fault>>

\* num_queues is 1 also if there is no queue: what lies at NULL is freed.
\* The structure itself is not.
virtio_free_queues ==
  /\ At("free")
  /\ \/ /\ QueueReady
        /\ fault' = ~({"ring", "data"} \subseteq live)   \* would free a block twice
        /\ live' = live \ {"ring", "data"}
        /\ ptr' = ptr \ {"queues", "ring", "data"}
     \/ /\ ~QueueReady
        /\ fault' \in BOOLEAN
        /\ UNCHANGED memory
  /\ pc' = "returned"
  /\ UNCHANGED <<setup, turn, device>>

virtio_blk_configuration ==
  /\ At("configuration")
  /\ info' = {"capacity"} \cup host_support
  /\ dev_status' = "DRV_OK"
  /\ pc' = "clear"
  /\ UNCHANGED <<memory, slow, offered, host_support, turn, device, fault>>

-----------------------------------------------------------------------------
(* The loop, and virtio_blk_transfer.                                      *)

ClearBuf ==
  /\ At("clear")
  /\ IF i < Sectors
     THEN buf' = Zero /\ pc' = "header"
     ELSE pc' = "returned" /\ UNCHANGED buf
  /\ UNCHANGED <<memory, setup, i, hdr, status, delayed, kept, device, fault>>

FillHeader ==
  /\ At("header")
  /\ hdr' = i
  /\ pc' = "clear status"
  /\ UNCHANGED <<memory, setup, i, buf, status, delayed, kept, device, fault>>

ClearStatus ==
  /\ At("clear status")
  /\ status' = 1
  /\ pc' = "offer"
  /\ UNCHANGED <<memory, setup, i, buf, hdr, delayed, kept, device, fault>>

\* The three descriptors, the same each time, and three entries of the
\* available ring: all through vt->queues.
Offer ==
  /\ At("offer")
  /\ pending' = IF QueueReady THEN pending + 3 ELSE pending
  /\ IF QueueReady THEN fault' = FALSE ELSE fault' \in BOOLEAN
  /\ pc' = "notify"
  /\ UNCHANGED <<memory, setup, turn, notified, job>>

Notify ==
  /\ At("notify")
  /\ notified' = QueueReady
  /\ pc' = "delay"
  /\ UNCHANGED <<memory, setup, turn, pending, job, fault>>

\* Mutant: the second is not waited for.
MutDelay ==
  /\ At("delay")
  /\ delayed' = TRUE /\ UNCHANGED kept
  /\ pc' = "show"
  /\ UNCHANGED <<memory, setup, i, buf, hdr, status, device, fault>>

\* test_mhz_delay sleeps, or returns at once without a port, a request or
\* the timer. In a second a device that is not slow is done.
Delay ==
  /\ At("delay")
  /\ \/ delayed' = TRUE /\ UNCHANGED kept /\ (slow \/ DeviceIdle)
     \/ delayed' = FALSE /\ kept' = FALSE
  /\ pc' = "show"
  /\ UNCHANGED <<memory, setup, i, buf, hdr, status, device, fault>>

\* Mutant: the loop does not move on.
MutShow ==
  /\ At("show")
  /\ pc' = "clear"
  /\ UNCHANGED <<memory, setup, turn, device, fault>>

\* The status, the ISR register and the first bytes of buf are printed.
Show ==
  /\ At("show")
  /\ i' = i + 1
  /\ pc' = "clear"
  /\ UNCHANGED <<memory, setup, buf, hdr, status, delayed, kept, device, fault>>

DetectTask ==
  \/ OpenExpansion \/ PCIFindDevice \/ Reset \/ exchange_features
  \/ virtio_alloc_queues \/ init_phys_queues \/ AllocRing \/ AllocData
  \/ AllocHdrs \/ AllocStatus \/ virtio_free_queues \/ virtio_blk_configuration
  \/ ClearBuf \/ FillHeader \/ ClearStatus \/ Offer \/ Notify \/ Delay \/ Show

-----------------------------------------------------------------------------
(* The device takes the entries one after the other.                       *)

DeviceTakes ==
  /\ notified /\ job = NoJob /\ pending > 0
  /\ job' = hdr
  /\ pending' = pending - 1
  /\ UNCHANGED <<pc, memory, setup, turn, notified, fault>>

\* A request that fails leaves the buffer alone.
DeviceCompletes ==
  /\ job # NoJob
  /\ \/ buf' = job /\ status' = 0
     \/ UNCHANGED buf /\ status' = 1
  /\ job' = NoJob
  /\ UNCHANGED <<pc, memory, setup, i, hdr, delayed, kept, pending, notified, fault>>

DeviceRests ==
  /\ notified /\ DeviceIdle
  /\ notified' = FALSE
  /\ UNCHANGED <<pc, memory, setup, turn, pending, job, fault>>

Device == DeviceTakes \/ DeviceCompletes \/ DeviceRests

Next == DetectTask \/ Device

Spec == Init /\ [][Next]_vars

\* The task runs whenever it can, and so does the device.
FairSpec == Spec /\ WF_vars(DetectTask) /\ WF_vars(Device)

-----------------------------------------------------------------------------
Places ==
  {"open", "find", "reset", "features", "queues", "size", "ring", "data", "hdrs", "status", "free",
   "configuration", "clear", "header", "clear status", "offer", "notify", "delay", "show", "returned"}

Blocks == {"queues", "ring", "data", "hdrs", "status"}

\* Also: as many entries are offered as descriptors are filled.
TypeOK ==
  /\ pc \in Places
  /\ live \subseteq Blocks /\ ptr \subseteq Blocks
  /\ slow \in BOOLEAN /\ offered \subseteq Features /\ host_support \subseteq offered
  /\ info \in {{}, {"capacity"} \cup offered}
  /\ dev_status \in {"unknown", "ACK", "DRV", "DRV_OK"}
  /\ i \in 0 .. Sectors /\ hdr \in 0 .. Sectors
  /\ buf \in {Zero} \cup 0 .. i
  /\ status \in {0, 1}
  /\ pending \in 0 .. 3 * (i + 1)
  /\ notified \in BOOLEAN
  /\ job \in {NoJob} \cup 0 .. i
  /\ delayed \in BOOLEAN /\ kept \in BOOLEAN /\ fault \in BOOLEAN

(* What is shown after a second that was waited for is the sector that was *)
(* asked for if the status says so, even when the delays of earlier turns  *)
(* failed and their executions ran into this turn: unless the device is    *)
(* slow, when an execution that began with the sector before may end last. *)
ShownIsAsked ==
  pc = "show" /\ QueueReady /\ delayed /\ ~slow /\ status = 0 => buf = hdr /\ hdr = i

\* The ring, the header and the status word the device uses are allocated,
\* and so is the buffer unless a delay failed or the device is slow: the
\* stack of the function is gone when it returns.
DeviceMemory ==
  /\ ~DeviceIdle => QueueReady /\ Blocks \subseteq live
  /\ pc = "returned" /\ kept /\ ~slow => DeviceIdle

\* When it gives up, no more than the queue structure is left behind.
LeftBehind ==
  pc = "returned" /\ dev_status # "DRV_OK" => live \subseteq {"queues"}

(* Whichever allocation fails: what the device reads and writes is         *)
(* allocated while it does, a set-up that gives up frees what it had but   *)
(* the queue structure, nothing is freed twice, and only the NULL of a     *)
(* queue that could not be set up stops the machine.                       *)
MemorySafe == DeviceMemory /\ LeftBehind /\ (fault => ~QueueReady)

-----------------------------------------------------------------------------
(* The inductive invariant of the safety properties, in named parts.       *)

Loop == {"clear", "header", "clear status", "offer", "notify", "delay", "show"}

\* The queue is set up, or was not and left nothing.
QueueKept(alive) ==
  LET queue == {"queues", "ring", "data"}
  IN  \/ alive = queue /\ queue \subseteq ptr
      \/ alive = {} /\ ptr \cap queue = {}

\* What each place finds allocated.
Holdings ==
  /\ pc \in {"open", "find", "reset", "features", "queues"} => live = {} /\ ptr = {}
  /\ pc \in {"size", "ring"} => live = {"queues"} /\ ptr = live
  /\ pc = "data" => live = {"queues", "ring"} /\ ptr = live
  /\ pc = "hdrs" => QueueKept(live)
  /\ pc = "status" => "hdrs" \in live /\ QueueKept(live \ {"hdrs"})
  /\ pc = "free" => QueueKept(live)
  /\ pc \in {"configuration"} \cup Loop =>
       {"hdrs", "status"} \subseteq live /\ QueueKept(live \ {"hdrs", "status"})
  /\ QueueReady /\ pc \in Loop \cup {"returned"} => Blocks \subseteq live
  /\ LeftBehind
  /\ fault => ~QueueReady

\* How far the set-up has come.
Progress ==
  /\ pc \in {"queues", "size", "ring", "data", "hdrs", "status", "free", "configuration"} \cup Loop =>
       host_support = offered
  /\ pc \in Loop => i < Sectors \/ pc = "clear"
  /\ pc \notin Loop \cup {"returned"} => i = 0 /\ dev_status # "DRV_OK"
  /\ dev_status # "DRV_OK" /\ pc \notin Loop => ~notified /\ kept
  /\ pc \in Loop => dev_status = "DRV_OK"

\* The executions offered so far: three in each turn.
Executions ==
  /\ pc \notin {"notify", "delay", "show"} => pending <= 3 * i
  /\ pending > 0 \/ job # NoJob \/ notified => QueueReady /\ dev_status = "DRV_OK"
  /\ kept /\ ~slow /\ pc \notin {"notify", "delay"} => DeviceIdle
  /\ pc = "show" /\ delayed /\ ~slow => DeviceIdle

\* From the offer on, the last execution to come is the one of this turn.
LastIsThis ==
  /\ hdr <= i
  /\ pc \in {"clear status", "offer", "notify", "delay", "show"} => hdr = i
  /\ pc \in {"notify", "delay", "show"} /\ QueueReady /\ pending = 0 =>
       IF job = NoJob THEN status = 0 => buf = i ELSE job = i

DetectInvariant == TypeOK /\ Holdings /\ Progress /\ Executions /\ LastIsThis

(* DetectVirtio returns, slow as the device may be.                        *)
DetectEnds == <>(fault \/ pc = "returned")
=============================================================================
