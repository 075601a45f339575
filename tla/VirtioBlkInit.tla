--------------------------- MODULE VirtioBlkInit ---------------------------
(***************************************************************************)
(* How virtio_blk.device comes up (virtio_blk_InitDev): the boot task      *)
(* brings up one unit after the other, creates a worker task for each and  *)
(* waits until that worker has a message port; then tasks open the units.  *)
(* The worker may run as soon as it exists, or long after. Every step that *)
(* needs memory or a library may fail, also those whose failure the boot   *)
(* task does not look at.                                                  *)
(***************************************************************************)
EXTENDS Integers

CONSTANTS VB_UNIT_MAX,   \* units the device structure has room for
          MaxFound       \* bound: block devices on the PCI bus

ASSUME UnitsAssumption == VB_UNIT_MAX \in Nat \ {0} /\ MaxFound \in Nat

VARIABLES
  found,          \* block devices on the bus
  pc,             \* where the boot task is
  unit_num,       \* its loop variable
  NumAvailUnits,
  single,         \* SIGF_SINGLE is pending for the boot task
  opened,         \* libraries it has open besides the cache
  status,         \* device status register of each unit
  offered,        \* its feature register: what is in it of Features
  host_support,   \* what the unit's feature table says the host supports
  info,           \* the parts of vb->Info that were read
  queues,         \* the unit's virtqueue: NULL, "allocated" or "ready"
  hdrs,           \* request header and status byte: NULL, "allocated" or "freed"
  taskData,       \* units whose VirtioBlk_WorkerTaskData is allocated
  intServer,      \* units with an interrupt server
  worker,         \* the worker task of each unit
  lib_OpenCnt,    \* of cache.library
  UserBase        \* the unit whose callbacks the cache was configured with, or -1

cache  == <<lib_OpenCnt, UserBase>>
driver == <<status, offered, host_support, info, queues, hdrs>>
boot   == <<found, NumAvailUnits, single, opened>>
held   == <<taskData, intServer, worker, cache>>
vars   == <<pc, unit_num, boot, driver, held>>

\* The features whose bits decide what VirtioBlk_configuration reads.
Features == {"geometry", "blk_size"}

NULL == "NULL"

Units == 0 .. VB_UNIT_MAX - 1

Available == 0 .. NumAvailUnits - 1

Init ==
  /\ found \in 0 .. MaxFound
  /\ pc = "libraries" /\ unit_num = 0 /\ NumAvailUnits = 0
  /\ single \in BOOLEAN       \* left over from an earlier user of the signal
  /\ opened = {}
  /\ \E st \in {"RESET", "DRV_OK"} : status = [u \in Units |-> st]     \* the firmware may have used them
  /\ offered \in [Units -> SUBSET Features]
  /\ host_support = [u \in Units |-> {}] /\ info = [u \in Units |-> {}]
  /\ queues = [u \in Units |-> NULL] /\ hdrs = [u \in Units |-> NULL]
  /\ taskData = {} /\ intServer = {}
  /\ worker = [u \in Units |-> "none"]
  /\ lib_OpenCnt = 0 /\ UserBase = -1

-----------------------------------------------------------------------------
(* The boot task. After a failure inside the loop it keeps the units it    *)
(* already has (break).                                                    *)

OpenLibraries ==
  /\ pc = "libraries"
  /\ \/ opened' = {"expansion", "virtio"} /\ pc' = "setup"
     \/ opened' = {} /\ pc' = "failed"       \* the first, if open, is closed again
  /\ UNCHANGED <<found, unit_num, NumAvailUnits, single, driver, held>>

\* The loop test, and VirtioBlk_setup.
Setup ==
  /\ pc = "setup"
  /\ IF unit_num < VB_UNIT_MAX /\ unit_num < found
     THEN pc' = "reset"
     ELSE pc' = "done"
  /\ UNCHANGED <<unit_num, boot, driver, held>>

Reset ==
  /\ pc = "reset"
  /\ status' = [status EXCEPT ![unit_num] = "RESET"]
  /\ pc' = "ack"
  /\ UNCHANGED <<unit_num, boot, offered, host_support, info, queues, hdrs, held>>

Acknowledge ==
  /\ pc = "ack"
  /\ status' = [status EXCEPT ![unit_num] = "ACK"]
  /\ pc' = "features"
  /\ UNCHANGED <<unit_num, boot, offered, host_support, info, queues, hdrs, held>>

\* Mutant: a table for all units that is not copied from blkf anew.
MutExchangeFeatures ==
  /\ pc = "features"
  /\ host_support' = [host_support EXCEPT ![unit_num] =
                        offered[unit_num] \cup UNION {host_support[u] : u \in Units}]
  /\ pc' = "driver"
  /\ UNCHANGED <<unit_num, boot, status, offered, info, queues, hdrs, held>>

\* The unit's own table, copied from blkf (no host support), takes the
\* bits of the register. The driver itself supports nothing: it writes 0.
ExchangeFeatures ==
  /\ pc = "features"
  /\ host_support' = [host_support EXCEPT ![unit_num] = offered[unit_num]]
  /\ pc' = "driver"
  /\ UNCHANGED <<unit_num, boot, status, offered, info, queues, hdrs, held>>

\* VirtioWrite8(..., VIRTIO_STATUS_DRV)
KnowsDevice ==
  /\ pc = "driver"
  /\ status' = [status EXCEPT ![unit_num] = "DRV"]
  /\ pc' = "queues"
  /\ UNCHANGED <<unit_num, boot, offered, host_support, info, queues, hdrs, held>>

\* num_queues becomes 1 whether or not there is memory for the queue.
AllocateQueues ==
  /\ pc = "queues"
  /\ queues' \in {queues, [queues EXCEPT ![unit_num] = "allocated"]}
  /\ pc' = "init queues"
  /\ UNCHANGED <<unit_num, boot, status, offered, host_support, info, hdrs, held>>

\* Its result is not looked at. Without a queue it writes through NULL: to
\* low memory, as if a queue were there, or into a fault that stops the machine.
InitQueues ==
  /\ pc = "init queues"
  /\ \/ pc' = "requests" /\ queues[unit_num] # NULL
        /\ queues' = [queues EXCEPT ![unit_num] = "ready"]
     \/ pc' = "requests" /\ UNCHANGED queues
     \/ pc' = "fault" /\ queues[unit_num] = NULL /\ UNCHANGED queues
  /\ UNCHANGED <<unit_num, boot, status, offered, host_support, info, hdrs, held>>

\* VirtioBlk_alloc_phys_requests, its result not looked at either. Without
\* a status byte hdrs is freed and vb still points to it.
AllocRequests ==
  /\ pc = "requests"
  /\ \E h \in {NULL, "allocated", "freed"} : hdrs' = [hdrs EXCEPT ![unit_num] = h]
  /\ pc' = "configuration"
  /\ UNCHANGED <<unit_num, boot, status, offered, host_support, info, queues, held>>

\* What the host does not offer stays 0.
Configuration ==
  /\ pc = "configuration"
  /\ info' = [info EXCEPT ![unit_num] = {"capacity"} \cup host_support[unit_num]]
  /\ pc' = "ok"
  /\ UNCHANGED <<unit_num, boot, status, offered, host_support, queues, hdrs, held>>

\* "Driver is ready to go!"
DriverOK ==
  /\ pc = "ok"
  /\ status' = [status EXCEPT ![unit_num] = "DRV_OK"]
  /\ pc' = "data"
  /\ UNCHANGED <<unit_num, boot, offered, host_support, info, queues, hdrs, held>>

Drive ==
  \/ Reset \/ Acknowledge \/ ExchangeFeatures \/ KnowsDevice \/ AllocateQueues \/ InitQueues
  \/ AllocRequests \/ Configuration \/ DriverOK

AllocTaskData ==
  /\ pc = "data"
  /\ \/ taskData' = taskData \cup {unit_num} /\ pc' = "cache"
     \/ UNCHANGED taskData /\ pc' = "done"
  /\ UNCHANGED <<unit_num, boot, driver, intServer, worker, cache>>

\* Mutant: a library that did not open is closed.
MutOpenCache ==
  /\ pc = "cache"
  /\ \/ /\ lib_OpenCnt' = lib_OpenCnt + 1
        /\ pc' = "configure"
        /\ UNCHANGED taskData
     \/ /\ taskData' = taskData \ {unit_num}
        /\ pc' = "done"
        /\ lib_OpenCnt' = lib_OpenCnt - 1
  /\ UNCHANGED <<unit_num, boot, driver, intServer, worker, UserBase>>

\* OpenLibrary gives every unit the one CacheBase there is.
OpenCache ==
  /\ pc = "cache"
  /\ \/ /\ lib_OpenCnt' = lib_OpenCnt + 1
        /\ pc' = "configure"
        /\ UNCHANGED taskData
     \/ /\ taskData' = taskData \ {unit_num}
        /\ pc' = "done"
        /\ UNCHANGED lib_OpenCnt
  /\ UNCHANGED <<unit_num, boot, driver, intServer, worker, UserBase>>

\* Mutant: the cache stays open after a failure.
MutConfigureCache ==
  /\ pc = "configure"
  /\ UserBase' = unit_num
  /\ \/ pc' = "irq" /\ UNCHANGED <<taskData, lib_OpenCnt>>
     \/ /\ taskData' = taskData \ {unit_num}
        /\ pc' = "done"
        /\ UNCHANGED lib_OpenCnt
  /\ UNCHANGED <<unit_num, boot, driver, intServer, worker>>

\* cache_Configure stores the configuration before it can fail.
ConfigureCache ==
  /\ pc = "configure"
  /\ UserBase' = unit_num
  /\ \/ pc' = "irq" /\ UNCHANGED <<taskData, lib_OpenCnt>>
     \/ /\ lib_OpenCnt' = lib_OpenCnt - 1
        /\ taskData' = taskData \ {unit_num}
        /\ pc' = "done"
  /\ UNCHANGED <<unit_num, boot, driver, intServer, worker>>

StartIRQServer ==
  /\ pc = "irq"
  /\ intServer' = intServer \cup {unit_num}
  /\ pc' = "signal"
  /\ UNCHANGED <<unit_num, boot, driver, taskData, worker, cache>>

\* Mutant: a signal left over from before is not cleared.
MutClearSignal ==
  /\ pc = "signal"
  /\ pc' = "create"
  /\ UNCHANGED <<unit_num, boot, driver, held>>

\* SetSignal(0L, SIGF_SINGLE)
ClearSignal ==
  /\ pc = "signal"
  /\ single' = FALSE
  /\ pc' = "create"
  /\ UNCHANGED <<found, unit_num, NumAvailUnits, opened, driver, held>>

CreateWorker ==
  /\ pc = "create"
  /\ worker' = [worker EXCEPT ![unit_num] = "created"]
  /\ pc' = "wait"
  /\ UNCHANGED <<unit_num, boot, driver, taskData, intServer, cache>>

\* Wait(SIGF_SINGLE), and the unit counts as available.
WaitForWorker ==
  /\ pc = "wait"
  /\ single
  /\ single' = FALSE
  /\ NumAvailUnits' = NumAvailUnits + 1
  /\ unit_num' = unit_num + 1
  /\ pc' = "setup"
  /\ UNCHANGED <<found, opened, driver, held>>

BootTask ==
  \/ OpenLibraries \/ Setup \/ Drive \/ AllocTaskData \/ OpenCache \/ ConfigureCache
  \/ StartIRQServer \/ ClearSignal \/ CreateWorker \/ WaitForWorker

-----------------------------------------------------------------------------
(* The worker tasks, up to VirtioBlk_CheckPort.                            *)

InitMsgPort(u) ==
  /\ worker[u] = "created"
  /\ worker' = [worker EXCEPT ![u] = "port"]
  /\ UNCHANGED <<pc, unit_num, boot, driver, taskData, intServer, cache>>

\* Mutant: the boot task is not told.
MutSignalBootTask(u) ==
  /\ worker[u] = "port"
  /\ worker' = [worker EXCEPT ![u] = "ready"]
  /\ UNCHANGED <<pc, unit_num, boot, driver, taskData, intServer, cache>>

\* taskWakeupSignal is allocated, and the boot task is told.
SignalBootTask(u) ==
  /\ worker[u] = "port"
  /\ worker' = [worker EXCEPT ![u] = "ready"]
  /\ single' = TRUE
  /\ UNCHANGED <<found, pc, unit_num, NumAvailUnits, opened, driver, taskData, intServer, cache>>

WorkerTask(u) == InitMsgPort(u) \/ SignalBootTask(u)

Next == BootTask \/ \E u \in Units : WorkerTask(u)

Spec == Init /\ [][Next]_vars

\* A task that can run is run some day.
Fairness == WF_vars(BootTask) /\ \A u \in Units : WF_vars(WorkerTask(u))

FairSpec == Spec /\ Fairness

-----------------------------------------------------------------------------
PcTypeOK ==
  pc \in {"libraries", "setup", "reset", "ack", "features", "driver", "queues", "init queues",
         "requests", "configuration", "ok", "data", "cache", "configure", "irq", "signal",
         "create", "wait", "done", "failed", "fault"}

BootTypeOK ==
  /\ found \in 0 .. MaxFound
  /\ unit_num \in 0 .. VB_UNIT_MAX /\ NumAvailUnits \in 0 .. VB_UNIT_MAX
  /\ single \in BOOLEAN
  /\ opened \in SUBSET {"expansion", "virtio"}

DriverTypeOK ==
  /\ status \in [Units -> {"RESET", "ACK", "DRV", "DRV_OK"}]
  /\ offered \in [Units -> SUBSET Features] /\ host_support \in [Units -> SUBSET Features]
  /\ info \in [Units -> SUBSET ({"capacity"} \cup Features)]
  /\ queues \in [Units -> {NULL, "allocated", "ready"}]
  /\ hdrs \in [Units -> {NULL, "allocated", "freed"}]

HeldTypeOK ==
  /\ taskData \in SUBSET Units /\ intServer \in SUBSET Units
  /\ worker \in [Units -> {"none", "created", "port", "ready"}]
  /\ lib_OpenCnt \in Nat
  /\ UserBase \in Units \cup {-1}

\* Every variable has the type its C declaration gives it, and cache.library
\* is never closed more often than it was opened.
TypeOK == PcTypeOK /\ BootTypeOK /\ DriverTypeOK /\ HeldTypeOK

(* virtio_blk_OpenDev hands out the units below NumAvailUnits, and the     *)
(* interrupt server looks at them: each of them has a worker that has made *)
(* its message port and its wakeup signal, whatever signal was pending     *)
(* before, its task data, an interrupt server and a driver that told the   *)
(* device it is ready.                                                     *)
AvailableIsServed ==
  \A u \in Available :
    /\ worker[u] = "ready"
    /\ u \in taskData /\ u \in intServer
    /\ status[u] = "DRV_OK"

(* The range check and the geometry commands use what was read from this   *)
(* unit's own device, and read nothing the device does not offer: the      *)
(* feature tables of the units do not mix.                                 *)
ConfigurationIsHosts ==
  \A u \in Units : info[u] # {} => info[u] = {"capacity"} \cup offered[u]

\* Units the boot task has put something into that it never takes back: no
\* failure calls VirtioFreeQueues, frees the headers or resets the device.
Begun == {u \in Units : queues[u] # NULL \/ hdrs[u] # NULL \/ host_support[u] # {} \/ info[u] # {}}

(* When initialisation ends, whichever step failed, the available units    *)
(* and nothing else hold the cache and task data, and the interrupt        *)
(* servers and workers that exist are theirs. What a failure does leave    *)
(* behind, the virtqueue, the headers and a device that was told DRV_OK,   *)
(* it leaves with one unit only: the one it hit, the first that is not     *)
(* available.                                                              *)
FailureIsContained ==
  pc \in {"done", "failed"} =>
    /\ lib_OpenCnt = NumAvailUnits
    /\ taskData = Available /\ intServer = Available
    /\ {u \in Units : worker[u] # "none"} = Available
    /\ Begun \subseteq 0 .. NumAvailUnits

\* The steps of the loop body from one on: what the boot task has done for
\* unit_num depends on how far it has come.
FromCreate    == {"create", "wait"}
FromSignal    == {"signal"} \cup FromCreate
FromConfigure == {"configure", "irq"} \cup FromSignal
FromCache     == {"cache"} \cup FromConfigure
FromData      == {"data"} \cup FromCache
FromDriver    == {"driver", "queues", "init queues", "requests", "configuration", "ok"} \cup FromData
FromReset     == {"reset", "ack", "features"} \cup FromDriver

\* The unit the boot task works on is the first that is not available yet.
BootProgress ==
  /\ unit_num = NumAvailUnits
  /\ pc \in FromReset => unit_num < VB_UNIT_MAX

\* How far the driver of that unit is.
DriverProgress ==
  /\ pc \in FromDriver => host_support[unit_num] = offered[unit_num]
  /\ pc \in FromData => status[unit_num] = "DRV_OK"

\* What it holds for that unit, besides what the available units hold.
BootOwns ==
  /\ taskData = Available \cup (IF pc \in FromCache THEN {unit_num} ELSE {})
  /\ intServer = Available \cup (IF pc \in FromSignal THEN {unit_num} ELSE {})
  /\ lib_OpenCnt = NumAvailUnits + (IF pc \in FromConfigure THEN 1 ELSE 0)

\* While the boot task waits, SIGF_SINGLE can only come from the worker it
\* waits for.
Handshake ==
  /\ \A u \in Units : worker[u] # "none" <=> u < unit_num \/ (u = unit_num /\ pc = "wait")
  /\ pc = "create" => ~single
  /\ pc = "wait" => (single <=> worker[unit_num] = "ready")

\* The inductive invariant of the proofs.
BootInvariant ==
  /\ TypeOK /\ AvailableIsServed /\ ConfigurationIsHosts
  /\ BootProgress /\ DriverProgress /\ BootOwns /\ Handshake

\* The units beyond unit_num were not begun: inductive beside BootInvariant.
BegunInOrder == Begun \subseteq 0 .. unit_num

(* The boot task never waits for a worker that has already signalled: it   *)
(* returns from virtio_blk_InitDev, unless it faulted.                     *)
BootEnds == <>(pc \in {"done", "failed", "fault"})

(* "cache: one per unit": the callbacks the cache calls for a unit are its *)
(* own.                                                                    *)
OneCachePerUnit == \A u \in Available : UserBase = u
=============================================================================
