----------------------------- MODULE UnitCache -----------------------------
(***************************************************************************)
(* A unit of virtio_blk.device with its cache: VirtioBlkUnit and Cache     *)
(* composed. The commands of the unit look at the cache and write to it,   *)
(* its worker runs the loops of the cache, and the callbacks of the cache  *)
(* are transfers of the unit. Each step is a step of both, or of one of    *)
(* them while the other stands still.                                      *)
(*                                                                         *)
(* Offsets and lengths are counted in sectors (io_Length / blk_size), in   *)
(* words: a client may ask for any, and the range check is all there is    *)
(* between it and the cache.                                               *)
(***************************************************************************)
EXTENDS Integers, Sequences

CONSTANTS Requests,
          Uses,     \* bound: Uses[r] are the commands request r is used for
          Calls,    \* bound: the calls clients make, of "DoIO" and "SendIO"
          NumTracks, DiskTracks, CacheNumBlocks, Data, Zero

ASSUME UsesAssumption ==
  \A r \in Requests : Uses[r] \subseteq {"CMD_READ", "CMD_WRITE", "CMD_UPDATE", "CMD_CLEAR"}

ASSUME CallsAssumption == Calls \subseteq {"DoIO", "SendIO"}

ASSUME GeometryAssumption == /\ NumTracks \in Nat \ {0}
                             /\ DiskTracks \in 0 .. NumTracks
                             /\ CacheNumBlocks \in Nat \ {0}
                             /\ Zero \in Data

VARIABLES
  io_Command, io_Flags, io_Error, io_Actual, client, served, MsgList,
  upc, curr_req, chains, isr, wakeup,
  CacheFlag, CacheNum, CacheBuffer, disk, cpc, creq, data, block_offset, remain,
  actual, xfer, content, unsynced,
  io,      \* what the worker finds in a queued request: io_Offset, io_Length, io_Data
  owed     \* history: blocks that were unsaved when a request began, and still are

U == INSTANCE VirtioBlkUnit WITH pc <- upc, Commands <- UNION {Uses[r] : r \in Requests},
                                 MaxChains <- 3, OneInterrupt <- TRUE

C == INSTANCE Cache WITH pc <- cpc, req <- creq

worker == <<upc, curr_req>>
device == <<chains, isr>>
unit   == <<io_Command, io_Flags, io_Error, io_Actual, client, served, MsgList, worker, device, wakeup>>
cache  == <<CacheFlag, CacheNum, CacheBuffer, disk, cpc, creq, data, block_offset, remain, actual,
            xfer, content, unsynced>>
vars   == <<unit, cache, io, owed>>

NoIO == [offset |-> 0, sectors |-> 0, data |-> [i \in {} |-> Zero]]

Init ==
  /\ U!Init /\ C!Init
  /\ \A r \in Requests : io_Command[r] \in Uses[r]
  /\ io = [r \in Requests |-> NoIO]
  /\ owed = [r \in Requests |-> {}]

\* A block is owed until it is saved, overwritten or discarded.
StillOwed ==
  owed' = [r \in Requests |->
             {b \in owed[r] : content'[b] = content[b] /\ disk'[b] # content'[b]}]

-----------------------------------------------------------------------------
(* Commands. A client runs them in its own task.                           *)

\* Mutant: >= has become >.
MutNotEnoughSectors(offset, n) == (offset + n - 1) % C!NumBlocks > C!DiskBlocks

\* The range check, in words: C!NumBlocks is 2^32. It looks at the last sector
\* only, which for an empty request is the one before io_Offset.
NotEnoughSectors(offset, n) == (offset + n - 1) % C!NumBlocks >= C!DiskBlocks

\* What virtio_blk_BeginIO does for every command.
Begin(r, call, c) ==
  /\ c \in Uses[r]
  /\ U!ClientRuns
  /\ client[r] = "idle"
  /\ io_Command' = [io_Command EXCEPT ![r] = c]
  /\ served' = [served EXCEPT ![r] = FALSE]
  /\ UNCHANGED <<worker, device, wakeup>>

Reject(r, call, c, offset, n) ==
  /\ NotEnoughSectors(offset, n)
  /\ U!EndCommand(r, call, c, "BLK_ERR_NotEnoughSectors")
  /\ UNCHANGED <<cache, io>>

ServeAtOnce(r, call, c, offset, n, d) ==
  /\ ~NotEnoughSectors(offset, n)
  /\ C!CacheHit(offset, n)
  /\ U!EndCommand(r, call, c, "0")
  /\ IF c = "CMD_READ" THEN UNCHANGED cache ELSE C!QuickWrite(offset, n, d)
  /\ UNCHANGED io

ServeLater(r, call, c, offset, n, d) ==
  /\ ~NotEnoughSectors(offset, n)
  /\ ~C!CacheHit(offset, n)
  /\ U!QueueCommand(r, call)
  /\ io' = [io EXCEPT ![r] = [offset |-> offset, sectors |-> n, data |-> d]]
  /\ UNCHANGED cache

\* VirtioBlkRead and VirtioBlkWrite
ReadOrWrite(r, call, c, offset, n, d) ==
  /\ Begin(r, call, c)
  /\ \/ Reject(r, call, c, offset, n)
     \/ ServeAtOnce(r, call, c, offset, n, d)
     \/ ServeLater(r, call, c, offset, n, d)
  /\ StillOwed

\* Mutant: an update never finds anything to do while the worker is at it.
MutUpdate(r, call) ==
  /\ Begin(r, call, "CMD_UPDATE")
  /\ IF C!CacheDirty /\ C!Idle
     THEN U!QueueCommand(r, call)
     ELSE U!EndCommand(r, call, "CMD_UPDATE", "0")
  /\ UNCHANGED <<cache, io>>
  /\ owed' = [owed EXCEPT ![r] = {b \in C!Block : disk[b] # content[b]}]

Update(r, call) ==
  /\ Begin(r, call, "CMD_UPDATE")
  /\ IF C!CacheDirty
     THEN U!QueueCommand(r, call)
     ELSE U!EndCommand(r, call, "CMD_UPDATE", "0")
  /\ UNCHANGED <<cache, io>>
  /\ owed' = [owed EXCEPT ![r] = {b \in C!Block : disk[b] # content[b]}]

\* Mutant: the worker is to clear the cache.
MutClear(r, call) ==
  /\ Begin(r, call, "CMD_CLEAR")
  /\ U!QueueCommand(r, call)
  /\ UNCHANGED <<cache, io>>
  /\ StillOwed

Clear(r, call) ==
  /\ Begin(r, call, "CMD_CLEAR")
  /\ U!EndCommand(r, call, "CMD_CLEAR", "0")
  /\ C!Discard
  /\ UNCHANGED io
  /\ StillOwed

\* A client that writes fills its buffer with one value.
Writes ==
  \E r \in Requests : \E call \in Calls :
    \E offset, n \in C!Block : \E d \in Data :
      ReadOrWrite(r, call, "CMD_WRITE", offset, n, [i \in 0 .. n - 1 |-> d])

Reads ==
  \E r \in Requests : \E call \in Calls :
    \E offset, n \in C!Block :
      ReadOrWrite(r, call, "CMD_READ", offset, n, [i \in 0 .. n - 1 |-> Zero])

Abort(r) == U!AbortIO(r) /\ UNCHANGED <<cache, io>> /\ StillOwed

Collect(r) ==
  /\ U!WaitIO(r)
  /\ io' = [io EXCEPT ![r] = NoIO]
  /\ UNCHANGED cache
  /\ StillOwed

Client ==
  \/ Writes \/ Reads
  \/ \E r \in Requests :
       \/ \E call \in Calls : Update(r, call) \/ Clear(r, call)
       \/ Abort(r) \/ Collect(r)

-----------------------------------------------------------------------------
(* The worker.                                                             *)

\* Between two looks at the list it does not touch the cache.
CheckPort ==
  /\ U!TakeHead \/ U!ProcessRequest \/ U!FinishRequest \/ U!DropAborted \/ U!ReplyMsg
  /\ UNCHANGED <<cache, io>>
  /\ StillOwed

\* Mutant: io_Length is rounded up, beyond what io_Data has room for.
MutCallCache ==
  /\ upc = "service"
  /\ LET r == Head(MsgList)
     IN  \/ /\ io_Command[r] = "CMD_READ"
            /\ C!StartTransfer("read", io[r].offset, io[r].sectors + 1, io[r].data)
         \/ /\ io_Command[r] = "CMD_WRITE"
            /\ C!StartTransfer("write", io[r].offset, io[r].sectors + 1, io[r].data)
  /\ UNCHANGED <<unit, io>>
  /\ StillOwed

\* CacheRead or CacheWrite of the request at the head.
CallCache ==
  /\ upc = "service"
  /\ LET r == Head(MsgList)
     IN  \/ /\ io_Command[r] = "CMD_READ"
            /\ C!StartTransfer("read", io[r].offset, io[r].sectors, io[r].data)
         \/ /\ io_Command[r] = "CMD_WRITE"
            /\ C!StartTransfer("write", io[r].offset, io[r].sectors, io[r].data)
  /\ UNCHANGED <<unit, io>>
  /\ StillOwed

\* CacheSync, which starts its transfer if there is one to start.
CallSync ==
  /\ upc = "service"
  /\ io_Command[Head(MsgList)] = "CMD_UPDATE"
  /\ C!StartSync
  /\ IF cpc' = "syncing" THEN U!StartTransfer ELSE UNCHANGED unit
  /\ UNCHANGED io
  /\ StillOwed

CopyLoop ==
  /\ upc = "service"
  /\ C!CopyWithinTrack \/ C!CopyToTrackEnd \/ C!FillWholeTrack
  /\ UNCHANGED <<unit, io>>
  /\ StillOwed

StartCallback ==
  /\ U!StartTransfer
  /\ C!WriteBack \/ C!ReadTrack
  /\ UNCHANGED io
  /\ StillOwed

\* Mutant: the callback finds its sectors transferred and does not wait.
MutEndCallback ==
  /\ upc = "wait" /\ upc' = "service"
  /\ C!CallbackReturns
  /\ UNCHANGED <<io_Command, io_Flags, io_Error, io_Actual, client, served, MsgList, curr_req,
                 device, wakeup, io>>
  /\ StillOwed

EndCallback ==
  /\ U!CallbackReturns
  /\ C!CallbackReturns
  /\ UNCHANGED io
  /\ StillOwed

CacheReturns ==
  /\ U!CacheReturns
  /\ C!Return
  /\ UNCHANGED io
  /\ StillOwed

Worker ==
  CheckPort \/ CallCache \/ CallSync \/ CopyLoop \/ StartCallback \/ EndCallback \/ CacheReturns

-----------------------------------------------------------------------------
(* The device executes the chain of a transfer IdxStep times. It transfers *)
(* every sector in the last execution, and any in those before it.         *)

TransfersSector(s) ==
  /\ chains > 0
  /\ C!SourceReads(s, chains > 1) \/ C!SourceWrites(s, chains > 1)
  /\ UNCHANGED <<unit, io>>
  /\ StillOwed

Completes ==
  /\ U!DeviceCompletes
  /\ chains = 1 => xfer.left = {}
  /\ UNCHANGED <<cache, io>>
  /\ StillOwed

Interrupt == U!IRQServer /\ UNCHANGED <<cache, io>> /\ StillOwed

Sector == \E s \in C!Slot : TransfersSector(s)

Next == Client \/ Worker \/ Sector \/ Completes \/ Interrupt

Spec == Init /\ [][Next]_vars

-----------------------------------------------------------------------------
TypeOK ==
  /\ U!TypeOK /\ C!TypeOK
  /\ io \in [Requests -> [offset : C!Block, sectors : C!Block,
                          data : UNION {[0 .. n - 1 -> Data] : n \in C!Block}]]
  /\ owed \in [Requests -> SUBSET C!Block]

(* The worker is where the cache thinks it is: it blocks exactly in the    *)
(* callbacks of the cache, clients run only when the cache may be called,  *)
(* and when the signal arrives every sector of the callback's track has    *)
(* been transferred.                                                       *)
InStep ==
  /\ upc = "wait" <=> cpc \in {"reading", "writing", "syncing"}
  /\ cpc # "idle" => upc \in {"service", "wait"}
  /\ U!ClientRuns => C!Preempted
  /\ isr \/ wakeup => xfer.left = {}

\* The two kinds of request that pass the range check though their sectors
\* are not all on the disk: none at all, and a run that wraps.
Slips(offset, n) == n = 0 \/ offset + n > C!NumBlocks

(* The range check is made in the client's task, on words; the cache, which *)
(* does not know where the disk ends, fills its tracks later in the        *)
(* worker's. For any request but those two kinds, no callback asks the     *)
(* device for a track behind the end of the disk.                          *)
FillsFromDisk ==
  cpc = "reading" => xfer.track < DiskTracks \/ Slips(creq.offset, creq.sectors)

\* Seen from the unit, the cache is a choice; seen from the cache, the unit is.
ImplementsUnit  == U!Spec
ImplementsCache == C!Spec

(* CMD_UPDATE: once it has ended without an error, at once or later, each  *)
(* block that was not on the disk when it began has been saved,            *)
(* overwritten or discarded, or a write-back that runs is about to save    *)
(* it, whatever the other clients did in the meantime.                     *)
UpdateSaves ==
  \A r \in Requests :
    io_Command[r] = "CMD_UPDATE" /\ io_Error[r] = "0" /\ ~U!Held(r)
      => \A b \in owed[r] : C!InFlight(b)
=============================================================================
