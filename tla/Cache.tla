------------------------------- MODULE Cache -------------------------------
(***************************************************************************)
(* cache.library (src/src/lib.cache): one track-sized write-back buffer in *)
(* front of a source of blocks, served by one worker task and, on hits,    *)
(* directly by client tasks.                                               *)
(*                                                                         *)
(* Every call is made under Forbid(), which keeps other tasks out until    *)
(* the caller blocks. Only the source callbacks block (they Wait() for the *)
(* device), so clients run when the worker is idle or inside a callback,   *)
(* never between two iterations of its loop: pc \in {"loop", "done"}.      *)
(*                                                                         *)
(* Blocks and sectors are numbered as in the code, in words that wrap; the *)
(* library does not know where the disk ends. byte_length is counted in    *)
(* blocks (the code divides it by BlockSize before every use).             *)
(***************************************************************************)
EXTENDS Integers

CONSTANTS NumTracks,        \* tracks a block number can lie in (2^32 / CacheNumBlocks)
          DiskTracks,       \* the first of them are on the source
          CacheNumBlocks,   \* blocks in a track, and in the cache
          Data,             \* contents of a block
          Zero              \* a cleared block (AllocVec with MEMF_CLEAR)

ASSUME GeometryAssumption == /\ NumTracks \in Nat \ {0}
                             /\ DiskTracks \in 0 .. NumTracks
                             /\ CacheNumBlocks \in Nat \ {0}

ASSUME ZeroAssumption == Zero \in Data

VARIABLES
  CacheFlag,      \* "CLEAN", "DIRTY" or "INVALID"
  CacheNum,       \* the track whose blocks are in CacheBuffer
  CacheBuffer,
  disk,           \* the source behind the callbacks
  pc,             \* where the worker is
  req,            \* the request it serves
  data,           \* that request's io_Data
  block_offset,   \* locals of cache_Read and cache_Write ...
  remain,         \* ... remain_sectors
  actual,
  xfer,           \* the callback in progress: its track, and the sectors it is not done with
  content,        \* history: what was last written to each block and not discarded
  unsynced        \* history: blocks a running cache_Sync still owes the disk

cacheVars == <<CacheFlag, CacheNum, CacheBuffer>>
loopVars  == <<req, data, block_offset, remain, actual>>
vars == <<cacheVars, disk, pc, loopVars, xfer, content, unsynced>>

NumBlocks  == NumTracks * CacheNumBlocks
DiskBlocks == DiskTracks * CacheNumBlocks
Track      == 0 .. NumTracks - 1
Slot       == 0 .. CacheNumBlocks - 1

Store == INSTANCE BlockStore

Block == Store!Block

TrackOf(b)    == b \div CacheNumBlocks   \* track_offset
SectorOf(b)   == b % CacheNumBlocks      \* sector_offset
BlockAt(t, s) == t * CacheNumBlocks + s

NoXfer == [track |-> 0, left |-> {}]

Idle == pc = "idle"

\* Where a task other than the worker may run: the worker has blocked.
Preempted == pc \in {"idle", "reading", "writing", "syncing"}

WritingBack == pc \in {"writing", "syncing"}

-----------------------------------------------------------------------------
\* cache_Configure: an empty cache in front of any disk.
Init ==
  /\ CacheFlag = "INVALID"
  /\ CacheNum = 0
  /\ CacheBuffer = [s \in Slot |-> Zero]
  /\ disk \in [Block -> Data]
  /\ pc = "idle"
  /\ req = Store!NoRequest
  /\ data = << >>
  /\ block_offset = 0 /\ remain = 0 /\ actual = 0
  /\ xfer = NoXfer
  /\ content = disk
  /\ unsynced = {}

\* cache_Hit: all n blocks from offset on are in the buffer.
CacheHit(offset, n) ==
  /\ CacheFlag # "INVALID"
  /\ TrackOf(offset) = CacheNum
  /\ n <= CacheNumBlocks - SectorOf(offset)

CacheDirty == CacheFlag = "DIRTY"

\* The buffer with the n blocks of d from index i on copied to sector.
Copied(sector, n, d, i) ==
  [s \in Slot |-> IF s \in sector .. sector + n - 1 THEN d[s - sector + i] ELSE CacheBuffer[s]]

-----------------------------------------------------------------------------
(* The loops of cache_Read and cache_Write, run by the worker.             *)

\* The worker calls cache_Read or cache_Write with a client's buffer.
StartTransfer(op, offset, n, d) ==
  /\ Idle
  /\ req' = [op |-> op, offset |-> offset, sectors |-> n]
  /\ data' = d
  /\ block_offset' = offset /\ remain' = n /\ actual' = 0
  /\ pc' = "loop"
  /\ UNCHANGED <<cacheVars, disk, xfer, content, unsynced>>

\* The iteration finds its track in the cache.
InCache == TrackOf(block_offset) = CacheNum /\ CacheFlag # "INVALID"

\* Blocks from block_offset to the end of its track.
ToTrackEnd == CacheNumBlocks - SectorOf(block_offset)

\* memcpy of k blocks from the cache to data_ptr + actual.
CopyOut(k) ==
  /\ data' = [i \in DOMAIN data |->
                IF i \in actual .. actual + k - 1
                THEN CacheBuffer[SectorOf(block_offset) + i - actual]
                ELSE data[i]]
  /\ UNCHANGED <<CacheFlag, CacheBuffer, content>>

\* memcpy of k blocks from data_ptr + actual to the cache.
CopyIn(k) ==
  /\ CacheBuffer' = Copied(SectorOf(block_offset), k, data, actual)
  /\ CacheFlag' = "DIRTY"
  /\ content' = Store!Put(content, Store!At(req.offset, actual), k, data, actual)
  /\ UNCHANGED data

\* The last blocks were copied: break.
Finish(k) ==
  /\ actual' = actual + k
  /\ remain' = 0
  /\ pc' = "done"
  /\ UNCHANGED block_offset

\* More tracks to go: the next iteration starts at the next track, which is
\* track 0 after the last number.
NextTrack(k) ==
  /\ actual' = actual + k
  /\ remain' = remain - k
  /\ block_offset' = Store!At(BlockAt(TrackOf(block_offset), 0), CacheNumBlocks)
  /\ UNCHANGED pc

Copy(k) == (req.op = "read" /\ CopyOut(k)) \/ (req.op = "write" /\ CopyIn(k))

CopyWithinTrack ==
  /\ pc = "loop"
  /\ InCache
  /\ remain <= ToTrackEnd
  /\ Copy(remain)
  /\ Finish(remain)
  /\ UNCHANGED <<CacheNum, disk, req, xfer, unsynced>>

CopyToTrackEnd ==
  /\ pc = "loop"
  /\ InCache
  /\ remain > ToTrackEnd
  /\ Copy(ToTrackEnd)
  /\ NextTrack(ToTrackEnd)
  /\ UNCHANGED <<CacheNum, disk, req, xfer, unsynced>>

\* Mutant: the flag is left dirty while the track is written back.
MutWriteBack ==
  /\ pc = "loop"
  /\ ~InCache
  /\ CacheDirty
  /\ xfer' = [track |-> CacheNum, left |-> Slot]
  /\ pc' = "writing"
  /\ UNCHANGED <<cacheVars, disk, loopVars, content, unsynced>>

\* Another track is needed and this one is dirty: it is called clean, then
\* WriteSourceCallback starts.
WriteBack ==
  /\ pc = "loop"
  /\ ~InCache
  /\ CacheDirty
  /\ CacheFlag' = "CLEAN"
  /\ xfer' = [track |-> CacheNum, left |-> Slot]
  /\ pc' = "writing"
  /\ UNCHANGED <<CacheNum, CacheBuffer, disk, loopVars, content, unsynced>>

\* A write that covers the whole track needs nothing from the source.
CoversTrack == req.op = "write" /\ SectorOf(block_offset) = 0 /\ remain >= CacheNumBlocks

FillWholeTrack ==
  /\ pc = "loop"
  /\ ~InCache
  /\ ~CacheDirty
  /\ CoversTrack
  /\ CopyIn(CacheNumBlocks)
  /\ CacheNum' = TrackOf(block_offset)
  /\ IF remain = CacheNumBlocks THEN Finish(CacheNumBlocks) ELSE NextTrack(CacheNumBlocks)
  /\ UNCHANGED <<disk, req, xfer, unsynced>>

\* Mutant: hits stay possible while the track is read.
MutReadTrack ==
  /\ pc = "loop"
  /\ ~InCache
  /\ ~CacheDirty
  /\ ~CoversTrack
  /\ CacheNum' = TrackOf(block_offset)
  /\ xfer' = [track |-> TrackOf(block_offset), left |-> Slot]
  /\ pc' = "reading"
  /\ UNCHANGED <<CacheFlag, CacheBuffer, disk, loopVars, content, unsynced>>

\* Mutant: CacheNum holds the first block instead of the track (cache.h calls
\* it "which block starts on cache").
MutReadTrackNum ==
  /\ pc = "loop"
  /\ ~InCache
  /\ ~CacheDirty
  /\ ~CoversTrack
  /\ CacheNum' = block_offset
  /\ CacheFlag' = "INVALID"
  /\ xfer' = [track |-> TrackOf(block_offset), left |-> Slot]
  /\ pc' = "reading"
  /\ UNCHANGED <<CacheBuffer, disk, loopVars, content, unsynced>>

\* The track is read: no hit is possible while ReadSourceCallback fills it.
ReadTrack ==
  /\ pc = "loop"
  /\ ~InCache
  /\ ~CacheDirty
  /\ ~CoversTrack
  /\ CacheNum' = TrackOf(block_offset)
  /\ CacheFlag' = "INVALID"
  /\ xfer' = [track |-> TrackOf(block_offset), left |-> Slot]
  /\ pc' = "reading"
  /\ UNCHANGED <<CacheBuffer, disk, loopVars, content, unsynced>>

\* Mutant: the track that was read is not called valid.
MutReadCallbackReturns ==
  /\ pc = "reading"
  /\ xfer.left = {}
  /\ xfer' = NoXfer
  /\ pc' = "loop"
  /\ UNCHANGED <<cacheVars, disk, loopVars, content, unsynced>>

ReadCallbackReturns ==
  /\ pc = "reading"
  /\ xfer.left = {}
  /\ CacheFlag' = "CLEAN"
  /\ xfer' = NoXfer
  /\ pc' = "loop"
  /\ UNCHANGED <<CacheNum, CacheBuffer, disk, loopVars, content, unsynced>>

\* Mutant: the cache is called clean after the write-back, not before it.
MutWriteCallbackReturns ==
  /\ pc = "writing"
  /\ xfer.left = {}
  /\ CacheFlag' = "CLEAN"
  /\ xfer' = NoXfer
  /\ pc' = "loop"
  /\ UNCHANGED <<CacheNum, CacheBuffer, disk, loopVars, content, unsynced>>

WriteCallbackReturns ==
  /\ pc = "writing"
  /\ xfer.left = {}
  /\ xfer' = NoXfer
  /\ pc' = "loop"
  /\ UNCHANGED <<cacheVars, disk, loopVars, content, unsynced>>

\* cache_Sync: one write-back if the cache is dirty.
StartSync ==
  /\ Idle
  /\ req' = [op |-> "sync", offset |-> 0, sectors |-> 0]
  /\ unsynced' = { b \in Block : content[b] # disk[b] }
  /\ IF CacheDirty
     THEN /\ CacheFlag' = "CLEAN"
          /\ xfer' = [track |-> CacheNum, left |-> Slot]
          /\ pc' = "syncing"
     ELSE /\ pc' = "done"
          /\ UNCHANGED <<CacheFlag, xfer>>
  /\ UNCHANGED <<CacheNum, CacheBuffer, disk, data, block_offset, remain, actual, content>>

\* Mutant: a sync writes back until it finds the cache clean.
MutSyncCallbackReturns ==
  /\ pc = "syncing"
  /\ xfer.left = {}
  /\ CacheFlag' = IF CacheDirty THEN "CLEAN" ELSE CacheFlag
  /\ IF CacheDirty
     THEN xfer' = [xfer EXCEPT !.left = Slot] /\ UNCHANGED pc
     ELSE xfer' = NoXfer /\ pc' = "done"
  /\ UNCHANGED <<CacheNum, CacheBuffer, disk, loopVars, content, unsynced>>

\* Mutant: the callback does not wait for the device.
MutSyncCallbackReturnsEarly ==
  /\ pc = "syncing"
  /\ xfer' = NoXfer
  /\ pc' = "done"
  /\ UNCHANGED <<cacheVars, disk, loopVars, content, unsynced>>

SyncCallbackReturns ==
  /\ pc = "syncing"
  /\ xfer.left = {}
  /\ xfer' = NoXfer
  /\ pc' = "done"
  /\ UNCHANGED <<cacheVars, disk, loopVars, content, unsynced>>

\* The call returns to the worker.
Return ==
  /\ pc = "done"
  /\ pc' = "idle"
  /\ req' = Store!NoRequest
  /\ data' = << >>
  /\ block_offset' = 0 /\ remain' = 0 /\ actual' = 0
  /\ UNCHANGED <<cacheVars, disk, xfer, content, unsynced>>

-----------------------------------------------------------------------------
(* The source: it transfers the sectors of a call in any order, while      *)
(* other tasks run, and the callback returns when it is done with them     *)
(* all. A sector is transferred again if the device runs its chain again.  *)

\* What the source has for block b. Behind its end it has nothing: whatever
\* the buffer holds then passes for the block (nobody looks at the status).
Fetched(b, v) ==
  IF b < DiskBlocks
  THEN v = disk[b] /\ UNCHANGED <<disk, content>>
  ELSE disk' = [disk EXCEPT ![b] = v] /\ content' = [content EXCEPT ![b] = v]

SourceReads(s, again) ==
  /\ pc = "reading"
  /\ s \in xfer.left
  /\ \E v \in Data :
       /\ CacheBuffer' = [CacheBuffer EXCEPT ![s] = v]
       /\ Fetched(BlockAt(xfer.track, s), v)
  /\ xfer' = [xfer EXCEPT !.left = IF again THEN @ ELSE @ \ {s}]
  /\ UNCHANGED <<CacheFlag, CacheNum, pc, loopVars, unsynced>>

SourceWrites(s, again) ==
  /\ WritingBack
  /\ s \in xfer.left
  /\ disk' = [disk EXCEPT ![BlockAt(xfer.track, s)] = CacheBuffer[s]]
  /\ xfer' = [xfer EXCEPT !.left = IF again THEN @ ELSE @ \ {s}]
  /\ unsynced' = unsynced \ {BlockAt(xfer.track, s)}
  /\ UNCHANGED <<cacheVars, pc, loopVars, content>>

-----------------------------------------------------------------------------
(* Client tasks: quick service of hits, and CMD_CLEAR. A quick read        *)
(* changes nothing; QuickReadReturnsContent says what it returns.          *)

\* cache_Write on a hit: the first iteration copies everything and breaks.
QuickWrite(offset, n, d) ==
  /\ Preempted
  /\ CacheHit(offset, n)
  /\ CacheBuffer' = Copied(SectorOf(offset), n, d, 0)
  /\ CacheFlag' = "DIRTY"
  /\ content' = Store!Put(content, offset, n, d, 0)
  /\ unsynced' = unsynced \ Store!Run(offset, n)
  /\ UNCHANGED <<CacheNum, disk, pc, loopVars, xfer>>

\* Blocks of the cached track, and those a write-back has yet to transfer.
Cached(b)   == CacheFlag # "INVALID" /\ TrackOf(b) = CacheNum
InFlight(b) == WritingBack /\ TrackOf(b) = xfer.track /\ SectorOf(b) \in xfer.left

\* cache_Discard: what is in the cache only is lost, except what is already
\* on its way to the disk.
Discard ==
  /\ Preempted
  /\ CacheFlag' = "INVALID"
  /\ content' = [b \in Block |-> IF Cached(b) /\ ~InFlight(b) THEN disk[b] ELSE content[b]]
  /\ unsynced' = unsynced \ { b \in Block : Cached(b) /\ ~InFlight(b) }
  /\ UNCHANGED <<CacheNum, CacheBuffer, disk, pc, loopVars, xfer>>

-----------------------------------------------------------------------------
Loop == CopyWithinTrack \/ CopyToTrackEnd \/ WriteBack \/ FillWholeTrack \/ ReadTrack

CallbackReturns == ReadCallbackReturns \/ WriteCallbackReturns \/ SyncCallbackReturns

Source     == \E s \in Slot : \E again \in BOOLEAN : SourceReads(s, again) \/ SourceWrites(s, again)
SourceDone == \E s \in Slot : SourceReads(s, FALSE) \/ SourceWrites(s, FALSE)

\* Any request. Its length in bytes is a word, so n is at most the last block.
Start ==
  /\ Idle
  /\ \/ \E offset, n \in Block :
          \/ StartTransfer("read", offset, n, [i \in 0 .. n - 1 |-> Zero])
          \/ \E d \in [0 .. n - 1 -> Data] : StartTransfer("write", offset, n, d)
     \/ StartSync

ClientWrites ==
  /\ Preempted
  /\ \E offset, n \in Block :
       /\ CacheHit(offset, n)
       /\ \E d \in [0 .. n - 1 -> Data] : QuickWrite(offset, n, d)

Next == Start \/ Loop \/ CallbackReturns \/ Return \/ Source \/ ClientWrites \/ Discard

Spec == Init /\ [][Next]_vars

\* The worker outranks every client task, and the device ends what it starts.
Fairness == WF_vars(Loop \/ CallbackReturns \/ Return) /\ WF_vars(SourceDone)

FairSpec == Spec /\ Fairness

-----------------------------------------------------------------------------
TypeOK ==
  /\ CacheFlag \in {"CLEAN", "DIRTY", "INVALID"}
  /\ CacheNum \in Track
  /\ CacheBuffer \in [Slot -> Data]
  /\ disk \in [Block -> Data]
  /\ pc \in {"idle", "loop", "reading", "writing", "syncing", "done"}
  /\ req \in Store!Request \cup {Store!NoRequest}
  /\ data \in [0 .. req.sectors - 1 -> Data]
  /\ block_offset \in Nat /\ remain \in Nat /\ actual \in Nat
  /\ xfer \in [track : Track, left : SUBSET Slot]
  /\ content \in [Block -> Data]
  /\ unsynced \in SUBSET Block

(* Each block has one place that holds its content. A block of the cached  *)
(* track has it in the buffer, even while the worker waits for a           *)
(* write-back that a client may dirty or discard under its feet; a block   *)
(* a write-back has not transferred yet has it there even after a discard; *)
(* every other block, and every block of a clean cache that is not being   *)
(* written back, has it on the disk. cache_Read, cache_Write,              *)
(* cache_Discard and cache_Sync keep this.                                 *)
Coherence ==
  \A b \in Block :
    /\ Cached(b) \/ InFlight(b) => CacheBuffer[SectorOf(b)] = content[b]
    /\ ~InFlight(b) /\ (Cached(b) => CacheFlag = "CLEAN") => disk[b] = content[b]

\* The locals of the loop name the rest of the request and nothing else.
RequestProgress ==
  /\ Idle <=> req = Store!NoRequest
  /\ pc \in {"loop", "reading", "writing"} =>
       /\ req.op \in {"read", "write"}
       /\ block_offset \in Block
       /\ block_offset = Store!At(req.offset, actual)
       /\ remain = req.sectors - actual
  /\ pc = "syncing" => req.op = "sync"
  /\ pc \in {"idle", "syncing", "done"} => actual = req.sectors

\* A callback works on the cached track. What a fill has read is fresh, and
\* what a sync owes is still to be transferred by its own write-back.
CallbackProgress ==
  /\ pc \in {"reading", "writing", "syncing"} => xfer.track = CacheNum
  /\ pc = "reading" =>
       /\ CacheFlag = "INVALID"
       /\ \A s \in Slot \ xfer.left : CacheBuffer[s] = content[BlockAt(CacheNum, s)]
  /\ \A b \in unsynced : pc = "syncing" /\ InFlight(b)

\* A fill is for the track the iteration needs: it finds it in the cache then.
FillsItsTrack == pc = "reading" => TrackOf(block_offset) = CacheNum

(* The inductive invariant of the proofs: coherence, the position of the   *)
(* loop in its request, and what the running callback has done so far.     *)
CacheInvariant == TypeOK /\ Coherence /\ RequestProgress /\ CallbackProgress

(* A hit is answered without the worker, and by the content: the buffer    *)
(* positions cache_Read copies for a request that cache_Hit accepts are    *)
(* those of the blocks asked for, at any moment a client can run.          *)
QuickReadReturnsContent ==
  Preempted =>
    \A offset, n \in Block :
      CacheHit(offset, n) =>
        \A i \in 0 .. n - 1 : CacheBuffer[SectorOf(offset) + i] = content[Store!At(offset, i)]

(* CacheDirty() is what CMD_UPDATE relies on to succeed at once, though    *)
(* the flag turns CLEAN before the data of a write-back is on the disk. It *)
(* is a promise, and the promise is kept: a block that differs from the    *)
(* disk while the cache is not dirty gets there, whatever clients dirty or *)
(* discard before the write-back has come to it.                           *)
PromiseKept ==
  \A b \in Block : (~CacheDirty /\ disk[b] # content[b]) ~> (disk[b] = content[b])

\* Its safety half: such a block is on its way, and the way ends on the disk.
OnItsWay == \A b \in Block : ~CacheDirty /\ disk[b] # content[b] => InFlight(b)

Lands == [][\A b \in Block : InFlight(b) /\ ~InFlight(b)' => disk'[b] = content'[b]]_vars

(* The library implements the block store: reads return the content of the *)
(* blocks asked for at their place in the client's buffer, writes put the  *)
(* client's blocks where they belong, the disk only ever receives current  *)
(* content, a request ends when all of it was transferred and a sync when  *)
(* all it owed is on the disk.                                             *)
ImplementsStore == Store!Spec

\* How far a call is from its end when nothing is dirtied: the phases an
\* iteration goes through, the last one first.
Phase ==
  CASE pc = "idle" -> 0
    [] pc = "done" -> 1
    [] pc = "loop" -> IF InCache THEN 2 ELSE IF CacheDirty THEN 6 ELSE 4
    [] pc \in {"reading", "syncing"} -> 3
    [] pc = "writing" -> IF CacheDirty THEN 7 ELSE 5

\* Fewer blocks are left, or an earlier phase, or fewer sectors of its transfer.
Nearer ==
  \/ remain' < remain
  \/ remain' = remain /\ Phase' < Phase
  \/ remain' = remain /\ Phase' = Phase /\ xfer'.left \subseteq xfer.left /\ xfer'.left # xfer.left

\* A client makes the track dirty that the worker is writing back.
DirtiedAgain == pc = "writing" /\ ~CacheDirty /\ CacheDirty'

(* Every step of a call brings its end nearer, whatever the cache finds    *)
(* and for a request over any number of tracks; and of all that clients    *)
(* and the device do meanwhile only a hit that dirties a track during its  *)
(* write-back takes it further away. The orders are well-founded: this is  *)
(* why a request ends when clients stop doing that, and a sync anyway.     *)
EveryStepCounts ==
  [][/\ Loop \/ CallbackReturns \/ Return \/ SourceDone => Nearer
     /\ ~Idle /\ ~DirtiedAgain => Nearer \/ UNCHANGED <<remain, Phase, xfer>>]_vars

(* A read or write the worker serves ends once clients stop dirtying the   *)
(* cached track: each of their hits during a write-back makes the worker   *)
(* write it back again (the comment in cache_Read tells the story).        *)
RequestEnds == <>[][~ClientWrites]_vars => (~Idle ~> Idle)

(* A sync writes back once: it ends whatever the clients do.               *)
SyncEnds == (req.op = "sync") ~> Idle
=============================================================================
