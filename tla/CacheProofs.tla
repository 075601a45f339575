---------------------------- MODULE CacheProofs ----------------------------
(***************************************************************************)
(* Proofs about cache.library for any number of tracks, track size and     *)
(* block contents. The inductive invariant is CacheInvariant: coherence    *)
(* alone is not inductive, since the loop's position in its request        *)
(* decides which blocks a copy overwrites, and what a fill has read so far *)
(* becomes the cache when its callback returns.                            *)
(***************************************************************************)
EXTENDS Cache, TLAPS

-----------------------------------------------------------------------------
(* Numbering a block by track and sector is one to one.                    *)
LEMMA TrackSector ==
  ASSUME NEW b \in Block
  PROVE  /\ TrackOf(b) \in Track
         /\ SectorOf(b) \in Slot
         /\ b = BlockAt(TrackOf(b), SectorOf(b))
BY GeometryAssumption DEF Block, Store!Block, NumBlocks, TrackOf, SectorOf, BlockAt, Track, Slot

LEMMA BlockAtTrack ==
  ASSUME NEW t \in Track, NEW s \in Slot
  PROVE  /\ BlockAt(t, s) \in Block
         /\ TrackOf(BlockAt(t, s)) = t
         /\ SectorOf(BlockAt(t, s)) = s
BY GeometryAssumption DEF Block, Store!Block, NumBlocks, TrackOf, SectorOf, BlockAt, Track, Slot

(* A track ends before the block numbers do.                               *)
LEMMA TrackEnds ==
  ASSUME NEW b \in Block
  PROVE  /\ CacheNumBlocks - SectorOf(b) \in Nat \ {0}
         /\ b + (CacheNumBlocks - SectorOf(b)) <= NumBlocks
<1>1. TrackOf(b) \in 0 .. NumTracks - 1 /\ SectorOf(b) \in 0 .. CacheNumBlocks - 1
  BY TrackSector DEF Track, Slot
<1>2. b = TrackOf(b) * CacheNumBlocks + SectorOf(b)
  BY TrackSector DEF BlockAt
<1>3. (TrackOf(b) + 1) * CacheNumBlocks <= NumBlocks
  <2>1. \A m, n, k \in Nat : m <= n => m * k <= n * k
    OBVIOUS
  <2>2. TrackOf(b) + 1 \in Nat /\ TrackOf(b) + 1 <= NumTracks
    BY <1>1, GeometryAssumption
  <2> QED
    BY <2>1, <2>2, GeometryAssumption DEF NumBlocks
<1>4. (TrackOf(b) + 1) * CacheNumBlocks = TrackOf(b) * CacheNumBlocks + CacheNumBlocks
  BY <1>1, GeometryAssumption
<1>5. NumBlocks \in Nat /\ TrackOf(b) * CacheNumBlocks \in Nat
  BY <1>1, GeometryAssumption DEF NumBlocks
<1> QED
  BY <1>1, <1>2, <1>3, <1>4, <1>5, GeometryAssumption

(* The k blocks from b on, k at most up to the end of b's track, are all   *)
(* in that track, and sit in consecutive sectors of it.                    *)
LEMMA RunInTrack ==
  ASSUME NEW b \in Block, NEW c \in Block,
         NEW k \in Nat, k <= CacheNumBlocks - SectorOf(b)
  PROVE  /\ c \in Store!Run(b, k) <=> c \in b .. b + k - 1
         /\ c \in Store!Run(b, k) => TrackOf(c) = TrackOf(b) /\ Store!After(b, c) = c - b
         /\ TrackOf(c) = TrackOf(b) =>
              /\ SectorOf(c) - SectorOf(b) = c - b
              /\ c \in Store!Run(b, k) <=> SectorOf(c) \in SectorOf(b) .. SectorOf(b) + k - 1
<1>1. /\ TrackOf(b) \in Int /\ TrackOf(c) \in Int
      /\ SectorOf(b) \in 0 .. CacheNumBlocks - 1
      /\ SectorOf(c) \in 0 .. CacheNumBlocks - 1
      /\ b \in 0 .. NumBlocks - 1 /\ c \in 0 .. NumBlocks - 1 /\ NumBlocks \in Nat
  BY TrackSector, GeometryAssumption DEF Block, Store!Block, NumBlocks, Track, Slot
<1>2. /\ b = TrackOf(b) * CacheNumBlocks + SectorOf(b)
      /\ c = TrackOf(c) * CacheNumBlocks + SectorOf(c)
  BY TrackSector DEF BlockAt
<1>3. TrackOf(c) = TrackOf(b) => SectorOf(c) - SectorOf(b) = c - b
  BY <1>1, <1>2, GeometryAssumption
<1>4. ASSUME c \in b .. b + k - 1 PROVE TrackOf(c) = TrackOf(b)
  <2>1. c = TrackOf(b) * CacheNumBlocks + (SectorOf(b) + (c - b))
    BY <1>1, <1>2, GeometryAssumption
  <2>2. SectorOf(b) + (c - b) \in Slot
    BY <1>1, <1>4, GeometryAssumption DEF Slot
  <2> QED
    BY <2>1, <2>2, TrackSector, BlockAtTrack DEF BlockAt
<1>5. /\ c \in Store!Run(b, k) <=> c \in b .. b + k - 1
      /\ c \in b .. b + k - 1 => Store!After(b, c) = c - b
  <2>1. b + k <= NumBlocks
    BY <1>1, TrackEnds, GeometryAssumption
  <2>2. c \in Store!Run(b, k) <=> Store!After(b, c) < k
    BY DEF Store!Run, Block
  <2> QED
    BY <1>1, <2>1, <2>2 DEF Store!After
<1> QED
  BY <1>1, <1>3, <1>4, <1>5, GeometryAssumption

(* Block i after b is in b's track, i sectors on, up to the track's end.   *)
LEMMA AtInTrack ==
  ASSUME NEW b \in Block, NEW k \in Nat, k <= CacheNumBlocks - SectorOf(b), NEW i \in 0 .. k - 1
  PROVE  /\ Store!At(b, i) \in Block
         /\ TrackOf(Store!At(b, i)) = TrackOf(b)
         /\ SectorOf(Store!At(b, i)) = SectorOf(b) + i
<1> DEFINE c == Store!At(b, i)
<1>1. b \in 0 .. NumBlocks - 1 /\ NumBlocks \in Nat /\ SectorOf(b) \in Int
  BY TrackSector, GeometryAssumption DEF Block, Store!Block, NumBlocks, Slot
<1>2. b + k <= NumBlocks
  BY <1>1, TrackEnds, GeometryAssumption
<1>3. c = b + i /\ c \in Block /\ c \in b .. b + k - 1
  BY <1>1, <1>2 DEF Store!At, Block, Store!Block
<1> HIDE DEF c
<1>4. TrackOf(c) = TrackOf(b) /\ SectorOf(c) - SectorOf(b) = c - b
  BY <1>3, RunInTrack
<1>5. SectorOf(c) \in Int
  BY <1>3, TrackSector, GeometryAssumption DEF Slot
<1> QED
  BY <1>1, <1>3, <1>4, <1>5 DEF c

(* Counting blocks from an offset: numbers wrap, in one step or in two.    *)
LEMMA AtBlock ==
  ASSUME NEW offset \in Block, NEW i \in Nat, NEW j \in Nat, i + j <= NumBlocks
  PROVE  /\ Store!At(offset, i) \in Block
         /\ Store!At(Store!At(offset, i), j) = Store!At(offset, i + j)
<1>1. NumBlocks \in Nat /\ offset \in 0 .. NumBlocks - 1
  BY GeometryAssumption DEF NumBlocks, Block, Store!Block
<1> QED
  BY <1>1 DEF Store!At, Block, Store!Block

(* The block after the last one of b's track starts the next track.        *)
LEMMA NextTrackStart ==
  ASSUME NEW b \in Block
  PROVE  Store!At(BlockAt(TrackOf(b), 0), CacheNumBlocks)
           = Store!At(b, CacheNumBlocks - SectorOf(b))
<1>1. TrackOf(b) \in Int /\ SectorOf(b) \in 0 .. CacheNumBlocks - 1
  BY TrackSector, GeometryAssumption DEF Track, Slot
<1>2. b = TrackOf(b) * CacheNumBlocks + SectorOf(b)
  BY TrackSector DEF BlockAt
<1>3. BlockAt(TrackOf(b), 0) + CacheNumBlocks = b + (CacheNumBlocks - SectorOf(b))
  BY <1>1, <1>2, GeometryAssumption DEF BlockAt
<1>4. /\ BlockAt(TrackOf(b), 0) \in Int /\ b \in Int
      /\ NumBlocks \in Int /\ CacheNumBlocks - SectorOf(b) \in Int
  BY <1>1, <1>2, GeometryAssumption DEF BlockAt, NumBlocks
<1> QED
  BY <1>3, <1>4, GeometryAssumption DEF Store!At

-----------------------------------------------------------------------------
(* Copying blocks keeps the buffer and the content arrays of blocks.       *)
LEMMA CopiedType ==
  ASSUME TypeOK, NEW n \in Nat, NEW m \in Nat, NEW d \in [0 .. m - 1 -> Data],
         NEW i \in Nat, i + n <= m, NEW sector \in Nat
  PROVE  Copied(sector, n, d, i) \in [Slot -> Data]
<1>1. \A s \in Slot : s \in sector .. sector + n - 1 => s - sector + i \in 0 .. m - 1
  BY DEF Slot
<1> QED
  BY <1>1 DEF Copied, TypeOK

LEMMA PutType ==
  ASSUME NEW f \in [Block -> Data], NEW n \in Nat, NEW m \in Nat,
         NEW d \in [0 .. m - 1 -> Data], NEW i \in Nat, i + n <= m, NEW offset \in Block
  PROVE  Store!Put(f, offset, n, d, i) \in [Block -> Data]
<1>1. NumBlocks \in Nat
  BY GeometryAssumption DEF NumBlocks
<1>2. \A b \in Block : b \in Store!Run(offset, n) => Store!After(offset, b) + i \in 0 .. m - 1
  BY <1>1 DEF Block, Store!Block, Store!Run, Store!After
<1> QED
  BY <1>2 DEF Store!Put, Block

(* The same n blocks of d, put at block offset into the content and at its *)
(* sector into the buffer, meet block by block: a block of that track has  *)
(* either both its places overwritten with the same data, or none; the     *)
(* content of other tracks stays.                                          *)
LEMMA CopyMeetsContent ==
  ASSUME NEW offset \in Block, NEW n \in Nat, n <= CacheNumBlocks - SectorOf(offset),
         NEW d, NEW i \in Nat, NEW b \in Block
  PROVE  LET put == Store!Put(content, offset, n, d, i)
             buf == Copied(SectorOf(offset), n, d, i)
         IN  /\ TrackOf(b) # TrackOf(offset) => put[b] = content[b]
             /\ TrackOf(b) = TrackOf(offset) =>
                  IF b \in Store!Run(offset, n)
                  THEN buf[SectorOf(b)] = put[b]
                  ELSE buf[SectorOf(b)] = CacheBuffer[SectorOf(b)] /\ put[b] = content[b]
<1>1. /\ b \in Store!Run(offset, n) =>
           /\ TrackOf(b) = TrackOf(offset)
           /\ Store!After(offset, b) = SectorOf(b) - SectorOf(offset)
      /\ TrackOf(b) = TrackOf(offset) =>
           b \in Store!Run(offset, n)
           <=> SectorOf(b) \in SectorOf(offset) .. SectorOf(offset) + n - 1
  BY RunInTrack
<1>2. SectorOf(b) \in Slot
  BY TrackSector
<1> QED
  BY <1>1, <1>2 DEF Store!Put, Copied, Block

-----------------------------------------------------------------------------
(* Type correctness and progress of the loop.                              *)

LEMMA ConstantTypes ==
  /\ NumBlocks \in Nat \ {0}
  /\ 0 \in Track /\ 0 \in Block
  /\ Block \subseteq Nat /\ Slot \subseteq Nat /\ Track \subseteq Nat
<1>1. NumBlocks \in Nat \ {0}
  BY GeometryAssumption DEF NumBlocks
<1> QED
  BY <1>1, GeometryAssumption DEF Track, Block, Store!Block, Slot

(* What the worker may assume where its loop stands.                       *)
LEMMA LoopFacts ==
  ASSUME TypeOK, RequestProgress, pc \in {"loop", "reading", "writing"}
  PROVE  /\ req \in [op : {"read", "write"}, offset : Block, sectors : Block]
         /\ req.sectors < NumBlocks
         /\ actual + remain = req.sectors
         /\ TrackOf(block_offset) \in Track
         /\ SectorOf(block_offset) \in Slot
         /\ ToTrackEnd \in Nat \ {0}
         /\ ToTrackEnd = CacheNumBlocks - SectorOf(block_offset)
         /\ ToTrackEnd <= CacheNumBlocks
         /\ req.offset \in Nat /\ req.sectors \in Nat
         /\ actual \in Nat /\ remain \in Nat /\ SectorOf(block_offset) \in Nat
<1>1. req \in Store!Request /\ req.op \in {"read", "write"} /\ block_offset \in Block
  BY DEF TypeOK, RequestProgress, Store!NoRequest
<1>2. req \in [op : {"read", "write"}, offset : Block, sectors : Block]
      /\ req.sectors < NumBlocks
  <2>1. req \in [op : {"read", "write"}, offset : Block, sectors : Block]
    BY <1>1 DEF Store!Request, Block
  <2> QED
    BY <2>1, ConstantTypes DEF Block, Store!Block
<1>3. actual + remain = req.sectors
  <2>1. remain = req.sectors - actual /\ actual \in Nat /\ req.sectors \in Nat
    BY <1>2, ConstantTypes DEF RequestProgress, TypeOK
  <2> QED
    BY <2>1
<1>4. TrackOf(block_offset) \in Track /\ SectorOf(block_offset) \in Slot
  BY <1>1, TrackSector
<1>5. ToTrackEnd = CacheNumBlocks - SectorOf(block_offset)
  BY DEF ToTrackEnd
<1>6. ToTrackEnd \in Nat \ {0} /\ ToTrackEnd <= CacheNumBlocks
  BY <1>4, <1>5, GeometryAssumption DEF Slot
<1>7. /\ req.offset \in Nat /\ req.sectors \in Nat
      /\ actual \in Nat /\ remain \in Nat /\ SectorOf(block_offset) \in Nat
  <2>1. req.offset \in Block /\ req.sectors \in Block
    BY <1>2
  <2>2. req.offset \in Nat
    BY <2>1, ConstantTypes
  <2>3. req.sectors \in Nat
    BY <2>1, ConstantTypes
  <2>4. actual \in Nat /\ remain \in Nat
    BY DEF TypeOK
  <2> QED
    BY <1>4, <2>2, <2>3, <2>4, ConstantTypes
<1> QED
  BY <1>2, <1>3, <1>4, <1>5, <1>6, <1>7

(* Where a track ends inside a request, the request goes on in the next.   *)
LEMMA NextTrackPosition ==
  ASSUME TypeOK, RequestProgress, pc = "loop", ToTrackEnd < remain, NextTrack(ToTrackEnd)
  PROVE  /\ block_offset' \in Block
         /\ block_offset' \in Nat
         /\ remain' \in Nat
         /\ actual' \in Nat
         /\ block_offset' = Store!At(req.offset, actual')
         /\ remain' = req.sectors - actual'
<1>1. block_offset \in Block /\ block_offset = Store!At(req.offset, actual)
  BY DEF RequestProgress
<1>2. block_offset' = Store!At(block_offset, ToTrackEnd)
  BY <1>1, NextTrackStart DEF ToTrackEnd, NextTrack
<1>3. /\ req.offset \in Block /\ req.sectors \in Nat /\ actual \in Nat /\ remain \in Nat
      /\ req.sectors < NumBlocks /\ actual + remain = req.sectors
      /\ ToTrackEnd \in Nat
  BY LoopFacts
<1>4. actual' = actual + ToTrackEnd /\ remain' = remain - ToTrackEnd
  BY DEF NextTrack
<1>5. NumBlocks \in Nat
  BY ConstantTypes
<1>6. /\ actual' \in Nat /\ actual' <= NumBlocks /\ remain' \in Nat
      /\ remain' = req.sectors - actual'
  BY <1>3, <1>4, <1>5
<1>7. block_offset' = Store!At(req.offset, actual')
  BY <1>1, <1>2, <1>3, <1>4, <1>6, AtBlock
<1>8. block_offset' \in Block
  <2>1. actual' + 0 <= NumBlocks
    BY <1>6
  <2> QED
    BY <1>3, <1>6, <1>7, <2>1, AtBlock
<1> QED
  BY <1>6, <1>7, <1>8, ConstantTypes

LEMMA CopyType ==
  ASSUME TypeOK, RequestProgress, pc = "loop",
         NEW k \in Nat, k <= remain, k <= ToTrackEnd, Copy(k)
  PROVE  /\ CacheFlag' \in {"CLEAN", "DIRTY", "INVALID"}
         /\ CacheBuffer' \in [Slot -> Data]
         /\ data' \in [0 .. req.sectors - 1 -> Data]
         /\ content' \in [Block -> Data]
<1>0. /\ actual \in Nat /\ req.sectors \in Nat /\ req.offset \in Nat
      /\ actual + k <= req.sectors
      /\ SectorOf(block_offset) \in Nat
      /\ SectorOf(block_offset) + k <= CacheNumBlocks
  <2>1. /\ actual \in Nat /\ remain \in Nat /\ req.sectors \in Nat /\ req.offset \in Nat
        /\ actual + remain = req.sectors
        /\ SectorOf(block_offset) \in Nat
        /\ ToTrackEnd = CacheNumBlocks - SectorOf(block_offset)
    BY LoopFacts
  <2> QED
    BY <2>1, GeometryAssumption
<1>1. CASE req.op = "read" /\ CopyOut(k)
  <2>1. \A j \in 0 .. req.sectors - 1 :
          j \in actual .. actual + k - 1 => SectorOf(block_offset) + j - actual \in Slot
    BY <1>0, GeometryAssumption DEF Slot
  <2>2. /\ data \in [0 .. req.sectors - 1 -> Data] /\ CacheBuffer \in [Slot -> Data]
        /\ CacheFlag \in {"CLEAN", "DIRTY", "INVALID"} /\ content \in [Block -> Data]
    BY DEF TypeOK
  <2> QED
    BY <1>1, <2>1, <2>2 DEF CopyOut
<1>2. CASE req.op = "write" /\ CopyIn(k)
  <2>1. data \in [0 .. req.sectors - 1 -> Data] /\ content \in [Block -> Data]
    BY DEF TypeOK
  <2>2. Copied(SectorOf(block_offset), k, data, actual) \in [Slot -> Data]
    BY <1>0, <2>1, CopiedType
  <2>3. Store!Put(content, Store!At(req.offset, actual), k, data, actual) \in [Block -> Data]
    <3>1. Store!At(req.offset, actual) \in Block
      BY DEF RequestProgress
    <3> QED
      BY <1>0, <2>1, <3>1, PutType
  <2> QED
    BY <1>2, <2>1, <2>2, <2>3 DEF CopyIn
<1> QED
  BY <1>1, <1>2 DEF Copy

(* The first step from the initial states and every step keep the types.   *)
LEMMA InitInvariant == Init => CacheInvariant
<1> SUFFICES ASSUME Init PROVE CacheInvariant
  OBVIOUS
<1>1. TypeOK
  <2>1. data \in [0 .. req.sectors - 1 -> Data]
    BY DEF Init, Store!NoRequest
  <2>2. xfer \in [track : Track, left : SUBSET Slot]
    BY ConstantTypes DEF Init, NoXfer
  <2> QED
    BY <2>1, <2>2, ConstantTypes, ZeroAssumption DEF Init, TypeOK
<1>2. Coherence
  BY DEF Init, Coherence, Cached, InFlight, WritingBack
<1>3. RequestProgress
  BY DEF Init, RequestProgress, Store!NoRequest, Idle
<1>4. CallbackProgress
  BY DEF Init, CallbackProgress
<1> QED
  BY <1>1, <1>2, <1>3, <1>4 DEF CacheInvariant

LEMMA TypeStep == CacheInvariant /\ [Next]_vars => TypeOK'
<1> SUFFICES ASSUME CacheInvariant, [Next]_vars PROVE TypeOK'
  OBVIOUS
<1>0. TypeOK /\ RequestProgress
  BY DEF CacheInvariant
<1>1. ASSUME NEW offset \in Block, NEW n \in Block,
             NEW op \in {"read", "write"}, NEW d \in [0 .. n - 1 -> Data],
             StartTransfer(op, offset, n, d)
      PROVE  TypeOK'
  <2>1. req' \in Store!Request
    <3>1. req' = [op |-> op, offset |-> offset, sectors |-> n]
      BY <1>1 DEF StartTransfer
    <3> QED
      BY <3>1 DEF Store!Request, Block
  <2>2. req'.sectors = n /\ data' = d
    BY <1>1 DEF StartTransfer
  <2>3. block_offset' \in Nat /\ remain' \in Nat /\ actual' \in Nat
    BY <1>1, ConstantTypes DEF StartTransfer
  <2> QED
    BY <1>0, <1>1, <2>1, <2>2, <2>3 DEF TypeOK, StartTransfer, cacheVars
<1>2. CASE StartSync
  <2>1. req' \in Store!Request /\ req'.sectors = req.sectors
    BY <1>0, <1>2 DEF StartSync, Store!Request, RequestProgress, Store!NoRequest
  <2>2. unsynced' \in SUBSET Block
    BY <1>2 DEF StartSync
  <2> QED
    BY <1>0, <1>2, <2>1, <2>2 DEF TypeOK, StartSync
<1>3. CASE CopyWithinTrack
  <2>1. remain \in Nat /\ remain <= ToTrackEnd /\ pc = "loop" /\ Copy(remain)
    BY <1>0, <1>3 DEF CopyWithinTrack, TypeOK
  <2>2. /\ CacheFlag' \in {"CLEAN", "DIRTY", "INVALID"} /\ CacheBuffer' \in [Slot -> Data]
        /\ data' \in [0 .. req.sectors - 1 -> Data] /\ content' \in [Block -> Data]
    BY <1>0, <2>1, CopyType
  <2> QED
    BY <1>0, <1>3, <2>2 DEF TypeOK, CopyWithinTrack, Finish
<1>4. CASE CopyToTrackEnd
  <2>1. ToTrackEnd \in Nat /\ ToTrackEnd <= remain /\ pc = "loop" /\ Copy(ToTrackEnd)
        /\ ToTrackEnd < remain /\ remain \in Nat /\ actual \in Nat
    BY <1>0, <1>4, LoopFacts DEF CopyToTrackEnd, TypeOK
  <2>2. /\ CacheFlag' \in {"CLEAN", "DIRTY", "INVALID"} /\ CacheBuffer' \in [Slot -> Data]
        /\ data' \in [0 .. req.sectors - 1 -> Data] /\ content' \in [Block -> Data]
    BY <1>0, <2>1, CopyType
  <2>3. block_offset' \in Nat /\ remain' \in Nat /\ actual' \in Nat
    BY <1>0, <1>4, <2>1, NextTrackPosition DEF CopyToTrackEnd
  <2> QED
    BY <1>0, <1>4, <2>2, <2>3 DEF TypeOK, CopyToTrackEnd, NextTrack
<1>5. CASE WriteBack
  BY <1>0, <1>5 DEF TypeOK, WriteBack, loopVars
<1>6. CASE FillWholeTrack
  <2>1. /\ pc = "loop" /\ CopyIn(CacheNumBlocks) /\ req.op = "write"
        /\ SectorOf(block_offset) = 0 /\ CacheNumBlocks <= remain
    BY <1>6 DEF FillWholeTrack, CoversTrack
  <2>2. ToTrackEnd = CacheNumBlocks /\ CacheNumBlocks \in Nat /\ remain \in Nat /\ actual \in Nat
    BY <1>0, <2>1, LoopFacts, GeometryAssumption
  <2>3. /\ CacheFlag' \in {"CLEAN", "DIRTY", "INVALID"} /\ CacheBuffer' \in [Slot -> Data]
        /\ data' \in [0 .. req.sectors - 1 -> Data] /\ content' \in [Block -> Data]
    BY <1>0, <2>1, <2>2, CopyType DEF Copy
  <2>4. CacheNum' \in Track
    BY <1>0, <1>6, <2>1, LoopFacts DEF FillWholeTrack
  <2>5. CASE remain = CacheNumBlocks
    BY <1>0, <1>6, <2>2, <2>3, <2>4, <2>5 DEF TypeOK, FillWholeTrack, Finish
  <2>6. CASE remain # CacheNumBlocks
    <3>1. ToTrackEnd < remain
      BY <2>1, <2>2, <2>6
    <3>2. NextTrack(CacheNumBlocks)
      BY <1>6, <2>6 DEF FillWholeTrack
    <3>3. block_offset' \in Nat /\ remain' \in Nat /\ actual' \in Nat
      BY <1>0, <2>1, <2>2, <3>1, <3>2, NextTrackPosition
    <3> QED
      BY <1>0, <1>6, <2>3, <2>4, <3>2, <3>3 DEF TypeOK, FillWholeTrack, NextTrack
  <2> QED
    BY <2>5, <2>6
<1>7. CASE ReadTrack
  <2>1. TrackOf(block_offset) \in Track
    BY <1>0, <1>7, LoopFacts DEF ReadTrack
  <2> QED
    BY <1>0, <1>7, <2>1 DEF TypeOK, ReadTrack, loopVars
<1>8. CASE CallbackReturns
  <2>1. NoXfer \in [track : Track, left : SUBSET Slot]
    BY ConstantTypes DEF NoXfer
  <2> QED
    BY <1>0, <1>8, <2>1
    DEF TypeOK, CallbackReturns, ReadCallbackReturns, WriteCallbackReturns,
        SyncCallbackReturns, loopVars, cacheVars
<1>9. CASE Return
  <2>1. data' \in [0 .. req'.sectors - 1 -> Data]
    BY <1>9 DEF Return, Store!NoRequest
  <2> QED
    BY <1>0, <1>9, <2>1 DEF TypeOK, Return, cacheVars
<1>10. ASSUME NEW s \in Slot, NEW again \in BOOLEAN, SourceReads(s, again) PROVE TypeOK'
  <2>1. PICK v \in Data : /\ CacheBuffer' = [CacheBuffer EXCEPT ![s] = v]
                         /\ Fetched(BlockAt(xfer.track, s), v)
    BY <1>10 DEF SourceReads
  <2>2. CacheBuffer' \in [Slot -> Data] /\ disk' \in [Block -> Data] /\ content' \in [Block -> Data]
    BY <1>0, <2>1 DEF TypeOK, Fetched
  <2>3. xfer' \in [track : Track, left : SUBSET Slot]
    BY <1>0, <1>10 DEF TypeOK, SourceReads
  <2> QED
    BY <1>0, <1>10, <2>2, <2>3 DEF TypeOK, SourceReads, loopVars
<1>11. ASSUME NEW s \in Slot, NEW again \in BOOLEAN, SourceWrites(s, again) PROVE TypeOK'
  <2>1. disk' \in [Block -> Data]
    BY <1>0, <1>11 DEF TypeOK, SourceWrites
  <2>2. xfer' \in [track : Track, left : SUBSET Slot]
    BY <1>0, <1>11 DEF TypeOK, SourceWrites
  <2>3. unsynced' \in SUBSET Block
    BY <1>0, <1>11 DEF TypeOK, SourceWrites
  <2> QED
    BY <1>0, <1>11, <2>1, <2>2, <2>3 DEF TypeOK, SourceWrites, loopVars, cacheVars
<1>12. ASSUME NEW offset \in Block, NEW n \in Block,
              NEW d \in [0 .. n - 1 -> Data], QuickWrite(offset, n, d)
       PROVE  TypeOK'
  <2>1. n \in Nat /\ SectorOf(offset) \in Nat /\ 0 + n <= n
    <3>1. n \in Nat /\ SectorOf(offset) \in Nat
      BY TrackSector, ConstantTypes
    <3> QED
      BY <3>1
  <2>2. Copied(SectorOf(offset), n, d, 0) \in [Slot -> Data]
    BY <1>0, <2>1, CopiedType
  <2>3. Store!Put(content, offset, n, d, 0) \in [Block -> Data]
    <3>1. content \in [Block -> Data]
      BY <1>0 DEF TypeOK
    <3> QED
      BY <2>1, <3>1, PutType
  <2>4. unsynced' \in SUBSET Block
    BY <1>0, <1>12 DEF TypeOK, QuickWrite
  <2> QED
    BY <1>0, <1>12, <2>2, <2>3, <2>4 DEF TypeOK, QuickWrite, loopVars
<1>13. CASE Discard
  BY <1>0, <1>13 DEF TypeOK, Discard, loopVars
<1>14. CASE UNCHANGED vars
  BY <1>0, <1>14 DEF TypeOK, vars, cacheVars, loopVars
<1>15. ASSUME NEW offset \in Block, NEW n \in Block
       PROVE  [j \in 0 .. n - 1 |-> Zero] \in [0 .. n - 1 -> Data]
  BY ZeroAssumption
<1> QED
  BY <1>1, <1>2, <1>3, <1>4, <1>5, <1>6, <1>7, <1>8, <1>9, <1>10, <1>11, <1>12, <1>13,
     <1>14, <1>15 DEF Next, Start, Loop, Source, ClientWrites

LEMMA RequestStep == CacheInvariant /\ [Next]_vars => RequestProgress'
<1> SUFFICES ASSUME CacheInvariant, [Next]_vars PROVE RequestProgress'
  OBVIOUS
<1>0. TypeOK /\ RequestProgress
  BY DEF CacheInvariant
<1>1. ASSUME NEW offset \in Block, NEW n \in Block,
             NEW op \in {"read", "write"}, NEW d, StartTransfer(op, offset, n, d)
      PROVE  RequestProgress'
  <2>1. offset \in Nat /\ n \in Int
    BY ConstantTypes
  <2>2. offset = Store!At(offset, 0) /\ n = n - 0
    BY <2>1, ConstantTypes DEF Store!At, Block, Store!Block
  <2> QED
    BY <1>1, <2>2 DEF StartTransfer, RequestProgress, Store!NoRequest, Idle
<1>2. CASE StartSync
  BY <1>0, <1>2 DEF StartSync, RequestProgress, Store!NoRequest, Idle
<1>3. CASE CopyWithinTrack
  <2>1. actual' = req.sectors
    BY <1>0, <1>3, LoopFacts DEF CopyWithinTrack, Finish
  <2> QED
    BY <1>0, <1>3, <2>1 DEF RequestProgress, CopyWithinTrack, Finish, Idle
<1>4. CASE CopyToTrackEnd
  <2>1. ToTrackEnd < remain /\ pc = "loop" /\ NextTrack(ToTrackEnd)
    BY <1>0, <1>4, LoopFacts DEF CopyToTrackEnd
  <2>2. /\ block_offset' \in Block /\ block_offset' = Store!At(req.offset, actual')
        /\ remain' = req.sectors - actual'
    BY <1>0, <2>1, NextTrackPosition
  <2> QED
    BY <1>0, <1>4, <2>2 DEF RequestProgress, CopyToTrackEnd, NextTrack, Idle
<1>5. CASE WriteBack
  BY <1>0, <1>5 DEF RequestProgress, WriteBack, loopVars, Idle
<1>6. CASE FillWholeTrack
  <2>1. /\ pc = "loop" /\ req.op = "write" /\ SectorOf(block_offset) = 0
        /\ CacheNumBlocks <= remain /\ req' = req
    BY <1>6 DEF FillWholeTrack, CoversTrack
  <2>2. ToTrackEnd = CacheNumBlocks
    BY <1>0, <2>1, LoopFacts, GeometryAssumption
  <2>3. CASE remain = CacheNumBlocks
    <3>1. Finish(remain)
      BY <1>6, <2>3 DEF FillWholeTrack
    <3>2. actual' = req.sectors
      BY <1>0, <2>1, <3>1, LoopFacts DEF Finish
    <3> QED
      BY <1>0, <2>1, <3>1, <3>2 DEF RequestProgress, Finish, Idle
  <2>4. CASE remain # CacheNumBlocks
    <3>1. NextTrack(ToTrackEnd) /\ ToTrackEnd < remain
      BY <1>0, <1>6, <2>1, <2>2, <2>4, LoopFacts DEF FillWholeTrack
    <3>2. /\ block_offset' \in Block /\ block_offset' = Store!At(req.offset, actual')
          /\ remain' = req.sectors - actual'
      BY <1>0, <2>1, <3>1, NextTrackPosition
    <3> QED
      BY <1>0, <2>1, <3>1, <3>2 DEF RequestProgress, NextTrack, Idle
  <2> QED
    BY <2>3, <2>4
<1>7. CASE ReadTrack
  BY <1>0, <1>7 DEF RequestProgress, ReadTrack, loopVars, Idle
<1>8. CASE CallbackReturns
  BY <1>0, <1>8
  DEF RequestProgress, CallbackReturns, ReadCallbackReturns, WriteCallbackReturns,
      SyncCallbackReturns, loopVars, Idle
<1>9. CASE Return
  BY <1>0, <1>9 DEF RequestProgress, Return, Store!NoRequest, Idle
<1>10. ASSUME NEW s \in Slot, NEW again \in BOOLEAN,
        SourceReads(s, again) \/ SourceWrites(s, again) PROVE RequestProgress'
  BY <1>0, <1>10 DEF RequestProgress, SourceReads, SourceWrites, loopVars, Idle
<1>11. ASSUME NEW offset, NEW n, NEW d, QuickWrite(offset, n, d) PROVE RequestProgress'
  BY <1>0, <1>11 DEF RequestProgress, QuickWrite, loopVars, Idle
<1>12. CASE Discard
  BY <1>0, <1>12 DEF RequestProgress, Discard, loopVars, Idle
<1>13. CASE UNCHANGED vars
  BY <1>0, <1>13 DEF RequestProgress, vars, loopVars, Idle
<1> QED
  BY <1>1, <1>2, <1>3, <1>4, <1>5, <1>6, <1>7, <1>8, <1>9, <1>10, <1>11, <1>12, <1>13
  DEF Next, Start, Loop, Source, ClientWrites

-----------------------------------------------------------------------------
(* Coherence.                                                              *)

(* A copy of n blocks into the cached track keeps coherence, whoever makes *)
(* it and whatever callback the worker is in: quick writes and the loop's  *)
(* copies are both of this form.                                           *)
LEMMA WriteKeepsCoherence ==
  ASSUME CacheInvariant,
         NEW offset \in Block, NEW n \in Nat, n <= CacheNumBlocks - SectorOf(offset),
         NEW d, NEW i \in Nat,
         CacheHit(offset, n),
         CacheBuffer' = Copied(SectorOf(offset), n, d, i),
         content' = Store!Put(content, offset, n, d, i),
         CacheFlag' = "DIRTY",
         UNCHANGED <<CacheNum, disk, xfer>>,
         WritingBack' = WritingBack
  PROVE  Coherence'
<1>1. CacheFlag # "INVALID" /\ TrackOf(offset) = CacheNum
  BY DEF CacheHit
<1>2. ASSUME NEW b \in Block
      PROVE  /\ Cached(b)' \/ InFlight(b)' => CacheBuffer'[SectorOf(b)] = content'[b]
             /\ ~InFlight(b)' /\ (Cached(b)' => CacheFlag' = "CLEAN") => disk'[b] = content'[b]
  <2>1. Cached(b)' = Cached(b) /\ InFlight(b)' = InFlight(b)
    BY <1>1 DEF Cached, InFlight, WritingBack
  <2>2. /\ TrackOf(b) # CacheNum => content'[b] = content[b]
        /\ TrackOf(b) = CacheNum =>
             \/ CacheBuffer'[SectorOf(b)] = content'[b]
             \/ CacheBuffer'[SectorOf(b)] = CacheBuffer[SectorOf(b)] /\ content'[b] = content[b]
    BY <1>1, CopyMeetsContent
  <2>3. InFlight(b) => TrackOf(b) = CacheNum
    BY DEF InFlight, WritingBack, CacheInvariant, CallbackProgress
  <2>4. /\ Cached(b) \/ InFlight(b) => CacheBuffer[SectorOf(b)] = content[b]
        /\ ~InFlight(b) /\ (Cached(b) => CacheFlag = "CLEAN") => disk[b] = content[b]
    BY DEF CacheInvariant, Coherence
  <2> QED
    BY <1>1, <2>1, <2>2, <2>3, <2>4 DEF Cached
<1> QED
  BY <1>2 DEF Coherence

(* When the cache is not dirty and nothing is being written back, the disk *)
(* alone holds the content of every block.                                 *)
LEMMA NotDirtySaved ==
  ASSUME CacheInvariant, ~WritingBack, ~CacheDirty
  PROVE  \A b \in Block : disk[b] = content[b]
BY DEF CacheInvariant, Coherence, TypeOK, InFlight, Cached, CacheDirty

LEMMA FillWholeTrackKeepsCoherence ==
  ASSUME CacheInvariant, FillWholeTrack
  PROVE  Coherence'
<1>0. /\ pc = "loop" /\ CopyIn(CacheNumBlocks) /\ SectorOf(block_offset) = 0
      /\ CacheNum' = TrackOf(block_offset) /\ UNCHANGED <<disk, xfer>>
      /\ pc' \in {"loop", "done"} /\ ~CacheDirty
      /\ block_offset = Store!At(req.offset, actual) /\ block_offset \in Block /\ actual \in Nat
  BY DEF FillWholeTrack, CoversTrack, Finish, NextTrack, CacheInvariant, RequestProgress, TypeOK
<1>1. \A b \in Block : disk[b] = content[b]
  BY <1>0, NotDirtySaved DEF WritingBack
<1>2. /\ CacheBuffer' = Copied(SectorOf(block_offset), CacheNumBlocks, data, actual)
      /\ content' = Store!Put(content, block_offset, CacheNumBlocks, data, actual)
      /\ CacheFlag' = "DIRTY"
  BY <1>0 DEF CopyIn
<1>3. CacheNumBlocks \in Nat /\ CacheNumBlocks <= CacheNumBlocks - SectorOf(block_offset)
  BY <1>0, GeometryAssumption
<1>4. ASSUME NEW b \in Block
      PROVE  /\ Cached(b)' \/ InFlight(b)' => CacheBuffer'[SectorOf(b)] = content'[b]
             /\ ~InFlight(b)' /\ (Cached(b)' => CacheFlag' = "CLEAN") => disk'[b] = content'[b]
  <2>1. ~InFlight(b)' /\ (Cached(b)' <=> TrackOf(b) = TrackOf(block_offset))
    BY <1>0, <1>2 DEF InFlight, WritingBack, Cached
  <2>2. /\ TrackOf(b) # TrackOf(block_offset) => content'[b] = content[b]
        /\ TrackOf(b) = TrackOf(block_offset) /\ b \in Store!Run(block_offset, CacheNumBlocks)
             => CacheBuffer'[SectorOf(b)] = content'[b]
    BY <1>0, <1>2, <1>3, CopyMeetsContent
  <2>3. TrackOf(b) = TrackOf(block_offset) => b \in Store!Run(block_offset, CacheNumBlocks)
    <3>1. SectorOf(b) \in 0 .. CacheNumBlocks - 1
      BY TrackSector DEF Slot
    <3> QED
      BY <1>0, <1>3, <3>1, RunInTrack, GeometryAssumption
  <2> QED
    BY <1>0, <1>1, <1>2, <2>1, <2>2, <2>3
<1> QED
  BY <1>4 DEF Coherence

(* What a fill does not read from the disk is off it: the store has        *)
(* nothing there that was saved, so it takes whatever is read. Nothing     *)
(* else changes, and the sector read holds the content afterwards.         *)
LEMMA SourceReadsEffect ==
  ASSUME CacheInvariant, NEW s \in Slot, NEW again \in BOOLEAN, SourceReads(s, again)
  PROVE  LET c == BlockAt(CacheNum, s)
         IN  /\ pc = "reading" /\ CacheFlag = "INVALID" /\ xfer.track = CacheNum
             /\ c \in Block /\ TrackOf(c) = CacheNum /\ SectorOf(c) = s
             /\ \A b \in Block : disk[b] = content[b] /\ disk'[b] = content'[b]
             /\ \A b \in Block \ {c} : content'[b] = content[b]
             /\ CacheBuffer' = [CacheBuffer EXCEPT ![s] = content'[c]]
             /\ \/ UNCHANGED <<disk, content>>
                \/ \E v \in Data : /\ c >= DiskBlocks
                                  /\ disk' = [disk EXCEPT ![c] = v]
                                  /\ content' = [content EXCEPT ![c] = v]
<1> DEFINE c == BlockAt(CacheNum, s)
<1>1. /\ pc = "reading" /\ CacheFlag = "INVALID" /\ xfer.track = CacheNum /\ CacheNum \in Track
      /\ disk \in [Block -> Data] /\ content \in [Block -> Data]
  BY DEF SourceReads, CacheInvariant, CallbackProgress, TypeOK
<1>2. c \in Block /\ TrackOf(c) = CacheNum /\ SectorOf(c) = s
  BY <1>1, BlockAtTrack
<1>3. \A b \in Block : disk[b] = content[b]
  BY <1>1, NotDirtySaved DEF WritingBack, CacheDirty
<1>4. PICK v \in Data : CacheBuffer' = [CacheBuffer EXCEPT ![s] = v] /\ Fetched(c, v)
  BY <1>1 DEF SourceReads
<1>5. DiskBlocks \in Int /\ c \in Int
  <2>1. DiskBlocks \in Int
    BY GeometryAssumption DEF DiskBlocks
  <2>2. c \in Nat
    BY <1>2, ConstantTypes
  <2> QED
    BY <2>1, <2>2
<1> HIDE DEF c
<1>6. CASE c < DiskBlocks
  BY <1>1, <1>2, <1>3, <1>4, <1>6 DEF Fetched, c
<1>7. CASE ~(c < DiskBlocks)
  <2>1. c >= DiskBlocks
    BY <1>5, <1>7
  <2>2. disk' = [disk EXCEPT ![c] = v] /\ content' = [content EXCEPT ![c] = v]
    BY <1>4, <1>7 DEF Fetched
  <2>3. content'[c] = v /\ \A b \in Block : disk'[b] = content'[b]
    BY <1>1, <1>2, <1>3, <2>2
  <2>4. \A b \in Block \ {c} : content'[b] = content[b]
    BY <1>1, <2>2
  <2> QED
    BY <1>1, <1>2, <1>3, <1>4, <2>1, <2>2, <2>3, <2>4 DEF c
<1> QED
  BY <1>6, <1>7

LEMMA CoherenceStep == CacheInvariant /\ [Next]_vars => Coherence'
<1> SUFFICES ASSUME CacheInvariant, [Next]_vars PROVE Coherence'
  OBVIOUS
<1>0. TypeOK /\ Coherence /\ RequestProgress /\ CallbackProgress
  BY DEF CacheInvariant
<1>1. ASSUME NEW offset, NEW n, NEW op, NEW d, StartTransfer(op, offset, n, d)
      PROVE  Coherence'
  BY <1>0, <1>1 DEF StartTransfer, Coherence, Cached, InFlight, WritingBack, Idle, cacheVars
<1>2. CASE StartSync
  <2>1. CASE CacheDirty
    <3>1. \A b \in Block : ~InFlight(b)
      BY <1>2 DEF StartSync, Idle, InFlight, WritingBack
    <3>2. \A b \in Block : InFlight(b)' <=> TrackOf(b) = CacheNum
      BY <1>2, <2>1, TrackSector DEF StartSync, InFlight, WritingBack
    <3>3. \A b \in Block : Cached(b)' <=> TrackOf(b) = CacheNum
      BY <1>2, <2>1 DEF StartSync, Cached
    <3>4. UNCHANGED <<CacheBuffer, disk, content>> /\ CacheFlag = "DIRTY"
      BY <1>2, <2>1 DEF StartSync, CacheDirty
    <3> QED
      BY <1>0, <3>1, <3>2, <3>3, <3>4 DEF Coherence, Cached
  <2>2. CASE ~CacheDirty
    BY <1>0, <1>2, <2>2 DEF StartSync, Coherence, Cached, InFlight, WritingBack, Idle
  <2> QED
    BY <2>1, <2>2
<1>3. CASE CopyWithinTrack \/ CopyToTrackEnd
  <2>1. /\ pc = "loop" /\ pc' \in {"loop", "done"} /\ InCache /\ UNCHANGED <<CacheNum, disk, xfer>>
        /\ \E k \in {remain, ToTrackEnd} : k <= ToTrackEnd /\ Copy(k)
    BY <1>0, <1>3, LoopFacts DEF CopyWithinTrack, CopyToTrackEnd, Finish, NextTrack
  <2>2. PICK k \in {remain, ToTrackEnd} : k <= ToTrackEnd /\ Copy(k)
    BY <2>1
  <2>3. CASE CopyOut(k)
    BY <1>0, <2>1, <2>3 DEF CopyOut, Coherence, Cached, InFlight, WritingBack
  <2>4. CASE CopyIn(k)
    <3>1. /\ k \in Nat /\ actual \in Nat /\ block_offset \in Block
          /\ k <= CacheNumBlocks - SectorOf(block_offset)
          /\ block_offset = Store!At(req.offset, actual)
      BY <1>0, <2>1, <2>2, LoopFacts DEF RequestProgress
    <3>2. CacheHit(block_offset, k)
      BY <2>1, <3>1 DEF CacheHit, InCache
    <3>3. WritingBack' = WritingBack
      BY <2>1 DEF WritingBack
    <3>4. /\ CacheBuffer' = Copied(SectorOf(block_offset), k, data, actual)
          /\ content' = Store!Put(content, block_offset, k, data, actual)
          /\ CacheFlag' = "DIRTY"
      BY <2>4, <3>1 DEF CopyIn
    <3> QED
      BY <2>1, <3>1, <3>2, <3>3, <3>4, WriteKeepsCoherence
  <2> QED
    BY <2>2, <2>3, <2>4 DEF Copy
<1>4. CASE WriteBack
  <2>1. \A b \in Block : ~InFlight(b)
    BY <1>4 DEF WriteBack, InFlight, WritingBack
  <2>2. \A b \in Block : (InFlight(b)' <=> TrackOf(b) = CacheNum) /\ (Cached(b)' <=> TrackOf(b) = CacheNum)
    BY <1>4, TrackSector DEF WriteBack, InFlight, WritingBack, Cached
  <2> QED
    BY <1>0, <1>4, <2>1, <2>2 DEF WriteBack, Coherence, Cached, CacheDirty
<1>5. CASE FillWholeTrack
  BY <1>5, FillWholeTrackKeepsCoherence
<1>6. CASE ReadTrack
  <2>1. \A b \in Block : disk[b] = content[b]
    BY <1>6, NotDirtySaved DEF ReadTrack, WritingBack
  <2> QED
    BY <1>6, <2>1 DEF ReadTrack, Coherence, Cached, InFlight, WritingBack
<1>7. CASE ReadCallbackReturns
  <2>1. \A b \in Block : disk[b] = content[b]
    BY <1>0, <1>7, NotDirtySaved DEF ReadCallbackReturns, WritingBack, CallbackProgress, CacheDirty
  <2>2. \A b \in Block : TrackOf(b) = CacheNum => CacheBuffer[SectorOf(b)] = content[b]
    <3>1. \A s \in Slot : CacheBuffer[s] = content[BlockAt(CacheNum, s)]
      BY <1>0, <1>7 DEF ReadCallbackReturns, CallbackProgress
    <3> QED
      BY <3>1, TrackSector
  <2> QED
    BY <1>7, <2>1, <2>2 DEF ReadCallbackReturns, Coherence, Cached, InFlight, WritingBack
<1>8. CASE WriteCallbackReturns \/ SyncCallbackReturns
  <2>1. \A b \in Block : ~InFlight(b) /\ ~InFlight(b)'
    BY <1>8 DEF WriteCallbackReturns, SyncCallbackReturns, InFlight, WritingBack
  <2> QED
    BY <1>0, <1>8, <2>1 DEF WriteCallbackReturns, SyncCallbackReturns, Coherence, Cached, cacheVars
<1>9. CASE Return
  BY <1>0, <1>9 DEF Return, Coherence, Cached, InFlight, WritingBack, cacheVars
<1>10. ASSUME NEW s \in Slot, NEW again \in BOOLEAN, SourceReads(s, again) PROVE Coherence'
  <2>1. pc' = "reading" /\ CacheFlag' = "INVALID" /\ \A b \in Block : disk'[b] = content'[b]
    BY <1>10, SourceReadsEffect DEF SourceReads
  <2> QED
    BY <2>1 DEF Coherence, Cached, InFlight, WritingBack
<1>11. ASSUME NEW s \in Slot, NEW again \in BOOLEAN, SourceWrites(s, again) PROVE Coherence'
  <2>1. xfer.track = CacheNum /\ CacheNum \in Track /\ BlockAt(CacheNum, s) \in Block
    BY <1>0, <1>11, BlockAtTrack DEF SourceWrites, WritingBack, CallbackProgress, TypeOK
  <2>2. ASSUME NEW b \in Block
        PROVE  /\ Cached(b)' \/ InFlight(b)' => CacheBuffer'[SectorOf(b)] = content'[b]
               /\ ~InFlight(b)' /\ (Cached(b)' => CacheFlag' = "CLEAN") => disk'[b] = content'[b]
    <3>1. Cached(b)' = Cached(b) /\ InFlight(b)' = (InFlight(b) /\ (again \/ SectorOf(b) # s))
      BY <1>0, <1>11, <2>1 DEF SourceWrites, Cached, InFlight, WritingBack, cacheVars, TypeOK
    <3>2. CASE b = BlockAt(CacheNum, s)
      <4>1. TrackOf(b) = CacheNum /\ SectorOf(b) = s /\ disk'[b] = CacheBuffer[s] /\ InFlight(b)
        BY <1>0, <1>11, <2>1, <3>2, BlockAtTrack DEF SourceWrites, TypeOK, InFlight
      <4> QED
        BY <1>0, <1>11, <3>1, <4>1 DEF SourceWrites, Coherence, cacheVars
    <3>3. CASE b # BlockAt(CacheNum, s)
      <4>1. disk'[b] = disk[b]
        BY <1>0, <1>11, <2>1, <3>3 DEF SourceWrites, TypeOK
      <4>2. InFlight(b)' = InFlight(b)
        BY <2>1, <3>1, <3>3, TrackSector DEF InFlight
      <4> QED
        BY <1>0, <1>11, <3>1, <4>1, <4>2 DEF SourceWrites, Coherence, cacheVars
    <3> QED
      BY <3>2, <3>3
  <2> QED
    BY <2>2 DEF Coherence
<1>12. ASSUME NEW offset \in Block, NEW n \in Block, NEW d, QuickWrite(offset, n, d)
       PROVE  Coherence'
  <2>1. n \in Nat
    BY ConstantTypes
  <2>2. n <= CacheNumBlocks - SectorOf(offset) /\ CacheHit(offset, n)
    BY <1>12 DEF QuickWrite, CacheHit
  <2>3. WritingBack' = WritingBack /\ UNCHANGED <<CacheNum, disk, xfer>>
    BY <1>12 DEF QuickWrite, WritingBack
  <2>4. /\ CacheBuffer' = Copied(SectorOf(offset), n, d, 0)
        /\ content' = Store!Put(content, offset, n, d, 0)
        /\ CacheFlag' = "DIRTY"
    BY <1>12 DEF QuickWrite
  <2> QED
    BY <2>1, <2>2, <2>3, <2>4, WriteKeepsCoherence
<1>13. CASE Discard
  <2>1. \A b \in Block : ~Cached(b)' /\ InFlight(b)' = InFlight(b)
    BY <1>13 DEF Discard, Cached, InFlight, WritingBack
  <2> QED
    BY <1>0, <1>13, <2>1 DEF Discard, Coherence
<1>14. CASE UNCHANGED vars
  BY <1>0, <1>14 DEF vars, cacheVars, Coherence, Cached, InFlight, WritingBack
<1> QED
  BY <1>1, <1>2, <1>3, <1>4, <1>5, <1>6, <1>7, <1>8, <1>9, <1>10, <1>11, <1>12, <1>13, <1>14
  DEF Next, Start, Loop, Source, ClientWrites, CallbackReturns

-----------------------------------------------------------------------------
(* The running callback.                                                   *)

LEMMA CallbackStep == CacheInvariant /\ [Next]_vars => CallbackProgress'
<1> SUFFICES ASSUME CacheInvariant, [Next]_vars PROVE CallbackProgress'
  OBVIOUS
<1>0. TypeOK /\ Coherence /\ RequestProgress /\ CallbackProgress
  BY DEF CacheInvariant
<1>1. ASSUME NEW offset, NEW n, NEW op, NEW d, StartTransfer(op, offset, n, d)
      PROVE  CallbackProgress'
  BY <1>0, <1>1 DEF StartTransfer, CallbackProgress, Idle
<1>2. CASE StartSync
  <2>1. CASE CacheDirty
    <3>1. \A b \in Block : InFlight(b)' <=> TrackOf(b) = CacheNum
      BY <1>2, <2>1, TrackSector DEF StartSync, InFlight, WritingBack
    <3>2. \A b \in Block : content[b] # disk[b] => TrackOf(b) = CacheNum
      BY <1>0, <1>2 DEF StartSync, Idle, Coherence, Cached, InFlight, WritingBack
    <3>3. /\ pc' = "syncing" /\ xfer'.track = CacheNum /\ CacheNum' = CacheNum
          /\ unsynced' = { b \in Block : content[b] # disk[b] }
      BY <1>2, <2>1 DEF StartSync
    <3> QED
      BY <3>1, <3>2, <3>3 DEF CallbackProgress
  <2>2. CASE ~CacheDirty
    <3>1. \A b \in Block : disk[b] = content[b]
      BY <1>2, <2>2, NotDirtySaved DEF StartSync, Idle, WritingBack
    <3> QED
      BY <1>2, <2>2, <3>1 DEF StartSync, CallbackProgress
  <2> QED
    BY <2>1, <2>2
<1>3. CASE CopyWithinTrack \/ CopyToTrackEnd \/ FillWholeTrack
  BY <1>0, <1>3
  DEF CopyWithinTrack, CopyToTrackEnd, FillWholeTrack, Finish, NextTrack, CallbackProgress
<1>4. CASE WriteBack
  BY <1>0, <1>4 DEF WriteBack, CallbackProgress
<1>5. CASE ReadTrack
  BY <1>0, <1>5 DEF ReadTrack, CallbackProgress
<1>6. CASE ReadCallbackReturns \/ WriteCallbackReturns
  BY <1>0, <1>6 DEF ReadCallbackReturns, WriteCallbackReturns, CallbackProgress
<1>7. CASE SyncCallbackReturns
  <2>1. unsynced = {}
    BY <1>0, <1>7 DEF SyncCallbackReturns, CallbackProgress, InFlight, TypeOK
  <2> QED
    BY <1>7, <2>1 DEF SyncCallbackReturns, CallbackProgress
<1>8. CASE Return
  BY <1>0, <1>8 DEF Return, CallbackProgress
<1>9. ASSUME NEW s \in Slot, NEW again \in BOOLEAN, SourceReads(s, again) PROVE CallbackProgress'
  <2>1. xfer.track = CacheNum /\ CacheNum' = CacheNum /\ CacheFlag' = "INVALID"
        /\ pc = "reading" /\ pc' = "reading" /\ xfer'.track = CacheNum
        /\ xfer'.left \in {xfer.left, xfer.left \ {s}} /\ unsynced' = unsynced
    BY <1>0, <1>9 DEF SourceReads, CallbackProgress, TypeOK
  <2>2. /\ \A b \in Block \ {BlockAt(CacheNum, s)} : content'[b] = content[b]
        /\ CacheBuffer' = [CacheBuffer EXCEPT ![s] = content'[BlockAt(CacheNum, s)]]
    BY <1>9, SourceReadsEffect
  <2>3. CacheNum \in Track /\ CacheBuffer \in [Slot -> Data]
    BY <1>0 DEF TypeOK
  <2>4. ASSUME NEW z \in Slot \ xfer'.left
        PROVE  CacheBuffer'[z] = content'[BlockAt(CacheNum, z)]
    <3>1. CASE z = s
      BY <2>2, <2>3, <3>1
    <3>2. CASE z # s
      <4>1. BlockAt(CacheNum, z) \in Block /\ BlockAt(CacheNum, z) # BlockAt(CacheNum, s)
        BY <2>3, <3>2, BlockAtTrack
      <4>2. CacheBuffer[z] = content[BlockAt(CacheNum, z)]
        BY <1>0, <2>1, <2>4, <3>2 DEF CallbackProgress
      <4> QED
        BY <2>2, <2>3, <3>2, <4>1, <4>2
    <3> QED
      BY <3>1, <3>2
  <2>5. unsynced = {}
    BY <1>0, <2>1 DEF CallbackProgress
  <2> QED
    BY <2>1, <2>4, <2>5 DEF CallbackProgress
<1>10. ASSUME NEW s \in Slot, NEW again \in BOOLEAN, SourceWrites(s, again) PROVE CallbackProgress'
  <2>1. /\ xfer.track = CacheNum /\ CacheNum' = CacheNum /\ CacheNum \in Track
        /\ pc' = pc /\ pc # "reading" /\ xfer'.track = CacheNum
        /\ xfer'.left \in {xfer.left, xfer.left \ {s}} /\ unsynced' = unsynced \ {BlockAt(CacheNum, s)}
    BY <1>0, <1>10 DEF SourceWrites, WritingBack, CallbackProgress, TypeOK, cacheVars
  <2>2. ASSUME NEW b \in unsynced' PROVE pc' = "syncing" /\ InFlight(b)'
    <3>1. b \in Block /\ pc = "syncing" /\ InFlight(b) /\ b # BlockAt(CacheNum, s)
      BY <1>0, <2>1, <2>2 DEF CallbackProgress, TypeOK
    <3>2. SectorOf(b) # s
      BY <2>1, <3>1, TrackSector DEF InFlight
    <3> QED
      BY <2>1, <3>1, <3>2 DEF InFlight, WritingBack
  <2> QED
    BY <2>1, <2>2 DEF CallbackProgress
<1>11. ASSUME NEW offset, NEW n, NEW d, QuickWrite(offset, n, d) PROVE CallbackProgress'
  <2>1. pc # "reading"
    BY <1>0, <1>11 DEF QuickWrite, CacheHit, CallbackProgress
  <2> QED
    BY <1>0, <1>11, <2>1 DEF QuickWrite, CallbackProgress, InFlight, WritingBack
<1>12. CASE Discard
  <2>1. ASSUME pc = "reading", NEW s \in Slot
        PROVE  content'[BlockAt(CacheNum, s)] = content[BlockAt(CacheNum, s)]
    <3>1. BlockAt(CacheNum, s) \in Block
      BY <1>0, BlockAtTrack DEF TypeOK
    <3> QED
      BY <1>0, <1>12, <2>1, <3>1 DEF Discard, Cached, CallbackProgress
  <2> QED
    BY <1>0, <1>12, <2>1 DEF Discard, CallbackProgress, InFlight, WritingBack
<1>13. CASE UNCHANGED vars
  BY <1>0, <1>13 DEF vars, cacheVars, CallbackProgress, InFlight, WritingBack
<1> QED
  BY <1>1, <1>2, <1>3, <1>4, <1>5, <1>6, <1>7, <1>8, <1>9, <1>10, <1>11, <1>12, <1>13
  DEF Next, Start, Loop, Source, ClientWrites, CallbackReturns

-----------------------------------------------------------------------------
(* Whatever the worker and the clients do, in any interleaving at the      *)
(* callbacks' waits, the inductive invariant of cache.library holds.       *)
THEOREM Invariance == Spec => []CacheInvariant
<1>1. Init => CacheInvariant
  BY InitInvariant
<1>2. CacheInvariant /\ [Next]_vars => CacheInvariant'
  BY TypeStep, CoherenceStep, RequestStep, CallbackStep DEF CacheInvariant
<1> QED
  BY <1>1, <1>2, PTL DEF Spec

(* The variables of cache.library and of its callers keep their types.     *)
THEOREM TypeCorrectness == Spec => []TypeOK
<1>1. CacheInvariant => TypeOK
  BY DEF CacheInvariant
<1> QED
  BY <1>1, Invariance, PTL

(* Every block's content is where the code looks for it: cache_Read,       *)
(* cache_Write, cache_Discard and cache_Sync keep the buffer and the disk  *)
(* coherent although clients dirty or discard it during a callback.        *)
THEOREM CoherenceHolds == Spec => []Coherence
<1>1. CacheInvariant => Coherence
  BY DEF CacheInvariant
<1> QED
  BY <1>1, Invariance, PTL

(* What VirtioBlkUpdate concludes from CacheDirty() is right, though the   *)
(* cache is called clean before its data is saved: a block the disk does   *)
(* not have yet while the cache is not dirty is in the running write-back, *)
(* and it does not leave the write-back but to the disk, whatever clients  *)
(* dirty or discard meanwhile. With the write-back's end it is saved.      *)
THEOREM CleanIsSaved == Spec => []OnItsWay /\ Lands
<1>1. CacheInvariant => OnItsWay
  BY DEF CacheInvariant, Coherence, OnItsWay, Cached, CacheDirty, TypeOK
<1>2. CacheInvariant /\ [Next]_vars => [\A b \in Block : InFlight(b) /\ ~InFlight(b)' => disk'[b] = content'[b]]_vars
  <2> SUFFICES ASSUME CacheInvariant, [Next]_vars, NEW b \in Block, InFlight(b), ~InFlight(b)'
               PROVE  disk'[b] = content'[b]
    OBVIOUS
  <2>1. xfer \in [track : Track, left : SUBSET Slot] /\ disk \in [Block -> Data]
        /\ xfer.track = CacheNum /\ CacheBuffer[SectorOf(b)] = content[b] /\ CacheNum \in Track
    BY DEF CacheInvariant, TypeOK, CallbackProgress, Coherence, InFlight, WritingBack
  <2>2. pc \in {"writing", "syncing"} /\ SectorOf(b) \in xfer.left /\ TrackOf(b) = xfer.track
    BY DEF InFlight, WritingBack
  <2>3. CASE Source
    <3>1. PICK s \in Slot, again \in BOOLEAN : SourceWrites(s, again)
      BY <2>2, <2>3 DEF Source, SourceReads
    <3>2. SectorOf(b) = s
      BY <2>1, <2>2, <3>1 DEF SourceWrites, InFlight, WritingBack
    <3>3. b = BlockAt(xfer.track, s)
      BY <2>2, <3>2, TrackSector
    <3> QED
      BY <2>1, <3>1, <3>2, <3>3 DEF SourceWrites
  <2>4. CASE ~Source
    <3>1. UNCHANGED <<pc, xfer>>
      BY <2>2, <2>4 DEF Next, Start, StartTransfer, StartSync, Idle, Loop, CopyWithinTrack, CopyToTrackEnd,
         WriteBack, FillWholeTrack, ReadTrack, CallbackReturns, ReadCallbackReturns, WriteCallbackReturns,
         SyncCallbackReturns, Return, ClientWrites, QuickWrite, Discard, vars
    <3> QED
      BY <2>2, <3>1 DEF InFlight, WritingBack
  <2> QED
    BY <2>3, <2>4
<1> QED
  BY <1>1, <1>2, Invariance, PTL DEF Spec, Lands

(* A request that cache_Hit accepts lies in the cached track as a whole,   *)
(* and the buffer answers it with the content of the blocks it names.      *)
THEOREM QuickReadIsRight == Spec => []QuickReadReturnsContent
<1>1. CacheInvariant => QuickReadReturnsContent
  <2> SUFFICES ASSUME CacheInvariant, NEW offset \in Block, NEW n \in Block,
                      CacheHit(offset, n), NEW i \in 0 .. n - 1
               PROVE  CacheBuffer[SectorOf(offset) + i] = content[Store!At(offset, i)]
    BY DEF QuickReadReturnsContent
  <2>1. n \in Nat /\ n <= CacheNumBlocks - SectorOf(offset)
        /\ TrackOf(offset) = CacheNum /\ CacheFlag # "INVALID"
    BY ConstantTypes DEF CacheHit
  <2> DEFINE c == Store!At(offset, i)
  <2>2. c \in Block /\ TrackOf(c) = TrackOf(offset) /\ SectorOf(c) = SectorOf(offset) + i
    BY <2>1, AtInTrack
  <2> HIDE DEF c
  <2>3. CacheBuffer[SectorOf(c)] = content[c]
    BY <2>1, <2>2 DEF CacheInvariant, Coherence, Cached
  <2> QED
    BY <2>2, <2>3 DEF c
<1> QED
  BY <1>1, Invariance, PTL

-----------------------------------------------------------------------------
(* Refinement of the block store.                                          *)

(* The blocks a read copies out of the buffer are those it asked for.      *)
LEMMA CopyOutReadsContent ==
  ASSUME CacheInvariant, pc = "loop", InCache,
         NEW k \in Nat, k <= ToTrackEnd, k <= remain,
         NEW i \in actual .. actual + k - 1
  PROVE  CacheBuffer[SectorOf(block_offset) + i - actual] = content[Store!At(req.offset, i)]
<1>1. TypeOK /\ Coherence /\ RequestProgress
  BY DEF CacheInvariant
<1>2. /\ req.offset \in Block /\ req.sectors \in Nat /\ actual \in Nat /\ remain \in Nat
      /\ SectorOf(block_offset) \in Nat
      /\ req.sectors < NumBlocks /\ actual + remain = req.sectors
      /\ k <= CacheNumBlocks - SectorOf(block_offset)
  BY <1>1, LoopFacts
<1>3. block_offset \in Block /\ block_offset = Store!At(req.offset, actual)
  BY <1>1 DEF RequestProgress
<1> DEFINE j == i - actual
           c == Store!At(block_offset, j)
<1>4. j \in 0 .. k - 1 /\ i = actual + j /\ actual + j <= NumBlocks
  BY <1>2, ConstantTypes
<1> HIDE DEF j
<1>5. c = Store!At(req.offset, i)
  BY <1>2, <1>3, <1>4, AtBlock
<1>6. c \in Block /\ TrackOf(c) = TrackOf(block_offset) /\ SectorOf(c) = SectorOf(block_offset) + j
  BY <1>2, <1>3, <1>4, AtInTrack
<1> HIDE DEF c
<1>7. CacheBuffer[SectorOf(c)] = content[c]
  BY <1>1, <1>6 DEF InCache, Coherence, Cached
<1>8. SectorOf(block_offset) + j = SectorOf(block_offset) + i - actual
  BY <1>2, <1>4
<1> QED
  BY <1>5, <1>6, <1>7, <1>8

LEMMA CopyRefines ==
  ASSUME CacheInvariant, pc = "loop", NEW k \in Nat, k <= ToTrackEnd, k <= remain,
         \/ InCache /\ CopyOut(k) /\ req.op = "read"
         \/ CopyIn(k) /\ req.op = "write",
         actual' = actual + k, UNCHANGED <<disk, req, unsynced>>
  PROVE  Store!Next
<1>1. k \in 0 .. req.sectors - actual
  <2>1. /\ actual + remain = req.sectors /\ req.sectors \in Nat
        /\ actual \in Nat /\ remain \in Nat
    BY LoopFacts DEF CacheInvariant
  <2> QED
    BY <2>1
<1>2. CASE InCache /\ CopyOut(k) /\ req.op = "read"
  <2>1. data' = [i \in DOMAIN data |->
                   IF i \in actual .. actual + k - 1 THEN content[Store!At(req.offset, i)] ELSE data[i]]
    BY <1>2, CopyOutReadsContent DEF CopyOut
  <2>2. Store!ReadSome(k)
    BY <1>2, <2>1 DEF CopyOut, Store!ReadSome
  <2> QED
    BY <1>1, <2>2 DEF Store!Next
<1>3. CASE CopyIn(k) /\ req.op = "write"
  <2>1. Store!WriteSome(k)
    BY <1>3 DEF CopyIn, Store!WriteSome
  <2> QED
    BY <1>1, <2>1 DEF Store!Next
<1> QED
  BY <1>2, <1>3

LEMMA StepRefines == CacheInvariant /\ [Next]_vars => [Store!Next]_(Store!vars)
<1> SUFFICES ASSUME CacheInvariant, [Next]_vars PROVE [Store!Next]_(Store!vars)
  OBVIOUS
<1>0. TypeOK /\ Coherence /\ RequestProgress /\ CallbackProgress /\ TypeOK'
  BY TypeStep DEF CacheInvariant
<1>1. ASSUME NEW offset \in Block, NEW n \in Block,
             NEW op \in {"read", "write"}, NEW d \in [0 .. n - 1 -> Data],
             StartTransfer(op, offset, n, d)
      PROVE  Store!Begin
  <2>1. req = Store!NoRequest /\ unsynced = {}
    BY <1>0, <1>1 DEF StartTransfer, Idle, RequestProgress, CallbackProgress
  <2>2. req'.op # "sync" /\ req'.op # "none"
    BY <1>1 DEF StartTransfer
  <2>3. req' \in Store!Request
    BY <1>0, <2>2 DEF TypeOK, Store!NoRequest
  <2>4. data' \in [0 .. req'.sectors - 1 -> Data]
    BY <1>0 DEF TypeOK
  <2> QED
    BY <1>1, <2>1, <2>2, <2>3, <2>4 DEF StartTransfer, Store!Begin
<1>2. CASE StartSync
  <2>1. req = Store!NoRequest /\ actual = req.sectors
    BY <1>0, <1>2 DEF StartSync, Idle, RequestProgress
  <2>2. req' \in Store!Request /\ req'.op = "sync"
    BY <1>2 DEF StartSync, Store!Request
  <2>3. data' \in [0 .. req'.sectors - 1 -> Data]
    BY <1>0 DEF TypeOK
  <2>4. actual' = 0
    BY <1>2, <2>1 DEF StartSync, Store!NoRequest
  <2>5. unsynced' = { b \in Store!Block : content[b] # disk[b] }
    BY <1>2 DEF StartSync, Block
  <2>6. UNCHANGED <<content, disk>>
    BY <1>2 DEF StartSync
  <2>7. Store!Begin
    BY <2>1, <2>2, <2>3, <2>4, <2>5, <2>6 DEF Store!Begin
  <2> QED
    BY <2>7 DEF Store!Next
<1>3. CASE CopyWithinTrack \/ CopyToTrackEnd
  <2>1. PICK k \in {remain, ToTrackEnd} : k \in Nat /\ k <= ToTrackEnd /\ k <= remain /\ Copy(k)
                                        /\ actual' = actual + k
    BY <1>0, <1>3, LoopFacts DEF CopyWithinTrack, CopyToTrackEnd, Finish, NextTrack
  <2>2. pc = "loop" /\ InCache /\ UNCHANGED <<disk, req, unsynced>>
    BY <1>3 DEF CopyWithinTrack, CopyToTrackEnd
  <2>3. (CopyOut(k) /\ req.op = "read") \/ (CopyIn(k) /\ req.op = "write")
    BY <2>1 DEF Copy
  <2>4. Store!Next
    BY <2>1, <2>2, <2>3, CopyRefines
  <2> QED
    BY <2>4
<1>4. CASE FillWholeTrack
  <2>1. /\ pc = "loop" /\ CopyIn(CacheNumBlocks) /\ req.op = "write"
        /\ SectorOf(block_offset) = 0 /\ CacheNumBlocks <= remain
        /\ actual' = actual + CacheNumBlocks /\ UNCHANGED <<disk, req, unsynced>>
    BY <1>4 DEF FillWholeTrack, CoversTrack, Finish, NextTrack
  <2>2. CacheNumBlocks \in Nat /\ CacheNumBlocks <= ToTrackEnd
    BY <1>0, <2>1, LoopFacts, GeometryAssumption
  <2> QED
    BY <2>1, <2>2, CopyRefines
<1>5. CASE WriteBack \/ ReadTrack \/ CallbackReturns
  BY <1>5 DEF WriteBack, ReadTrack, CallbackReturns, ReadCallbackReturns, WriteCallbackReturns,
              SyncCallbackReturns, loopVars, Store!vars
<1>6. CASE Return
  <2>1. actual = req.sectors /\ req # Store!NoRequest /\ unsynced = {}
    BY <1>0, <1>6 DEF Return, RequestProgress, CallbackProgress, Idle
  <2> QED
    BY <1>6, <2>1 DEF Return, Store!End, Store!Next
<1>7. ASSUME NEW s \in Slot, NEW again \in BOOLEAN, SourceReads(s, again)
      PROVE  UNCHANGED Store!vars \/ Store!Next
  <2> DEFINE c == BlockAt(CacheNum, s)
  <2>1. c \in Block /\ disk[c] = content[c] /\ UNCHANGED <<req, data, actual, unsynced>>
    BY <1>7, SourceReadsEffect DEF SourceReads, loopVars
  <2>2. \/ UNCHANGED <<disk, content>>
        \/ \E v \in Data : /\ c >= DiskBlocks
                          /\ disk' = [disk EXCEPT ![c] = v]
                          /\ content' = [content EXCEPT ![c] = v]
    BY <1>7, SourceReadsEffect
  <2> HIDE DEF c
  <2>3. UNCHANGED Store!vars \/ \E v \in Data : Store!Astray(c, v)
    BY <2>1, <2>2 DEF Store!Astray, Store!vars
  <2> QED
    BY <2>1, <2>3 DEF Store!Next, Block
<1>8. ASSUME NEW s \in Slot, NEW again \in BOOLEAN, SourceWrites(s, again) PROVE Store!Next
  <2> DEFINE b == BlockAt(xfer.track, s)
  <2>1. b \in Block /\ InFlight(b) /\ SectorOf(b) = s
    BY <1>0, <1>8, BlockAtTrack DEF SourceWrites, InFlight, TypeOK
  <2>2. CacheBuffer[s] = content[b]
    BY <1>0, <2>1 DEF Coherence
  <2>3. Store!Save(b)
    BY <1>8, <2>2 DEF SourceWrites, Store!Save, loopVars
  <2> QED
    BY <2>1, <2>3 DEF Store!Next, Block
<1>9. ASSUME NEW offset \in Block, NEW n \in Block,
             NEW d \in [0 .. n - 1 -> Data], QuickWrite(offset, n, d)
      PROVE  Store!Next
  <2>1. content' \in [Store!Block -> Data]
    BY <1>0 DEF TypeOK, Block
  <2>2. \A b \in Store!Block \ Store!Run(offset, n) : content'[b] = content[b]
    BY <1>9 DEF QuickWrite, Store!Put
  <2>3. Store!ClientWrite(offset, n)
    BY <1>9, <2>1, <2>2 DEF QuickWrite, Store!ClientWrite, loopVars
  <2> QED
    BY <2>3 DEF Store!Next, Block
<1>10. CASE Discard
  <2> DEFINE S == { b \in Block : Cached(b) /\ ~InFlight(b) }
  <2>1. content' = [b \in Block |-> IF b \in S THEN disk[b] ELSE content[b]]
    BY <1>10 DEF Discard
  <2>2. Store!ClientDiscard(S)
    BY <1>10, <2>1 DEF Discard, Store!ClientDiscard, loopVars, Block
  <2> QED
    BY <2>2 DEF Store!Next, Block
<1>11. CASE UNCHANGED vars
  BY <1>11 DEF vars, loopVars, Store!vars
<1>12. ASSUME NEW offset \in Block, NEW n \in Block
       PROVE  [j \in 0 .. n - 1 |-> Zero] \in [0 .. n - 1 -> Data]
  BY ZeroAssumption
<1>13. Store!Begin => Store!Next
  BY DEF Store!Next
<1> QED
  BY <1>1, <1>2, <1>3, <1>4, <1>5, <1>6, <1>7, <1>8, <1>9, <1>10, <1>11, <1>12, <1>13
  DEF Next, Start, Loop, Source, ClientWrites

(* cache.library implements the block store for every geometry: each step  *)
(* of the code is a step of the store, or changes nothing a user can see.  *)
THEOREM Refinement == Spec => ImplementsStore
<1>1. Init => Store!Init
  BY DEF Init, Store!Init, Block
<1>2. CacheInvariant /\ [Next]_vars => [Store!Next]_(Store!vars)
  BY StepRefines
<1> QED
  BY <1>1, <1>2, Invariance, PTL DEF Spec, ImplementsStore, Store!Spec

-----------------------------------------------------------------------------
(* Every step of a call brings it nearer to its end.                       *)

LEMMA FillStep == CacheInvariant /\ FillsItsTrack /\ [Next]_vars => FillsItsTrack'
<1> SUFFICES ASSUME CacheInvariant, FillsItsTrack, [Next]_vars PROVE FillsItsTrack'
  OBVIOUS
<1> USE DEF FillsItsTrack
<1>1. CASE UNCHANGED <<pc, block_offset, CacheNum>>
  BY <1>1 DEF TrackOf
<1>2. CASE pc' # "reading"
  BY <1>2
<1>3. CASE ReadTrack
  BY <1>3 DEF ReadTrack, loopVars, TrackOf
<1>4. CASE Start
  BY <1>2, <1>4 DEF Start, StartTransfer, StartSync
<1>5. CASE CopyWithinTrack \/ CopyToTrackEnd \/ WriteBack \/ FillWholeTrack
  BY <1>2, <1>5 DEF CopyWithinTrack, CopyToTrackEnd, WriteBack, FillWholeTrack, Finish, NextTrack
<1>6. CASE CallbackReturns \/ Return
  BY <1>2, <1>6 DEF CallbackReturns, ReadCallbackReturns, WriteCallbackReturns, SyncCallbackReturns, Return
<1>7. CASE Source \/ ClientWrites \/ Discard \/ UNCHANGED vars
  BY <1>1, <1>7 DEF Source, SourceReads, SourceWrites, ClientWrites, QuickWrite, Discard, vars, cacheVars, loopVars
<1> QED
  BY <1>3, <1>4, <1>5, <1>6, <1>7 DEF Next, Loop

\* The loop runs on only while there is something left, if there was anything.
SomethingRemains == pc \in {"loop", "reading", "writing"} => remain > 0 \/ req.sectors = 0

LEMMA RemainsStep == CacheInvariant /\ SomethingRemains /\ [Next]_vars => SomethingRemains'
<1> SUFFICES ASSUME CacheInvariant, SomethingRemains, [Next]_vars PROVE SomethingRemains'
  OBVIOUS
<1> USE DEF SomethingRemains
<1>1. CASE UNCHANGED <<pc, remain, req>>
  BY <1>1
<1>2. ASSUME NEW offset, NEW n \in Block, NEW op, NEW d, StartTransfer(op, offset, n, d)
      PROVE  SomethingRemains'
  <2>1. n \in Nat /\ remain' = n /\ req'.sectors = n
    BY <1>2, ConstantTypes DEF StartTransfer
  <2> QED
    BY <2>1
<1>3. CASE StartSync \/ CopyWithinTrack \/ Return
  <2>1. pc' \notin {"loop", "reading", "writing"}
    BY <1>3 DEF StartSync, CopyWithinTrack, Finish, Return
  <2> QED
    BY <2>1
<1>4. CASE CopyToTrackEnd
  <2>1. pc = "loop" /\ remain > ToTrackEnd /\ remain' = remain - ToTrackEnd
    BY <1>4 DEF CopyToTrackEnd, NextTrack
  <2>2. remain \in Nat /\ ToTrackEnd \in Nat
    BY <2>1, LoopFacts DEF CacheInvariant
  <2> QED
    BY <2>1, <2>2
<1>5. CASE FillWholeTrack
  <2>1. \/ pc' = "done"
        \/ remain >= CacheNumBlocks /\ remain # CacheNumBlocks /\ remain' = remain - CacheNumBlocks
    BY <1>5 DEF FillWholeTrack, CoversTrack, Finish, NextTrack
  <2>2. remain \in Nat
    BY DEF CacheInvariant, TypeOK
  <2> QED
    BY <2>1, <2>2, GeometryAssumption
<1>6. CASE WriteBack \/ ReadTrack \/ CallbackReturns
  <2>1. UNCHANGED <<remain, req>> /\ (pc \in {"loop", "reading", "writing"} \/ pc' = "done")
    BY <1>6 DEF WriteBack, ReadTrack, CallbackReturns, ReadCallbackReturns, WriteCallbackReturns,
                SyncCallbackReturns, loopVars
  <2> QED
    BY <2>1
<1>7. CASE Source \/ ClientWrites \/ Discard \/ UNCHANGED vars
  BY <1>1, <1>7 DEF Source, SourceReads, SourceWrites, ClientWrites, QuickWrite, Discard, vars, loopVars
<1> QED
  BY <1>2, <1>3, <1>4, <1>5, <1>6, <1>7 DEF Next, Start, Loop

LEMMA LoopInvariance == Spec => [](FillsItsTrack /\ SomethingRemains)
<1>1. Init => FillsItsTrack /\ SomethingRemains
  BY DEF Init, FillsItsTrack, SomethingRemains
<1>2. CacheInvariant /\ FillsItsTrack /\ [Next]_vars => FillsItsTrack'
  BY FillStep
<1>3. CacheInvariant /\ SomethingRemains /\ [Next]_vars => SomethingRemains'
  BY RemainsStep
<1> QED
  BY <1>1, <1>2, <1>3, Invariance, PTL DEF Spec

\* In each phase, its number.
LEMMA PhaseOf ==
  /\ pc = "loop" => Phase = IF InCache THEN 2 ELSE IF CacheDirty THEN 6 ELSE 4
  /\ pc = "done" => Phase = 1
  /\ pc \in {"reading", "syncing"} => Phase = 3
  /\ pc = "writing" => Phase = IF CacheDirty THEN 7 ELSE 5
BY DEF Phase

LEMMA PhaseOfNext ==
  /\ pc' = "loop" => Phase' = IF InCache' THEN 2 ELSE IF CacheDirty' THEN 6 ELSE 4
  /\ pc' = "idle" => Phase' = 0
  /\ pc' = "done" => Phase' = 1
  /\ pc' \in {"reading", "syncing"} => Phase' = 3
  /\ pc' = "writing" => Phase' = IF CacheDirty' THEN 7 ELSE 5
BY DEF Phase

\* The loops: blocks are copied, or the iteration moves on to its next phase.
LEMMA LoopNearer ==
  ASSUME CacheInvariant, Loop
  PROVE  Nearer
<1>1. pc = "loop" /\ remain \in Nat /\ ToTrackEnd \in Nat \ {0}
  <2>1. pc = "loop"
    BY DEF Loop, CopyWithinTrack, CopyToTrackEnd, WriteBack, FillWholeTrack, ReadTrack
  <2> QED
    BY <2>1, LoopFacts DEF CacheInvariant
<1>2. Phase = IF InCache THEN 2 ELSE IF CacheDirty THEN 6 ELSE 4
  BY <1>1, PhaseOf
<1>3. CASE CopyWithinTrack
  <2>1. remain' = 0 /\ pc' = "done" /\ InCache
    BY <1>3 DEF CopyWithinTrack, Finish
  <2>2. Phase' = 1 /\ Phase = 2
    BY <1>2, <2>1, PhaseOfNext
  <2> QED
    BY <1>1, <2>1, <2>2 DEF Nearer
<1>4. CASE CopyToTrackEnd
  <2>1. remain' = remain - ToTrackEnd
    BY <1>4 DEF CopyToTrackEnd, NextTrack
  <2> QED
    BY <1>1, <2>1 DEF Nearer
<1>5. CASE WriteBack
  <2>1. remain' = remain /\ pc' = "writing" /\ ~CacheDirty' /\ ~InCache /\ CacheDirty
    BY <1>5 DEF WriteBack, loopVars, CacheDirty
  <2>2. Phase' = 5 /\ Phase = 6
    BY <1>2, <2>1, PhaseOfNext
  <2> QED
    BY <2>1, <2>2 DEF Nearer
<1>6. CASE FillWholeTrack
  <2>1. remain' = 0 \/ remain' = remain - CacheNumBlocks
    BY <1>6 DEF FillWholeTrack, Finish, NextTrack
  <2>2. remain >= CacheNumBlocks
    BY <1>6 DEF FillWholeTrack, CoversTrack
  <2> QED
    BY <1>1, <2>1, <2>2, GeometryAssumption DEF Nearer
<1>7. CASE ReadTrack
  <2>1. remain' = remain /\ pc' = "reading" /\ ~InCache /\ ~CacheDirty
    BY <1>7 DEF ReadTrack, loopVars
  <2>2. Phase' = 3 /\ Phase = 4
    BY <1>2, <2>1, PhaseOfNext
  <2> QED
    BY <2>1, <2>2 DEF Nearer
<1> QED
  BY <1>3, <1>4, <1>5, <1>6, <1>7 DEF Loop

\* A callback returns to a phase before its own, and a call to its caller.
LEMMA ReturnNearer ==
  ASSUME CacheInvariant, FillsItsTrack, CallbackReturns \/ Return
  PROVE  Nearer
<1>1. remain \in Nat
  BY DEF CacheInvariant, TypeOK
<1>2. CASE ReadCallbackReturns
  <2>1. pc = "reading" /\ pc' = "loop" /\ remain' = remain /\ CacheFlag' = "CLEAN"
        /\ UNCHANGED <<block_offset, CacheNum>>
    BY <1>2 DEF ReadCallbackReturns, loopVars
  <2>2. InCache'
    BY <2>1 DEF InCache, FillsItsTrack, TrackOf
  <2>3. Phase = 3 /\ Phase' = 2
    BY <2>1, <2>2, PhaseOf, PhaseOfNext
  <2> QED
    BY <2>1, <2>3 DEF Nearer
<1>3. CASE WriteCallbackReturns
  <2>1. pc = "writing" /\ pc' = "loop" /\ remain' = remain /\ CacheDirty' = CacheDirty
    BY <1>3 DEF WriteCallbackReturns, loopVars, cacheVars, CacheDirty
  <2>2. Phase = (IF CacheDirty THEN 7 ELSE 5)
    BY <2>1, PhaseOf
  <2>3. Phase' \in {2, IF CacheDirty THEN 6 ELSE 4}
    BY <2>1, PhaseOfNext
  <2> QED
    BY <2>1, <2>2, <2>3 DEF Nearer
<1>4. CASE SyncCallbackReturns
  <2>1. pc = "syncing" /\ pc' = "done" /\ remain' = remain
    BY <1>4 DEF SyncCallbackReturns, loopVars
  <2>2. Phase = 3 /\ Phase' = 1
    BY <2>1, PhaseOf, PhaseOfNext
  <2> QED
    BY <2>1, <2>2 DEF Nearer
<1>5. CASE Return
  <2>1. pc = "done" /\ pc' = "idle" /\ remain' = 0
    BY <1>5 DEF Return
  <2>2. Phase = 1 /\ Phase' = 0
    BY <2>1, PhaseOf, PhaseOfNext
  <2> QED
    BY <1>1, <2>1, <2>2 DEF Nearer
<1> QED
  BY <1>2, <1>3, <1>4, <1>5 DEF CallbackReturns

\* What the source and the clients do does not change the phase, unless it
\* dirties, or discards, a track that is being written back.
LEMMA SourceNearer ==
  ASSUME CacheInvariant, NEW s \in Slot, NEW again \in BOOLEAN,
         SourceReads(s, again) \/ SourceWrites(s, again)
  PROVE  /\ Nearer \/ UNCHANGED <<remain, Phase, xfer>>
         /\ ~again => Nearer
<1>1. /\ UNCHANGED <<CacheFlag, pc, remain>> /\ pc \in {"reading", "writing", "syncing"}
      /\ s \in xfer.left /\ xfer' = [xfer EXCEPT !.left = IF again THEN @ ELSE @ \ {s}]
  BY DEF SourceReads, SourceWrites, WritingBack, cacheVars, loopVars
<1>2. Phase' = Phase
  BY <1>1 DEF Phase, CacheDirty
<1>3. xfer \in [track : Track, left : SUBSET Slot]
  BY DEF CacheInvariant, TypeOK
<1>4. CASE again
  <2>1. xfer' = xfer
    BY <1>1, <1>3, <1>4
  <2> QED
    BY <1>1, <1>2, <1>4, <2>1
<1>5. CASE ~again
  <2>1. xfer'.left = xfer.left \ {s}
    BY <1>1, <1>3, <1>5
  <2> QED
    BY <1>1, <1>2, <2>1 DEF Nearer
<1> QED
  BY <1>4, <1>5

LEMMA ClientsNoFarther ==
  ASSUME CacheInvariant, ClientWrites \/ Discard, ~Idle, ~DirtiedAgain
  PROVE  Nearer \/ UNCHANGED <<remain, Phase, xfer>>
<1>1. UNCHANGED <<pc, remain, xfer>> /\ pc \in {"reading", "writing", "syncing"}
  BY DEF ClientWrites, QuickWrite, Discard, Preempted, Idle, loopVars
<1>2. CASE pc \in {"reading", "syncing"}
  <2>1. Phase = 3 /\ Phase' = 3
    BY <1>1, <1>2, PhaseOf, PhaseOfNext
  <2> QED
    BY <1>1, <2>1
<1>3. CASE pc = "writing"
  <2>1. CacheDirty' => CacheDirty
    BY <1>3 DEF DirtiedAgain
  <2>2. Phase = (IF CacheDirty THEN 7 ELSE 5)
    BY <1>3, PhaseOf
  <2>3. Phase' = IF CacheDirty' THEN 7 ELSE 5
    BY <1>1, <1>3, PhaseOfNext
  <2>4. CASE CacheDirty' <=> CacheDirty
    BY <1>1, <2>2, <2>3, <2>4
  <2>5. CASE CacheDirty /\ ~CacheDirty'
    BY <1>1, <2>2, <2>3, <2>5 DEF Nearer
  <2> QED
    BY <2>1, <2>4, <2>5
<1> QED
  BY <1>1, <1>2, <1>3

LEMMA CountingStep ==
  ASSUME CacheInvariant, FillsItsTrack, [Next]_vars
  PROVE  [/\ Loop \/ CallbackReturns \/ Return \/ SourceDone => Nearer
          /\ ~Idle /\ ~DirtiedAgain => Nearer \/ UNCHANGED <<remain, Phase, xfer>>]_vars
<1>1. Loop \/ CallbackReturns \/ Return => Nearer
  BY LoopNearer, ReturnNearer
<1>2. SourceDone => Nearer
  BY SourceNearer DEF SourceDone
<1>3. Source => Nearer \/ UNCHANGED <<remain, Phase, xfer>>
  BY SourceNearer DEF Source
<1>4. ~Idle /\ ~DirtiedAgain /\ (ClientWrites \/ Discard) => Nearer \/ UNCHANGED <<remain, Phase, xfer>>
  BY ClientsNoFarther
<1>5. Start => Idle
  BY DEF Start, StartTransfer, StartSync
<1> QED
  BY <1>1, <1>2, <1>3, <1>4, <1>5 DEF Next

(* Every step of a read, a write or a sync brings its end nearer, for any  *)
(* geometry and any request, except a hit that dirties a track while it is *)
(* written back.                                                           *)
THEOREM StepsCount == Spec => EveryStepCounts
<1>1. CacheInvariant /\ FillsItsTrack /\ [Next]_vars
      => [/\ Loop \/ CallbackReturns \/ Return \/ SourceDone => Nearer
          /\ ~Idle /\ ~DirtiedAgain => Nearer \/ UNCHANGED <<remain, Phase, xfer>>]_vars
  BY CountingStep
<1> QED
  BY <1>1, LoopInvariance, Invariance, PTL DEF Spec, EveryStepCounts
=============================================================================
