----------------------------- MODULE BlockStore -----------------------------
(***************************************************************************)
(* What cache.library promises its users, without a cache: an array of     *)
(* blocks that clients and one worker read and write, behind which a disk  *)
(* follows block by block.                                                 *)
(*                                                                         *)
(*   content   what a reader of each block gets                            *)
(*   disk      what the source holds                                       *)
(*   req       the request the worker serves; data is its buffer (io_Data) *)
(*             and actual the number of blocks of it already transferred   *)
(*   unsynced  blocks a running sync still owes the disk                   *)
(*                                                                         *)
(* The worker serves a request piece by piece, and client operations may   *)
(* come between two pieces: a big request is not atomic.                   *)
(*                                                                         *)
(* A request may name any blocks, also those behind the end of the disk,   *)
(* and goes on with block 0 after the last number. Nothing keeps what is   *)
(* saved behind the end.                                                   *)
(***************************************************************************)
EXTENDS Integers

CONSTANTS NumBlocks,    \* block numbers
          DiskBlocks,   \* the first of them are on the disk
          Data          \* contents of a block

VARIABLES content, disk, req, data, actual, unsynced

vars == <<content, disk, req, data, actual, unsynced>>

Block == 0 .. NumBlocks - 1

NoRequest == [op |-> "none", offset |-> 0, sectors |-> 0]

\* Any blocks, fewer than there are numbers; a sync names none.
Request == [op : {"read", "write"}, offset : Block, sectors : Block]
           \cup { [op |-> "sync", offset |-> 0, sectors |-> 0] }

\* The block i after offset, and how far b is after offset: numbers wrap.
At(offset, i)    == IF offset + i < NumBlocks THEN offset + i ELSE offset + i - NumBlocks
After(offset, b) == IF offset <= b THEN b - offset ELSE b - offset + NumBlocks

\* The n blocks from offset on.
Run(offset, n) == { b \in Block : After(offset, b) < n }

\* The function f with the n values of d from index i on put at offset.
Put(f, offset, n, d, i) ==
  [b \in Block |-> IF b \in Run(offset, n) THEN d[After(offset, b) + i] ELSE f[b]]

Init ==
  /\ disk \in [Block -> Data]
  /\ content = disk
  /\ req = NoRequest
  /\ data = << >>
  /\ actual = 0
  /\ unsynced = {}

Begin ==
  /\ req = NoRequest
  /\ req' \in Request
  /\ data' \in [0 .. req'.sectors - 1 -> Data]
  /\ actual' = 0
  /\ unsynced' = IF req'.op = "sync" THEN { b \in Block : content[b] # disk[b] } ELSE {}
  /\ UNCHANGED <<content, disk>>

\* The next k blocks of a read request are copied to the client's buffer.
ReadSome(k) ==
  /\ req.op = "read"
  /\ data' = [i \in DOMAIN data |->
                IF i \in actual .. actual + k - 1 THEN content[At(req.offset, i)] ELSE data[i]]
  /\ actual' = actual + k
  /\ UNCHANGED <<content, disk, req, unsynced>>

\* The next k blocks of a write request become the content.
WriteSome(k) ==
  /\ req.op = "write"
  /\ content' = Put(content, At(req.offset, actual), k, data, actual)
  /\ actual' = actual + k
  /\ UNCHANGED <<disk, req, data, unsynced>>

\* A request ends only when all of it was transferred; a sync only when
\* nothing that was written before it is missing on the disk.
End ==
  /\ req # NoRequest
  /\ actual = req.sectors
  /\ unsynced = {}
  /\ req' = NoRequest
  /\ data' = << >>
  /\ actual' = 0
  /\ UNCHANGED <<content, disk, unsynced>>

\* A client writes the n blocks from offset on, whatever is in its buffer.
ClientWrite(offset, n) ==
  /\ content' \in [Block -> Data]
  /\ \A b \in Block \ Run(offset, n) : content'[b] = content[b]
  /\ unsynced' = unsynced \ Run(offset, n)
  /\ UNCHANGED <<disk, req, data, actual>>

\* A client throws away what the disk does not hold yet of the blocks in S.
ClientDiscard(S) ==
  /\ content' = [b \in Block |-> IF b \in S THEN disk[b] ELSE content[b]]
  /\ unsynced' = unsynced \ S
  /\ UNCHANGED <<disk, req, data, actual>>

\* The disk only ever takes the content a reader would get at that moment:
\* no stale block lands, and none lands at another block's place.
Save(b) ==
  /\ disk' = [disk EXCEPT ![b] = content[b]]
  /\ unsynced' = unsynced \ {b}
  /\ UNCHANGED <<content, req, data, actual>>

\* Behind the end of the disk, what was saved may turn into anything.
Astray(b, v) ==
  /\ b >= DiskBlocks
  /\ content[b] = disk[b]
  /\ disk' = [disk EXCEPT ![b] = v]
  /\ content' = [content EXCEPT ![b] = v]
  /\ UNCHANGED <<req, data, actual, unsynced>>

Next ==
  \/ Begin
  \/ \E k \in 0 .. req.sectors - actual : ReadSome(k) \/ WriteSome(k)
  \/ End
  \/ \E offset, n \in Block : ClientWrite(offset, n)
  \/ \E S \in SUBSET Block : ClientDiscard(S)
  \/ \E b \in Block : Save(b) \/ \E v \in Data : Astray(b, v)

Spec == Init /\ [][Next]_vars
=============================================================================
