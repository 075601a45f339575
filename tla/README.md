# A TLA+ model of virtio_blk.device, cache.library and virtio.library

The repository is a virtio disk driver for PowerOS: a device in the style of
Amiga exec (`src/src/dev.virtio_blk`), a cache of one track between the device
and the disk (`src/src/lib.cache`), a library that sets up virtqueues
(`src/src/lib.virtio`), and test programs that use them
(`src/src/boot.test`). This directory models its control in TLA+, checks small
instances with TLC and proves the safety results for every size with TLAPS.

## 1. The system

### How the parts interact

    client task --DoIO/SendIO--> BeginIO --quick--> CacheHit, CacheRead, CacheWrite, ...
                                    |
                                    | PutMsg (late service)
                                    v
                              unit_MsgPort --> worker task (VirtioBlk_CheckPort)
                                                  |  CacheRead / CacheWrite / CacheSync
                                                  v
                                            cache.library
                                                  |  ReadSourceCallback / WriteSourceCallback
                                                  v
                                  VirtioBlk_transfer --> virtqueue --> device
                                                  ^                      |
                                                  +--Signal-- IRQServer <+ interrupt

Clients and the worker exclude each other with `Forbid()`. It is given up by a
task that blocks: while the worker `Wait()`s for the device inside a source
callback, clients run, hit the cache the worker is in the middle of using,
queue requests and abort them. `Forbid()` does not stop interrupts. One cache
library serves all the units.

### Inventory

| Part | State | Operations | What is hard | What makes it correct |
|---|---|---|---|---|
| cache.library | `CacheFlag`, `CacheNum`, `CacheBuffer`; the locals of `cache_Read`, `cache_Write` | Configure, Read, Write, Hit, Dirty, Sync, Discard | clients change the buffer and the flag while a write-back or a fill waits; the flag turns CLEAN before the data is saved; a request over several tracks | the cache cannot be told from a disk without one; a hit returns current content; a sync saves what was written before it; requests end |
| unit: requests | `mp_MsgList`, `io_Flags`, `io_Error`, `io_Actual`, `curr_req`, the wakeup signal | BeginIO, AbortIO, VirtioBlk_CheckPort, VirtioBlk_process_request, the interrupt server | the worker looks at the head of the list three times, with waits between; the interrupt server changes flags under it; aborts; commands run in the client's task while the worker is in the cache | each held request is replied to once, served before that, aborts are honoured, no wakeup is lost; an update that succeeds has saved what it found |
| unit: transfers | header, status word, descriptors, available ring, `avail->idx` | VirtioBlk_transfer, the source callbacks | a queue as small as the device likes; one header, status word and chain for all transfers; the free-running 16-bit index; a device that fails or is late | the device executes the request it was given, the status is that of this transfer, a callback returns |
| unit: initialisation | `NumAvailUnits`, task data, worker tasks, `SIGF_SINGLE`, device status, features, configuration | virtio_blk_InitDev, VirtioBlk_setup and what it calls, the start of the worker, OpenDev | a failure at each step, failures nobody looks at, a worker that starts early or late, a signal left over | units that can be opened are served, with their own device's configuration; a failure gives back cache and task data and touches no other unit |
| virtqueues | `vd->queues`, the memory behind them, the pages the device knows | AllocateQueues, InitQueues, FreeQueues, `vring_size`, `vring_init` | an allocator that fails or returns any address; queue sizes the device chooses | the device gets only memory that is the queue's; nothing is lost or freed twice |
| features, registers | feature tables, I/O ports | ExchangeFeatures, Supports, Read/Write8-32 | a table that is or-ed into | what is read of the configuration is what this host offers |
| boot tests of the device | message ports, requests, buffers, open counts; the queue of the polling driver | the test tasks of testcase.c; `DetectVirtio` of testvirtio.c | every call may fail, tests call each other with requests of their own; a driver that waits for a second instead of for the device | nothing is freed while the unit holds it, nothing is left behind, tests end; what is shown is what was asked for |
| other boot tests | test programs for graphics, keyboard, mouse, memory | none here | none here | they do not touch this driver |
| tables | jump tables, resident tags | none | none | none |

`PROJECT.json` lists these parts with their files, what each definition stands
for line by line, and the hazards the properties are for.

## 2. The modules

| Module | Models | Uses |
|---|---|---|
| `BlockStore` | what cache.library promises: an array of blocks without a cache | |
| `Cache` | cache.library, its worker, its clients and the source | refines `BlockStore` |
| `RequestQueue` | what a unit promises the owners of its requests: a queue | |
| `Handshake` | what a transfer is from outside: executions offered, a signal waited for | |
| `VirtioBlkUnit` | the requests of one unit: clients, worker, device, interrupt server | refines `RequestQueue` and `Handshake` |
| `UnitCache` | a unit with its cache: commands with offsets, lengths and data | composes and refines `VirtioBlkUnit` and `Cache` |
| `Transfer` | `VirtioBlk_transfer` assignment by assignment, against the device | refines `Handshake` |
| `VringLayout` | the size and layout of a queue in memory | |
| `VirtQueues` | the virtqueues of one device over an allocator | `VringLayout` |
| `VirtioBlkInit` | `virtio_blk_InitDev`, what it does to each device, and the start of the workers | |
| `BootTest` | the test tasks, as clients of a unit | instance of `VirtioBlkUnit` |
| `DetectVirtio` | the polling driver of the boot tests | |
| `CacheProofs`, `VirtioBlkUnitProofs`, `UnitCacheProofs`, `TransferProofs`, `VirtQueuesProofs`, `VirtioBlkInitProofs`, `BootTestProofs`, `DetectVirtioProofs` | theorems | the module they are named after |
| `MCCache`, `MCVirtioBlkUnit`, `MCUnitCache`, `MCVirtQueues`, `MCBootTest` | the instances for TLC (the other modules need no definitions of their own) | |

A definition whose name starts with `Mut` is a plausible bug in the definition
that follows it. It takes no part in any specification; it documents that the
property it is listed with in `PROJECT.json` notices the bug.

### Cache

`pc` is the place of the worker: "idle" (outside the library), "loop" (at the
top of the `while` of `cache_Read` or `cache_Write`), "reading", "writing",
"syncing" (in a source callback), "done". One action is one pass of the loop up
to a callback, or from it: `CopyWithinTrack` and `CopyToTrackEnd` are the
branches in which the track is cached, `WriteBack`, `FillWholeTrack` and
`ReadTrack` those in which it is not, `StartSync` is `cache_Sync`. The callback
transfers the sectors of the track in any order, and possibly more than once
(`SourceReads`, `SourceWrites`). `QuickWrite`, `Discard` and the (stateless)
quick read are the client's calls, which happen where the worker has blocked.
`content` and `unsynced` are history variables: what was last written to each
block, and what a running sync still owes.

Block numbers are words: `NumBlocks` stands for 2^32, and the block behind the
last is block 0 (`At`). The library does not know where the disk ends, so its
requests may name any blocks; the source holds the first `DiskTracks` tracks
only. For a sector behind them the device transfers nothing and reports it in
the status word, which nobody reads: a fill takes whatever is in the buffer for
the block (`Fetched`), and a write-back there is kept or lost.

The flag turns CLEAN before the data of a write-back is on the disk, and
CMD_UPDATE succeeds at once on a cache that is not dirty. `PromiseKept` is what
makes that right, if only later: a block that differs from the disk while the
cache is not dirty gets there, whatever clients dirty or discard meanwhile.

`BlockStore` has no cache: reads and writes act on `content`, the disk follows
block by block, a discard throws unsaved blocks away. `ImplementsStore` says
that `Cache` implements it under the identity mapping. In particular the disk
never receives a block that is stale or belongs somewhere else, a read returns
each block's content at its place in the buffer, and a sync does not end before
everything written before it is on the disk. Behind the end of the disk
(`Astray`) it promises nothing of blocks that were saved: they may turn into
anything.

`EveryStepCounts` is about the loop with no bound on its iterations: each step
of the call leaves fewer blocks (`remain`), or an earlier `Phase` of the
iteration, or fewer sectors of the running transfer, in this order. The only
step of anyone that takes a call away from its end is the one the comments of
`cache_Read` are about, a hit that dirties the track during its write-back
(`DirtiedAgain`). It is the part of `RequestEnds` and `SyncEnds` that needs no
fairness: a descent in well-founded orders, since blocks, phases and sectors
are finitely many.

### VirtioBlkUnit

`pc` is the place of the worker in `VirtioBlk_CheckPort`: "check" (the head of
the list), "process" (in `VirtioBlk_process_request`, before its own look at
the head), "service" (in the cache), "wait" (in a source callback), "finish",
"reply". `io_Flags` are sets of the flag names. `client[r]` is the call the
request's owner is in. What the cache does with a request is any number of
transfers, and the choice between quick and late service is free. `chains`
counts the executions of chain 0 that the device has been notified of;
`VirtioBlk_transfer` adds `IdxStep` = 3 of them, because it advances
`avail->idx` by three. The device either raises an interrupt after each
execution or, with `OneInterrupt`, one after the last of them. The second is an
assumption on the device, under which the driver's waits are right; the first
is why they are not in general (section 5).

The interrupt server is one action that can happen between any two others: it
changes the flags of the head of the list and sends the wakeup.

`RequestQueue` is what of this concerns the owners of the requests. It knows no
flags, no worker and no interrupts: requests that are not ended at once stand
in a queue, and the one in front is "queued", "serving" or "done". Served, it
is served once; aborted, and that only while it is queued, it is passed over;
it leaves the queue with its reply. `ImplementsQueue` reads the queue off the
message list (`HeldQueue`: a request that was taken out of the list is in front
until `ReplyMsg`) and the state of the front off `pc` (`HeadState`). So the
order of service, "once at most" and "one at a time" hold however the interrupt
server changes flags between the worker's looks at the head. `MustServe` are
the commands that cannot end late and unserved: reads, writes and updates with
one interrupt per notification, none with an interrupt per execution, for the
reason given in section 5.

### Handshake

`StartTransfer` of `VirtioBlkUnit` is one step. In the code it is a dozen
assignments, which `Transfer` has. `Handshake` is what both have in common: the
worker offers `IdxStep` executions at once, the device completes them and
interrupts, the interrupt server signals, the callback returns.
`ImplementsHandshake` of either module maps `waiting` to the place of the
worker and `chains` to the executions that are left. For `Transfer` these are
the entries between the device's index and `avail->idx`, modulo 2^16, and the
request under way (`Left`).

### UnitCache

The two modules above leave each other open: the unit takes any number of
transfers where the cache would decide it, the cache is called where it likes.
`UnitCache` has the variables of both, and each of its steps is a step of both
or a step of one while the other stands still. It adds what belongs to neither:
`io`, what a request carries (offset and length in sectors, and data), the
range check of `VirtioBlkRead` and `VirtioBlkWrite` in unsigned words
(`NotEnoughSectors`), and the device moving sectors in each of the three
executions of a chain. Only in the last one does it move every sector; `owed`
is a history variable, what an update found unsaved. `ImplementsUnit` and
`ImplementsCache` say that it implements both modules, so what they promise
holds of the whole.

A client may ask for any offset and length, none and a run that wraps included.
The check looks at the last sector only, in a word: it lets in an empty request
one sector behind the end, and any request that wraps to the beginning of the
disk. `Slips` names these two kinds. `FillsFromDisk` says that they are the
only ones for which the cache ever asks the device for a track it does not
have, though the check is made in the client's task and the tracks are chosen
later by the worker.

### Transfer

`Read` and `Write` call `VirtioBlk_transfer`, whose assignments are actions of
their own: header (cleared, type, sector), status word, descriptors, index,
notification. The device is a process that reads the same memory: it takes an
entry of the ring, with the header and the descriptors as they are then, and
completes it, well or not. It rests only when it has caught up with the index.
The index runs modulo `IndexRange`, which stands for 2^16. A queue has any
size: with less than three entries, filling in the descriptors runs over the
available ring, which begins where the table ends, and the model stops there
("overrun"). `EveryStepCounts`
says here that the worker never goes back, that the device works off what was
offered and no more, and that between two completions there is only so much
that it and the interrupt server can do (`Loose`); `NoLostWakeup`, that one of
them has something to do while the callback waits.

### VringLayout and VirtQueues

Addresses are numbers and the heap is a function from the start of each live
block to its size. `AllocVec` may fail, or return any of `Addresses` that is
free. `InitQueue` is one pass of the loop of `virtio_InitQueues` and has the
error path as it is in the code: it hands `queues[i]` to
`Virtio_free_phys_queue` once for each earlier queue. `FreeQueues` tells the
device nothing, so `qaddr`, the pages it knows, stays until the reset that
comes before the next `AllocateQueues`.

### VirtioBlkInit

The boot task is one action per step that can fail or be seen: `Reset`,
`Acknowledge`, `ExchangeFeatures`, `KnowsDevice`, `AllocateQueues`,
`InitQueues`, `AllocRequests`, `Configuration` and `DriverOK` bring up one
device, the others take memory, libraries, the interrupt and the worker for it.
The results of three of them are not looked at; the model goes on like the code,
with `queues` or `hdrs` being NULL, or to "fault" where the code writes through
NULL. A failure behind `DriverOK` leaves them as they are, and the device with
them (`Begun`); `FailureIsContained` says that this is one unit, and what is
given back. A worker is "created", has its "port", and is "ready" once it has
signalled; it runs whenever it likes.

### BootTest

A test task has a stack of calls. The five test functions that use a device have one shape and
differ in their device, in the loops over `DoIO`, in having a buffer, and in
what they call after each `DoIO`; each is a record of these. `live` is what a call has allocated, `mp`, `io`
and `buf` the pointers it holds. The unit underneath is `VirtioBlkUnit`, so that
a request is in the list, served and replied to as there. A read into a NULL
buffer either stops the machine or goes on through low memory, as in the code.

### DetectVirtio

`DetectVirtio` and the functions of testvirtio.c it calls are one sequence,
with the device beside it. `Delay` is `test_mhz_delay`: it may return at once,
and otherwise a second has gone by, in which a device that is not `slow` has
caught up. `kept` and `delayed` are history variables for the properties.

## 3. What is checked

| Run | Instance | Shows |
|---|---|---|
| `cache` | 2 tracks of 2 blocks, one of them on the disk, 2 contents | coherence, what is called clean gets to the disk, the refinement of `BlockStore`; every step counts unless a client dirties the track; requests end once clients stop dirtying the cached track, a sync ends whatever they do |
| `unit` | 2 requests; read, format, invalid; an interrupt per execution | head, flags, replies and wakeups in every interleaving; the refinement of `RequestQueue`, aborts included; every queued request is replied to, if no call of the cache starves |
| `unit_one_interrupt` | 3 requests; write, update, clear; `OneInterrupt` | interrupts find the worker waiting with a request; the refinement of `RequestQueue` with the commands that must be served (`MustServe`) |
| `unit_cache` | 2 requests (write, update; read, write, clear) of any offset and length, 3 tracks of 1 block, one of them on the disk, 2 contents, `DoIO` | unit and cache do what each leaves open about the other; an update that succeeded has saved what it found; fills come from the disk but for the requests that slip through the check |
| `transfer` | 3 tracks, a queue of 4 entries, an index of 8 values | the device executes whole requests only, the status is the last transfer's; no callback is forgotten; the refinement of `Handshake`; callbacks return |
| `queues` | 2 queues at most, 5 addresses, sizes 0, 2, 3, 256 | the device gets only live memory of the queue; no block is lost |
| `init` | 2 units, 0 to 3 devices, each with its own features | available units are served, with their own device's configuration; a failure gives back the cache and the task data, not the queue, the headers and DRV_OK, which it leaves with the one unit it hit; the boot task returns |
| `boot_test` | 2 tasks, loops of 2 turns, `test_virtio_blk0` with each other suite | what tests allocate is held or freed, requests stay alive while the unit has them, tests end |
| `detect` | 3 sectors, 2 features, any allocation or delay failing, a slow device or not | what is shown after a delay is what was asked for; the device's memory is live; the function returns |
| `unit_callback`, `unit_format`, `init_cache` | as above | the disagreements of section 5 |

The runs leave out some of what a theorem states for every size: the types of
`Transfer`, `VirtQueues` and `DetectVirtio`; `AbortHonoured` and
`ServedBeforeReply`, which `ImplementsQueue` says again; the unit's
`ImplementsHandshake`, and `EveryStepCounts` of `Transfer`, next to
`TransferEnds`. TLC has found no counterexample to them either.

**Bounds.** Two tracks of two blocks let a request start and end at any place
of a track, cover one, cover none and go over the border; in `unit_cache` the
tracks have one block, since the arithmetic of blocks is the business of
`cache`, and a request over two tracks changes the cached one. Contents are two
values, since no code looks at them. The disk of `unit_cache` starts cleared: it
is written to any content within a few steps. Three sector numbers, of which
the disk has one, are enough for the range check to meet its edges: the
end of the disk exactly, one behind it, an empty request there, and a wrap from
the last number to the first. Clients of `unit_cache` call `DoIO`: `SendIO` differs only in who
waits, which `unit` checks.

With two requests one is served while one is queued, begun or aborted; with three,
one more is between. The flags of a request depend on no more.
`MaxChains` = 4 lets one execution be left of an earlier transfer when the next
begins (`IdxStep` = 3): more of them only repeat what one late interrupt does.
`StartTransfer` waits while the bound would be passed. With one interrupt per
notification there are never more than 3, the bound of `UnitCache` and
`BootTest`. The index of `transfer`
has twice as many values as the queue has entries, so it wraps after three
transfers and at another place each time. The addresses of `MCVirtQueues` start
a page, lie just behind one, or just before one, and two of them overlap; there
is one place fewer than two queues need. -1 and 257 queues are asked for, on
both sides of what the code accepts, and a queue of 256 entries is longer than
a page. Three devices for two units pass the limit of the loop. Two turns let a
test come back to the top of its loop with a request that was used. Three
sectors let two turns' executions run into a third. `VirtioBlkUnit` is
symmetric in the requests, and `unit_one_interrupt`, which has no liveness,
uses that.

**Fairness.** The worker of a unit runs at priority 20 and outranks its
clients, so it takes the steps it can take: weak fairness of `Worker` and of
the loop in `Cache`. A call of the cache makes finitely many transfers, which
is what `SyncEnds` says of `Cache` for a sync, but `RequestEnds` for a read or
write only if clients stop dirtying the cached track. The unit alone knows
nothing of the track, and the code does not ensure that clients stop, so it is
no fairness of the unit but a premise of `Answered` (`CallsEnd`: if the worker
is again and again in a call of the cache, calls end again and again). In
`BootTest` it is strong fairness of `CacheReturns`: the tests only read, so
nobody dirties the track. A device completes
what it was notified of and its interrupts are delivered: `DeviceCompletes`,
`Device`, `IRQServer`, `SourceDone`. A task that can run runs some day:
`BootTask`, `WorkerTask`, `DetectTask`. Test tasks have one priority and take
turns, but are kept out again and again by the worker: strong fairness of
`Task`. Nothing is assumed of other clients. `RequestEnds` holds only from the
time on when clients stop writing to the cached track: each hit during a
write-back makes the worker write the track back again, which the comments of
`cache_Read` mention; this is part of the property and not of the fairness.

**Deadlock** is checked for the cache, the transfers and the queues. It is not
for the unit, alone or with its cache, where everything may come to rest (a
request that was sent with `SendIO` and served at once is never replied to, and
its client waits), nor for initialisation and the tests, which end.

## 4. What is proved

For every value of the constants that satisfies the named assumptions:

| Assumption | Of | Says |
|---|---|---|
| `GeometryAssumption`, `ZeroAssumption` | `Cache`, `UnitCache` | there is a track and it has a block; the disk has some of the tracks, none or all; a cleared block is a content |
| `CommandsAssumption`, `BoundsAssumption`, `InterruptAssumption` | `VirtioBlkUnit` | the commands are those of the driver; the bound leaves room for one transfer; the device is of one kind or the other |
| `UsesAssumption`, `CallsAssumption` | `UnitCache` | the commands and calls clients use |
| `QueueAssumption`, `SectorsAssumption`, `InterruptAssumption` | `Transfer` | the queue has any size; an index has more than three values |
| `AddressesAssumption`, `NumsAssumption` | `VirtQueues` | types; NULL is no address |
| `UnitsAssumption` | `VirtioBlkInit` | there is room for a unit |
| `TurnsAssumption`, `TasksAssumption`, `SuitesAssumption` | `BootTest` | the bound is a number, the tasks are finitely many and run the tests of the module |
| `SectorsAssumption` | `DetectVirtio` | the bound is a number |

Where a theorem needs `OneInterrupt = TRUE` its statement says so; `UnitCache`
has it built in.

**Cache** (`CacheProofs`). `Coherence` is not inductive: whether a write-back
saves the right blocks depends on the callback working on the cached track, and
whether a copy meets `content` on the locals of the loop naming the rest of the
request. `CacheInvariant` adds both (`RequestProgress`, `CallbackProgress`).
`Invariance` proves it; `CoherenceHolds` and `QuickReadIsRight` follow.
`CleanIsSaved` is what `PromiseKept` comes to without fairness: what differs from
the disk while the cache is not dirty is in a write-back that has not come to it
(`OnItsWay`), and it leaves that write-back only onto the disk (`Lands`). That a
write-back comes to all its sectors is left to TLC. `Refinement` maps each action to a step of `BlockStore`: copies to
`ReadSome`, `WriteSome`, the sector transfers of a write-back to `Save`, a fill from behind
the end of the disk to `Astray`, the end
of the loop to `End`, the rest to stuttering. The arithmetic of tracks and
sectors, and of numbers that wrap, is in lemmas of its own (`TrackSector`,
`BlockAtTrack`, `TrackEnds`, `RunInTrack`, `AtInTrack`, `NextTrackStart`).
`StepsCount` needs one fact more (`FillsItsTrack`: the track that is being
read is the one the loop asked for, so that the next iteration finds it
cached), and then has one lemma for the loop, one for what returns to it, one
for the source and one for the clients (`LoopNearer`, `ReturnNearer`,
`SourceNearer`, `ClientsNoFarther`). That the orders have no infinite descent is
mathematics about numbers and finite sets and not proved here.

**VirtioBlkUnit** (`VirtioBlkUnitProofs`). `UnitInvariant` says what each flag
tells about a request's place: it is in the list once, the head is being served
or is queued or done, and its owner waits. It holds for both kinds of device and
gives `HeadIsCurrent`, `HeadReady`, `ReplyOwed`, `NoLostWakeup` and, as a step
property, `AbortHonoured`. `OneInterruptInvariant` adds that a transfer is in
one place (with the device, in its interrupt or in the signal) and how far the
service has come; under `OneInterrupt = TRUE` it gives `CallbackWaits`,
`InterruptExpected` and `ServedBeforeReply`.

`QueueRefinement` takes both kinds of device. Its invariant `QueueInvariant`
says what the flags and the error of a request tell about its place in the
queue: a flag "QUEUED" is only found on a request that waits, one that waits and is
done is an aborted one, and only the request that is finishing was served and
is still queued. Each action is then a step of the queue or a stutter
(`BeginRefines`, `AbortRefines`, `WorkerRefines`); the lemmas on sequences
(`PutInFront`, `FrontAgain`, `HeldAppend`) say what becomes of the queue when
its head changes from list to worker. With one interrupt per notification,
`OneInterruptInvariant` adds what `MustServe` asks for: the request that
finishes was served.
`HandshakeRefinement` goes step by step and needs no
invariant.

**UnitCache** (`UnitCacheProofs`). `UnitRefinement` and `CacheRefinement` show
that each step of the whole is a step of either module, or stutters in it. The
first needs no invariant. It brings `OneInterruptInvariant` of the unit into the
composition, on which the second rests, with an invariant of its own
(`RequestsFit`: what the worker finds in a request is what the client asked for,
and the range check let it through). Nothing is assumed of offsets and lengths:
both refinements, and those of the queue and the store they carry, hold for
empty requests and for those that wrap. `RangeChecked` is about the others: the
check says that the last sector lies on the disk (`RequestChecked`), the loop of
the cache that what it is about to fill is not behind it (`FillOnDisk`, which
needs of the cache that a fill is for the track asked for and that something of
the request remains). The second in turn brings
`CacheInvariant`. `WorkerInStep` proves `InStep` from the unit's invariant. For
`UpdatesSave`, `OwedInvariant` adds where the worker has got to with an update:
from the moment the cache has served it, what is still owed is in flight.
`QueueRefinement` and `StoreRefinement` carry the two abstractions through the
composition: the whole of unit, cache and device serves its requests in order
and reads and writes the disk as if there were neither a cache nor a worker, and
behind the end of the disk promises nothing of what it saved.

**Transfer** (`TransferProofs`). `TransferInvariant` says that the device rests
whenever the worker fills the request in, that at most three entries are
left of an offer, and how much of the request is filled in at each place. With
`OneInterrupt = TRUE` it gives `RequestsAreWhole` and
`StatusStaysCurrent`, for queues of any size; type correctness needs no such device.
`HandshakeRefinement`, with `OneInterrupt = TRUE`, shows that the one step
`VirtioBlkUnit` makes of a transfer is right: `OfferRefines` that the offer adds
three executions wherever the index wraps (`EntriesAhead`, from the arithmetic
of differences modulo `IndexRange`), `TakingIsQuiet` that taking an entry is not
seen from outside, `CompletionRefines` that a completion is the last one when
the device has caught up. `WakeupsArrive` needs `Underway`: between the offer
and the return something is on the way, and what the device has not taken it
was notified of. `StepsCount` uses the handshake for the device's side.

**VirtQueues** (`VirtQueuesProofs`). `LayoutFits`: for each number of entries
and each address of the block, what `vring_init` lays out begins on a page,
does not overlap and ends within what `vring_size` asked for. `HeapInvariant`
says of each queue that it is set up whole or not at all, also between two
passes of the loop and behind the error path, and that every block is owned.
`RingsStayInside` follows with `LayoutFits`, `BlocksAreOwned` at once.

**VirtioBlkInit** (`VirtioBlkInitProofs`). `BootInvariant` says what the boot
task holds at each step, how far the device of the unit has come and that,
while it waits, `SIGF_SINGLE` comes from the worker it waits for.
`UnitsServed`, `ConfigurationRead` and, with `BegunInOrder` (no unit behind the
one in hand was begun), `FailuresContained` follow.

**BootTest** (`BootTestProofs`). `BootInvariant` says of each place in a test
which pointers its call holds (`WellFormed`), that a call below another waits
for it (`StackOK`), and that a task is in `DoIO` of the disk whenever its
request is not idle in the unit (`WaitsInDoIO`). The unit's part is
`UnitInvariant`, through the instance: its invariance is cited from
`VirtioBlkUnitProofs`. The open counts are cardinalities of the sets of calls
between open and close, and change by one with the call that opens or closes.
`MemoryIsHeld` and `RequestsStayAlive` follow. `UnitRefinement` says that the
tests are clients `VirtioBlkUnit` allows, and `QueueRefinement` that their
requests stand in its queue.

**DetectVirtio** (`DetectVirtioProofs`). `DetectInvariant` adds to the types
what is allocated at each place (`Holdings`), how far the set-up has come
(`Progress`), and which executions are open (`Executions`, `LastIsThis`): three
for each turn, the last of them with this turn's header. `MemoryIsSafe` and
`ShownWasAsked` follow.

Model-checked only: liveness (`PromiseKept`, `RequestEnds`, `SyncEnds`, `Answered`,
`TransferEnds`, `BootEnds`, `TestsEnd`, `DetectEnds`), since the prover has
neither fairness nor `ENABLED`. The halves of these that are about steps are
proved: no wakeup is lost (`WakeupsArrive`, of the unit and of a transfer), the
worker never finds a head it can do nothing with (`HeadAlwaysReady`), and each
step counts (`StepsCount`, of the cache and of a transfer). The inductive invariants are proved, which is
stronger than checking them.

## 5. What the checks found

* **`avail->idx + 3`** (`internal_functions.c:246`, run `unit_callback`). The
  transfer puts one chain in the ring and offers three entries. The device
  executes the chain three times, and if it interrupts for the first the
  callback returns while the device still works on the buffer. With such a
  device a late interrupt can also take `IOF_CURRENT` away between two looks at
  the head, so that a request is replied to unserved, and the device can read a
  header that is half the next transfer's: `ServedBeforeReply`
  and `NoTornRequest` hold because `OneInterrupt` is assumed.
* **A queued `VB_FORMAT` is dropped** (`internal_functions.c:54`, run
  `unit_format`): it is replied to with success.
* **One cache for all units** (`init_function_table.c:165`, run `init_cache`).
  A comment says there is one per unit; there is one `CacheBase`, and the last
  unit's configuration replaces the others'.

Seen while modelling, and in the models as the code has it, but stated by no
document that a run could quote:

* `io_Actual` stays 0 for what is served late (`internal_functions.c:51`).
* A failed transfer is not noticed: the status word is right when the callback
  returns (`StatusIsCurrent`) and nobody looks at it.
* The range check (`async_commands.c:52`, `104`) computes the last sector in a
  word that wraps. It lets in an empty request at the first sector behind the
  disk, and one that starts behind the end and wraps to its beginning (0xFFFFFFFF
  and two sectors). When they miss the cache they are queued, and the worker
  fills tracks the device does not have. `FillsFromDisk` and the theorem
  `RangeChecked` say that no other request gets there.
* A queue of less than three entries is overrun (`internal_functions.c:214`):
  `virtio_InitQueues` takes any power of two
  (`lib.virtio/library_functions.c:134-142`), and the transfer writes three
  descriptors. `Transfer` stops there.
* A unit without memory for its queue or its headers becomes available.
* A failure behind `DRV_OK` (`init_function_table.c:139`, `148`, `165`) gives back
  the task data and the cache, and keeps the queue and the headers of the unit
  it hit; the device is not reset. `FailureIsContained` says no more than that
  this is one unit, and that no other is touched.
* Without `VIRTIO_BLK_F_BLK_SIZE` the block size is 0, and reads and writes
  divide by it (`async_commands.c:45`, `97`). This is undefined; `UnitCache`
  counts in sectors and is about units with a block size.
* `VirtioFreeQueues` is called by no driver, and would leave the device with
  the pages until its reset.
* `DetectVirtio` returns while a slow device may still write to its stack, and
  never frees its queue.

## 6. What is assumed and left out

* The machine has one processor, and an operation on a flag word is one
  instruction: no half-done `SET_BITS` is seen by the interrupt server.
* exec.library, timer.device and the device are external: `Forbid`, `Wait`,
  `Signal`, `PutMsg`, `ReplyMsg`, `DoIO`, `SendIO`, `WaitIO` do what exec says,
  a timer answers some day, a device executes what it is offered.
  `AllocSignal` of a new task and `TaskCreate` do not fail.
* With an empty list the interrupt server reads the flags of address 0. This
  changes no request in the model; `InterruptExpected` says when it cannot
  happen.
* For a sector behind its end the device has nothing: it transfers nothing and
  says so in the status word. The model lets a fill find anything there, and a
  write-back be kept until it is read again.
* In `UnitCache` and `BootTest` the device interrupts once per notification. A
  device that fails a transfer is in `Transfer` only, as a status: what it
  would leave in the buffer or on the disk is not modelled, since nothing in
  the code depends on it.
* A transfer of a unit whose queue is NULL is undefined and left out; so is
  sharing the PCI device between the driver and `DetectVirtio`.
* Disk presence and write protection never change, so their errors do not
  occur. A configuration-change interrupt (ISR 3) is not among the interrupts:
  the driver asks for none.
* Hazards without a property, with the reason in `PROJECT.json`: a quick
  `SendIO` that is not replied to; `io_Actual`; the status word nobody looks at;
  quick writes that overtake queued ones; ISR compared with 1; and what is
  undefined, a block size of 0, a transfer without queue or headers or in a queue
  of less than three entries, a test's
  NULL buffer, a free through NULL in `DetectVirtio`.
* Not modelled: register access (port I/O), jump tables and resident tags,
  logging, and the boot tests of other parts of PowerOS (graphics, keyboard,
  mouse, memory). These programs are a large part of the source by lines and do
  not call the driver, the cache or virtio.

## 7. Order of the work, and what is left

The modules were written in the order of section 2, the heart of the system
first, each with its runs and then its proofs. Left, and why:

* **Counting steps elsewhere.** `BootEnds`, `TestsEnd` and `DetectEnds` are
  about straight sequences and bounded loops; an action property like
  `EveryStepCounts` would say for them little more than their `pc` does.
* **Two units over one cache library.** `VirtioBlkInit` shows that they share
  it. What two units then do to each other's blocks would be a second instance
  of `UnitCache`, and break each property of it for this one reason.
* **A failing device in `UnitCache`.** It needs a decision of the driver on
  what a failed transfer means, and there is none in the code to model.
* **Liveness of the composition.** `Answered` of `UnitCache` follows from
  `RequestEnds` and from the unit's fairness, but only for clients that stop
  dirtying the cached track; its state space is out of reach with liveness.
