----------------------------- MODULE VirtQueues -----------------------------
(***************************************************************************)
(* The virtqueues of one VirtioDevice (src/src/lib.virtio): a driver calls *)
(* VirtioAllocateQueues, VirtioInitQueues and VirtioFreeQueues in turn.    *)
(* Any AllocVec may fail, and places a block anywhere; the device reports  *)
(* any queue size. An address is a number, 0 is NULL.                      *)
(***************************************************************************)
EXTENDS VringLayout, Sequences

CONSTANTS Addresses,   \* where AllocVec may place a block
          QueueNums,   \* what the device may answer for VIRTIO_QSIZE
          NumQueues,   \* the num_queues a driver asks for
          QueueSize    \* sizeof struct virtio_queue

ASSUME AddressesAssumption == Addresses \subseteq Nat \ {0}

ASSUME NumsAssumption == QueueNums \subseteq Nat /\ NumQueues \subseteq Int /\ QueueSize \in Nat

VARIABLES
  heap,     \* the live blocks: a function from their addresses to their sizes
  queues,   \* vd->queues
  queue,    \* the structures there, numbered from 1
  qaddr,    \* the page the device was given for each queue, 0 for none
  i,        \* loop index of virtio_InitQueues
  phase     \* "closed", "allocated", "initialising", "ready" or "failed"

vars == <<heap, queues, queue, qaddr, i, phase>>

NULL == 0

EmptyQueue == [num |-> 0, unaligned_addr |-> NULL, paddr |-> NULL, data |-> NULL, page |-> 0]

(***************************************************************************)
(* Memory                                                                  *)
(***************************************************************************)

\* A block of that size can be placed at a.
Fits(a, size, hp) ==
  \A b \in DOMAIN hp : a # b /\ (a + size <= b \/ b + hp[b] <= a)

\* What AllocVec(size) may return: it can fail at any time.
AllocVec(size, hp) == {NULL} \cup {a \in Addresses : Fits(a, size, hp)}

Allocated(a, size, hp) ==
  IF a = NULL THEN hp
  ELSE [b \in DOMAIN hp \cup {a} |-> IF b = a THEN size ELSE hp[b]]

\* FreeVec of NULL does nothing.
FreeVec(as, hp) == [b \in DOMAIN hp \ as |-> hp[b]]

PowerOfTwoOrZero(n) == n = 0 \/ \E k \in 0 .. 15 : n = 2 ^ k     \* n & (n - 1) = 0

(***************************************************************************)
(* Operations                                                              *)
(***************************************************************************)

Init ==
  /\ heap = [a \in {} |-> 0]
  /\ queues = NULL /\ queue = <<>> /\ qaddr = <<>>
  /\ i = 0
  /\ phase = "closed"

\* The driver has just reset the device.
AllocateQueues(n) ==
  /\ phase = "closed"
  /\ n >= 0 /\ n <= 256
  /\ \E a \in AllocVec(n * QueueSize, heap) :
       /\ heap' = Allocated(a, n * QueueSize, heap)
       /\ queues' = a
       /\ phase' = IF a = NULL THEN "closed" ELSE "allocated"
       /\ queue' = IF a = NULL THEN <<>> ELSE [j \in 1 .. n |-> EmptyQueue]
  /\ qaddr' = [j \in 1 .. n |-> 0]
  /\ UNCHANGED i

StartInit ==
  /\ phase = "allocated"
  /\ phase' = "initialising" /\ i' = 1
  /\ UNCHANGED <<heap, queues, queue, qaddr>>

\* The jump to free: it hands queues[i], not queues[j], to Virtio_free_phys_queue.
InitFails(q, hp) ==
  /\ phase' = "failed"
  /\ IF i > 1
     THEN /\ heap' = FreeVec({q.unaligned_addr, q.data}, hp)
          /\ queue' = [queue EXCEPT ![i] =
               [q EXCEPT !.unaligned_addr = NULL, !.paddr = NULL, !.data = NULL]]
     ELSE heap' = hp /\ queue' = [queue EXCEPT ![i] = q]
  /\ UNCHANGED <<queues, qaddr, i>>

\* Mutant: the ring is not freed when there is no memory for the data pointers.
MutAllocPhysQueueFails(num) ==
  \E ring \in AllocVec(vring_size(num), heap) :
    LET hp == Allocated(ring, vring_size(num), heap)
    IN  InitFails([queue[i] EXCEPT !.num = num], hp)

\* Virtio_alloc_phys_queue gets no ring, or a ring but no data pointers.
AllocPhysQueueFails(num) ==
  \E ring \in AllocVec(vring_size(num), heap) :
    LET hp == Allocated(ring, vring_size(num), heap)
    IN  InitFails([queue[i] EXCEPT !.num = num], FreeVec({ring}, hp))

AllocPhysQueue(num) ==
  \E ring \in AllocVec(vring_size(num), heap) \ {NULL} :
    LET hp == Allocated(ring, vring_size(num), heap)
    IN  \E dat \in AllocVec(PointerSize * num, hp) \ {NULL} :
          /\ heap' = Allocated(dat, PointerSize * num, hp)
          /\ queue' = [queue EXCEPT ![i] =
               [num |-> num, unaligned_addr |-> ring, paddr |-> PhysAddr(ring),
                data |-> dat, page |-> Page(PhysAddr(ring))]]
          /\ qaddr' = [qaddr EXCEPT ![i] = Page(PhysAddr(ring))]

\* One turn of the loop in virtio_InitQueues.
InitQueue ==
  /\ phase = "initialising" /\ i <= Len(queue)
  /\ \E num \in QueueNums :
       \/ ~PowerOfTwoOrZero(num) /\ InitFails([queue[i] EXCEPT !.num = num], heap)
       \/ PowerOfTwoOrZero(num) /\ AllocPhysQueueFails(num)
       \/ PowerOfTwoOrZero(num) /\ AllocPhysQueue(num) /\ i' = i + 1 /\ UNCHANGED <<queues, phase>>

EndInit ==
  /\ phase = "initialising" /\ i > Len(queue)
  /\ phase' = "ready"
  /\ UNCHANGED <<heap, queues, queue, qaddr, i>>

\* Nobody tells the device: it keeps the pages until it is reset.
FreeQueues ==
  /\ phase \in {"allocated", "ready", "failed"}
  /\ heap' = FreeVec({queue[j].unaligned_addr : j \in DOMAIN queue}
                     \cup {queue[j].data : j \in DOMAIN queue} \cup {queues}, heap)
  /\ queues' = NULL /\ queue' = <<>>
  /\ phase' = "closed" /\ i' = 0
  /\ UNCHANGED qaddr

Next ==
  \/ \E n \in NumQueues : AllocateQueues(n)
  \/ StartInit \/ InitQueue \/ EndInit
  \/ FreeQueues

Spec == Init /\ [][Next]_vars

(***************************************************************************)
(* Properties                                                              *)
(***************************************************************************)

QueueType == [num: Nat, unaligned_addr: Nat, paddr: Nat, data: Nat, page: Nat]

\* Every variable has the type its C declaration gives it.
TypeOK ==
  /\ DOMAIN heap \subseteq Addresses /\ heap \in [DOMAIN heap -> Nat]
  /\ queues \in Nat
  /\ queue \in Seq(QueueType) /\ qaddr \in Seq(Nat) /\ Len(queue) <= Len(qaddr)
  /\ i \in Nat
  /\ phase \in {"closed", "allocated", "initialising", "ready", "failed"}

\* A block of the heap that is still live covers the bytes from first to last.
Covers(a, first, last) == a \in DOMAIN heap /\ a <= first /\ last <= a + heap[a]

(* Until the queues are freed, every page the device was given since it    *)
(* was reset is where the driver put the queue, and descriptor table,      *)
(* available ring, used ring and data pointers lie without overlap in      *)
(* blocks of their own that are still live: the device writes to no memory *)
(* but the queue's (vring_init, vring_size and Virtio_alloc_phys_queue     *)
(* agree on the layout).                                                   *)
RingsInside ==
  \A j \in DOMAIN queue : qaddr[j] # 0 =>
    LET q == queue[j]
        v == vring_init(q.num, q.paddr)
    IN  /\ qaddr[j] * Align = v.desc
        /\ v.desc + DescSize * q.num <= v.avail
        /\ v.avail + AvailSize(q.num) <= v.used
        /\ v.used % Align = 0
        /\ Covers(q.unaligned_addr, v.desc, v.used + UsedSize(q.num))
        /\ Covers(q.data, q.data, q.data + PointerSize * q.num)

Owned == {queues} \cup {queue[j].unaligned_addr : j \in DOMAIN queue}
                  \cup {queue[j].data : j \in DOMAIN queue}

(* However initialisation ends, no block is lost and none is freed while   *)
(* the device structure still points to it, and no two pointers lead to    *)
(* one block: a driver that calls VirtioFreeQueues gets everything back,   *)
(* once.                                                                   *)
EveryBlockOwned ==
  /\ DOMAIN heap = Owned \ {NULL}
  /\ \A j, k \in DOMAIN queue :
       /\ queue[j].unaligned_addr # NULL => queue[j].unaligned_addr \notin {queues, queue[k].data}
       /\ queue[j].data # NULL => queue[j].data # queues
       /\ j # k /\ queue[j].unaligned_addr # NULL =>
            queue[j].unaligned_addr # queue[k].unaligned_addr
       /\ j # k /\ queue[j].data # NULL => queue[j].data # queue[k].data

\* A queue the device knows: its two blocks have the sizes asked for.
SetUp(j) ==
  LET q == queue[j]
  IN  /\ {q.unaligned_addr, q.data} \subseteq DOMAIN heap
      /\ heap[q.unaligned_addr] = vring_size(q.num) /\ heap[q.data] = PointerSize * q.num
      /\ q.paddr = PhysAddr(q.unaligned_addr) /\ qaddr[j] = Page(q.paddr)

NotSetUp(j) == queue[j].unaligned_addr = NULL /\ queue[j].data = NULL /\ qaddr[j] = 0

\* The inductive invariant: queues are set up in turn, and what a failed
\* turn hands to Virtio_free_phys_queue holds nothing.
HeapInvariant ==
  /\ TypeOK /\ EveryBlockOwned
  /\ \A j \in DOMAIN queue : SetUp(j) \/ NotSetUp(j)
  /\ phase \in {"closed", "allocated"} => i = 0
  /\ phase = "closed" => queues = NULL /\ queue = <<>>
  /\ phase = "initialising" => i > 0
  /\ phase \in {"allocated", "initialising"} => \A j \in DOMAIN queue : j >= i => NotSetUp(j)
=============================================================================
