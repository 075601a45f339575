-------------------------- MODULE VirtQueuesProofs --------------------------
(***************************************************************************)
(* Proofs about VringLayout and VirtQueues, for queues of any number and   *)
(* size, placed anywhere.                                                  *)
(***************************************************************************)
EXTENDS VirtQueues, SequenceTheorems, TLAPS

-----------------------------------------------------------------------------
(* Layout.                                                                 *)

\* Rounding up reaches the next multiple of Align, and no further.
LEMMA RoundUpBounds ==
  ASSUME NEW x \in Nat
  PROVE  RoundUp(x) \in Nat /\ RoundUp(x) >= x /\ RoundUp(x) < x + Align /\ RoundUp(x) % Align = 0
BY DEF RoundUp, Align

\* The start of the queue is a page that begins inside the allocation.
LEMMA PhysAddrBounds ==
  ASSUME NEW a \in Nat
  PROVE  /\ PhysAddr(a) \in Nat
         /\ PhysAddr(a) > a /\ PhysAddr(a) <= a + Align
         /\ PhysAddr(a) % Align = 0
         /\ Page(PhysAddr(a)) * Align = PhysAddr(a)
BY DEF PhysAddr, Page, Align

\* Rounding up commutes with moving by whole pages.
LEMMA RoundUpPage ==
  ASSUME NEW p \in Nat, p % Align = 0, NEW x \in Nat
  PROVE  RoundUp(p + x) = p + RoundUp(x)
BY DEF RoundUp, Align

(* The parts of a queue follow one another without overlap, start where    *)
(* the device expects them, and end inside the memory that                 *)
(* Virtio_alloc_phys_queue asks for, wherever AllocVec puts it.            *)
THEOREM LayoutFits ==
  ASSUME NEW num \in Nat, NEW a \in Nat
  PROVE  LET v == vring_init(num, PhysAddr(a))
         IN  /\ a <= v.desc
             /\ v.desc % Align = 0 /\ Page(PhysAddr(a)) * Align = v.desc
             /\ v.desc + DescSize * num <= v.avail
             /\ v.avail + AvailSize(num) <= v.used
             /\ v.used % Align = 0
             /\ v.used + UsedSize(num) <= a + vring_size(num)
<1> DEFINE p == PhysAddr(a)
           front == DescSize * num + AvailSize(num)
           back  == UsedSize(num)
<1>1. front \in Nat /\ back \in Nat /\ AvailSize(num) \in Nat /\ DescSize * num \in Nat
  BY DEF AvailSize, UsedSize, DescSize, UsedElemSize, Uint16Size
<1>2. /\ p \in Nat /\ p > a /\ p <= a + Align /\ p % Align = 0
      /\ Page(p) * Align = p
  BY PhysAddrBounds
<1>3. /\ RoundUp(front) \in Nat /\ RoundUp(front) >= front
      /\ RoundUp(back) \in Nat /\ RoundUp(back) >= back
  BY <1>1, RoundUpBounds
<1>4. RoundUp(p + front) = p + RoundUp(front) /\ RoundUp(p + front) % Align = 0
  <2> HIDE DEF p, front
  <2>1. RoundUp(p + front) = p + RoundUp(front)
    BY <1>1, <1>2, RoundUpPage
  <2>2. RoundUp(p + front) % Align = 0
    BY <1>1, <1>2, RoundUpBounds
  <2> QED
    BY <2>1, <2>2
<1>5. p + DescSize * num + AvailSize(num) = p + front
  BY <1>1, <1>2
<1>6. vring_init(num, p) = [desc |-> p, avail |-> p + DescSize * num, used |-> RoundUp(p + front)]
  BY <1>5 DEF vring_init
<1>7. vring_size(num) = RoundUp(front) + RoundUp(back) + Align
  BY DEF vring_size
<1> HIDE DEF p, front, back
<1>8. p + RoundUp(front) + back <= a + (RoundUp(front) + RoundUp(back) + Align)
  BY <1>1, <1>2, <1>3 DEF Align
<1>9. p + DescSize * num + AvailSize(num) <= p + RoundUp(front)
  BY <1>1, <1>2, <1>3, <1>5
<1> QED
  BY <1>1, <1>2, <1>4, <1>6, <1>7, <1>8, <1>9 DEF p, back

-----------------------------------------------------------------------------
(* The heap.                                                               *)

HeapType(hp) == DOMAIN hp \subseteq Addresses /\ hp \in [DOMAIN hp -> Nat]

\* A block allocated is new; the others stay as they are.
LEMMA AllocatedBlock ==
  ASSUME NEW hp, HeapType(hp), NEW size \in Nat, NEW a \in AllocVec(size, hp), a # NULL
  PROVE  /\ a \in Addresses /\ a \in Nat /\ a \notin DOMAIN hp
         /\ HeapType(Allocated(a, size, hp))
         /\ DOMAIN Allocated(a, size, hp) = DOMAIN hp \cup {a}
         /\ \A b \in DOMAIN hp : Allocated(a, size, hp)[b] = hp[b]
<1>1. a \in Addresses /\ a \in Nat /\ a \notin DOMAIN hp
  BY AddressesAssumption DEF AllocVec, Fits
<1>2. Allocated(a, size, hp) = [b \in DOMAIN hp \cup {a} |-> IF b = a THEN size ELSE hp[b]]
  BY DEF Allocated
<1> QED
  BY <1>1, <1>2 DEF HeapType

\* Freeing NULL, or a block just allocated, leaves the heap as it was.
LEMMA FreeNothing ==
  ASSUME NEW hp, HeapType(hp)
  PROVE  FreeVec({NULL}, hp) = hp
BY AddressesAssumption DEF HeapType, FreeVec, NULL

LEMMA FreeNew ==
  ASSUME NEW hp, HeapType(hp), NEW size \in Nat, NEW a \in AllocVec(size, hp)
  PROVE  FreeVec({a}, Allocated(a, size, hp)) = hp
<1>1. CASE a = NULL
  BY <1>1, FreeNothing DEF Allocated
<1>2. CASE a # NULL
  <2>1. /\ a \notin DOMAIN hp /\ DOMAIN Allocated(a, size, hp) = DOMAIN hp \cup {a}
        /\ \A b \in DOMAIN hp : Allocated(a, size, hp)[b] = hp[b]
    BY <1>2, AllocatedBlock
  <2>2. FreeVec({a}, Allocated(a, size, hp)) = [b \in DOMAIN hp |-> hp[b]]
    BY <2>1 DEF FreeVec
  <2> QED
    BY <2>2 DEF HeapType
<1> QED
  BY <1>1, <1>2

\* What is asked for is a number of bytes.
LEMMA SizesAreNumbers ==
  ASSUME NEW num \in Nat
  PROVE  vring_size(num) \in Nat /\ PointerSize * num \in Nat
<1>1. DescSize * num + AvailSize(num) \in Nat /\ UsedSize(num) \in Nat
  BY DEF DescSize, AvailSize, UsedSize, Uint16Size, UsedElemSize
<1>2. RoundUp(DescSize * num + AvailSize(num)) \in Nat /\ RoundUp(UsedSize(num)) \in Nat
  BY <1>1, RoundUpBounds
<1> QED
  BY <1>2 DEF vring_size, Align, PointerSize

LEMMA PagesAreNumbers ==
  ASSUME NEW a \in Nat
  PROVE  Page(PhysAddr(a)) \in Nat /\ PhysAddr(a) \in Nat
<1>1. PhysAddr(a) \in Nat
  BY PhysAddrBounds
<1> QED
  BY <1>1 DEF Page, Align

-----------------------------------------------------------------------------
(* The invariant is inductive: one lemma per operation.                    *)

LEMMA InitInvariant == Init => HeapInvariant
<1> SUFFICES ASSUME Init PROVE HeapInvariant
  OBVIOUS
<1>1. queue \in Seq(QueueType) /\ qaddr \in Seq(Nat) /\ Len(queue) = 0 /\ Len(qaddr) = 0 /\ DOMAIN queue = {}
  BY DEF Init
<1>2. DOMAIN heap = {} /\ heap \in [DOMAIN heap -> Nat]
  BY DEF Init
<1>3. TypeOK
  BY <1>1, <1>2 DEF Init, TypeOK, NULL
<1>4. EveryBlockOwned
  BY <1>1, <1>2 DEF Init, EveryBlockOwned, Owned
<1> QED
  BY <1>1, <1>3, <1>4 DEF HeapInvariant, Init

LEMMA AllocateQueuesInvariant ==
  ASSUME HeapInvariant, NEW n \in NumQueues, AllocateQueues(n)
  PROVE  HeapInvariant'
<1>1. /\ HeapType(heap) /\ DOMAIN heap = {} /\ i = 0
      /\ n \in Nat /\ n * QueueSize \in Nat
  <2>1. queues = NULL /\ queue = <<>> /\ i = 0
    BY DEF HeapInvariant, AllocateQueues
  <2>2. DOMAIN heap = {}
    BY <2>1 DEF HeapInvariant, EveryBlockOwned, Owned
  <2> QED
    BY <2>1, <2>2, NumsAssumption DEF HeapInvariant, TypeOK, HeapType, AllocateQueues
<1>2. PICK a \in AllocVec(n * QueueSize, heap) :
        /\ heap' = Allocated(a, n * QueueSize, heap)
        /\ queues' = a
        /\ phase' = IF a = NULL THEN "closed" ELSE "allocated"
        /\ queue' = IF a = NULL THEN <<>> ELSE [j \in 1 .. n |-> EmptyQueue]
  BY DEF AllocateQueues
<1>3. qaddr' = [j \in 1 .. n |-> 0] /\ i' = 0
  BY <1>1 DEF AllocateQueues
<1>4. qaddr' \in Seq(Nat) /\ Len(qaddr') = n
  BY <1>1, <1>3
<1>5. EmptyQueue \in QueueType
  BY DEF EmptyQueue, QueueType, NULL
<1>6. CASE a = NULL
  <2>1. heap' = heap /\ queues' = NULL /\ queue' = <<>> /\ phase' = "closed"
    BY <1>2, <1>6 DEF Allocated
  <2>2. TypeOK'
    BY <1>1, <1>3, <1>4, <2>1 DEF TypeOK, HeapType, NULL
  <2>3. EveryBlockOwned'
    BY <1>1, <2>1 DEF EveryBlockOwned, Owned
  <2> QED
    BY <1>3, <2>1, <2>2, <2>3 DEF HeapInvariant
<1>7. CASE a # NULL
  <2>1. /\ a \in Nat /\ HeapType(heap') /\ DOMAIN heap' = {a}
    <3>1. a \in Nat /\ HeapType(Allocated(a, n * QueueSize, heap))
      BY <1>1, <1>7, AllocatedBlock
    <3>2. DOMAIN Allocated(a, n * QueueSize, heap) = DOMAIN heap \cup {a}
      BY <1>1, <1>7, AllocatedBlock
    <3> QED
      BY <1>1, <1>2, <3>1, <3>2 DEF HeapType
  <2>2. queues' = a /\ phase' = "allocated" /\ queue' = [j \in 1 .. n |-> EmptyQueue]
    BY <1>2, <1>7
  <2>3. queue' \in Seq(QueueType) /\ Len(queue') = n /\ DOMAIN queue' = 1 .. n
    BY <1>1, <1>5, <2>2
  <2>4. \A j \in 1 .. n : queue'[j].unaligned_addr = NULL /\ queue'[j].data = NULL
    BY <2>2 DEF EmptyQueue
  <2>5. \A j \in 1 .. n : NotSetUp(j)'
    BY <1>3, <2>4 DEF NotSetUp
  <2>6. TypeOK'
    BY <1>1, <1>3, <1>4, <2>1, <2>2, <2>3 DEF TypeOK, HeapType
  <2>7. EveryBlockOwned'
    BY <1>7, <2>1, <2>2, <2>3, <2>4 DEF EveryBlockOwned, Owned
  <2> QED
    BY <1>3, <2>2, <2>3, <2>5, <2>6, <2>7 DEF HeapInvariant
<1> QED
  BY <1>6, <1>7

LEMMA StartInitInvariant ==
  ASSUME HeapInvariant, StartInit
  PROVE  HeapInvariant'
<1>1. UNCHANGED <<heap, queues, queue, qaddr>> /\ phase' = "initialising" /\ i' = 1
  BY DEF StartInit
<1>2. TypeOK' /\ EveryBlockOwned'
  BY <1>1 DEF HeapInvariant, TypeOK, EveryBlockOwned, Owned
<1>3. \A j \in DOMAIN queue : NotSetUp(j)
  <2>1. DOMAIN queue = 1 .. Len(queue)
    BY DEF HeapInvariant, TypeOK
  <2> QED
    BY <2>1 DEF HeapInvariant, StartInit
<1>4. \A j \in DOMAIN queue' : NotSetUp(j)'
  BY <1>1, <1>3 DEF NotSetUp
<1> QED
  BY <1>1, <1>2, <1>4 DEF HeapInvariant

\* What a failed turn leaves of the queue it was at.
LEMMA InitFailsInvariant ==
  ASSUME HeapInvariant, phase = "initialising", i <= Len(queue),
         NEW num \in Nat, InitFails([queue[i] EXCEPT !.num = num], heap)
  PROVE  HeapInvariant'
<1> DEFINE q == [queue[i] EXCEPT !.num = num]
<1>1. /\ i \in DOMAIN queue /\ queue[i] \in QueueType /\ queue \in Seq(QueueType)
      /\ DOMAIN queue = 1 .. Len(queue) /\ HeapType(heap)
  BY DEF HeapInvariant, TypeOK, HeapType
<1>2. NotSetUp(i)
  BY <1>1 DEF HeapInvariant, TypeOK
<1>3. q \in QueueType /\ q.unaligned_addr = NULL /\ q.data = NULL
  BY <1>1, <1>2 DEF NotSetUp, QueueType
<1>4. PICK r \in QueueType : /\ queue' = [queue EXCEPT ![i] = r]
                            /\ r.unaligned_addr = NULL /\ r.data = NULL
  <2>1. [q EXCEPT !.unaligned_addr = NULL, !.paddr = NULL, !.data = NULL] \in QueueType
    BY <1>3 DEF QueueType, NULL
  <2> QED
    BY <1>3, <2>1 DEF InitFails, QueueType
<1>5. heap' = heap
  <2>1. {q.unaligned_addr, q.data} = {NULL}
    BY <1>3
  <2> QED
    BY <1>1, <2>1, FreeNothing DEF InitFails
<1>6. phase' = "failed" /\ UNCHANGED <<queues, qaddr, i>>
  BY DEF InitFails
<1>7. queue' \in Seq(QueueType) /\ Len(queue') = Len(queue) /\ DOMAIN queue' = DOMAIN queue
  BY <1>1, <1>4
<1>8. \A j \in DOMAIN queue : queue'[j].unaligned_addr = queue[j].unaligned_addr
                              /\ queue'[j].data = queue[j].data
  BY <1>1, <1>2, <1>4 DEF NotSetUp
<1>9. TypeOK'
  BY <1>5, <1>6, <1>7 DEF HeapInvariant, TypeOK
<1>10. EveryBlockOwned'
  <2>1. Owned' = Owned
    BY <1>6, <1>7, <1>8 DEF Owned
  <2> QED
    BY <1>5, <1>6, <1>7, <1>8, <2>1 DEF HeapInvariant, EveryBlockOwned
<1>11. \A j \in DOMAIN queue' : (SetUp(j) \/ NotSetUp(j))'
  <2> SUFFICES ASSUME NEW j \in DOMAIN queue PROVE SetUp(j)' \/ NotSetUp(j)'
    BY <1>7
  <2>1. CASE j = i
    BY <1>2, <1>6, <1>8, <2>1 DEF NotSetUp
  <2>2. CASE j # i
    BY <1>1, <1>4, <1>5, <1>6, <2>2 DEF HeapInvariant, SetUp, NotSetUp
  <2> QED
    BY <2>1, <2>2
<1> QED
  BY <1>6, <1>7, <1>9, <1>10, <1>11 DEF HeapInvariant

\* A turn that succeeds: two new blocks, which the queue's pointers lead to.
LEMMA AllocPhysQueueInvariant ==
  ASSUME HeapInvariant, phase = "initialising", i <= Len(queue), NEW num \in Nat,
         AllocPhysQueue(num), i' = i + 1, UNCHANGED <<queues, phase>>
  PROVE  HeapInvariant'
<1>1. /\ i \in DOMAIN queue /\ queue \in Seq(QueueType) /\ DOMAIN queue = 1 .. Len(queue)
      /\ HeapType(heap) /\ i \in Nat /\ i \in DOMAIN qaddr
  BY DEF HeapInvariant, TypeOK, HeapType
<1>2. NotSetUp(i)
  BY <1>1 DEF HeapInvariant, TypeOK
<1>3. vring_size(num) \in Nat /\ PointerSize * num \in Nat
  BY SizesAreNumbers
<1>4. PICK ring \in AllocVec(vring_size(num), heap) \ {NULL} :
        LET hp == Allocated(ring, vring_size(num), heap)
        IN  \E dat \in AllocVec(PointerSize * num, hp) \ {NULL} :
              /\ heap' = Allocated(dat, PointerSize * num, hp)
              /\ queue' = [queue EXCEPT ![i] =
                   [num |-> num, unaligned_addr |-> ring, paddr |-> PhysAddr(ring),
                    data |-> dat, page |-> Page(PhysAddr(ring))]]
              /\ qaddr' = [qaddr EXCEPT ![i] = Page(PhysAddr(ring))]
  BY DEF AllocPhysQueue
<1> DEFINE hp == Allocated(ring, vring_size(num), heap)
<1>5. /\ ring \in Nat /\ ring \notin DOMAIN heap /\ ring # NULL
      /\ HeapType(hp) /\ DOMAIN hp = DOMAIN heap \cup {ring}
      /\ hp[ring] = vring_size(num) /\ \A b \in DOMAIN heap : hp[b] = heap[b]
  <2>1. ring # NULL
    OBVIOUS
  <2>2. /\ ring \in Nat /\ ring \notin DOMAIN heap
        /\ DOMAIN hp = DOMAIN heap \cup {ring}
    BY <1>1, <1>3, <2>1, AllocatedBlock
  <2>3. hp[ring] = vring_size(num) /\ \A b \in DOMAIN heap : hp[b] = heap[b]
    BY <2>1, <2>2 DEF Allocated
  <2>4. HeapType(hp)
    BY <1>1, <1>3, <2>1, AllocatedBlock
  <2> QED
    BY <2>1, <2>2, <2>3, <2>4
<1> HIDE DEF hp
<1>6. PICK dat \in AllocVec(PointerSize * num, hp) \ {NULL} :
        /\ heap' = Allocated(dat, PointerSize * num, hp)
        /\ queue' = [queue EXCEPT ![i] =
             [num |-> num, unaligned_addr |-> ring, paddr |-> PhysAddr(ring),
              data |-> dat, page |-> Page(PhysAddr(ring))]]
        /\ qaddr' = [qaddr EXCEPT ![i] = Page(PhysAddr(ring))]
  BY <1>4 DEF hp
<1>7. /\ dat \in Nat /\ dat \notin DOMAIN hp /\ dat # NULL
      /\ HeapType(heap') /\ DOMAIN heap' = DOMAIN heap \cup {ring, dat}
      /\ heap'[dat] = PointerSize * num
      /\ \A b \in DOMAIN hp : heap'[b] = hp[b]
  <2>1. dat # NULL
    OBVIOUS
  <2>2. /\ dat \in Nat /\ dat \notin DOMAIN hp
        /\ HeapType(Allocated(dat, PointerSize * num, hp))
        /\ DOMAIN Allocated(dat, PointerSize * num, hp) = DOMAIN hp \cup {dat}
    BY <1>3, <1>5, <2>1, AllocatedBlock
  <2>3. /\ heap'[dat] = PointerSize * num
        /\ \A b \in DOMAIN hp : heap'[b] = hp[b]
    BY <1>6, <2>1, <2>2 DEF Allocated
  <2>4. HeapType(heap')
    BY <1>6, <2>2 DEF HeapType
  <2> QED
    BY <1>5, <1>6, <2>1, <2>2, <2>3, <2>4
<1>8. Page(PhysAddr(ring)) \in Nat /\ PhysAddr(ring) \in Nat
  BY <1>5, PagesAreNumbers
<1>9. /\ queue' \in Seq(QueueType) /\ Len(queue') = Len(queue) /\ DOMAIN queue' = DOMAIN queue
      /\ qaddr' \in Seq(Nat) /\ Len(qaddr') = Len(qaddr)
  <2>1. [num |-> num, unaligned_addr |-> ring, paddr |-> PhysAddr(ring),
         data |-> dat, page |-> Page(PhysAddr(ring))] \in QueueType
    BY <1>5, <1>7, <1>8 DEF QueueType
  <2>2. qaddr \in Seq(Nat)
    BY DEF HeapInvariant, TypeOK
  <2> QED
    BY <1>1, <1>6, <1>8, <2>1, <2>2
<1>10. /\ queue'[i] = [num |-> num, unaligned_addr |-> ring, paddr |-> PhysAddr(ring),
                      data |-> dat, page |-> Page(PhysAddr(ring))]
       /\ qaddr'[i] = Page(PhysAddr(ring))
       /\ \A j \in DOMAIN queue : j # i => queue'[j] = queue[j] /\ qaddr'[j] = qaddr[j]
  <2>1. DOMAIN qaddr = 1 .. Len(qaddr) /\ DOMAIN queue \subseteq DOMAIN qaddr
    BY <1>1 DEF HeapInvariant, TypeOK
  <2> QED
    BY <1>1, <1>6, <2>1
<1>11. TypeOK'
  <2>1. queues' \in Nat /\ phase' \in {"closed", "allocated", "initialising", "ready", "failed"}
    BY DEF HeapInvariant, TypeOK
  <2>2. i' \in Nat /\ Len(queue') <= Len(qaddr')
    BY <1>1, <1>9 DEF HeapInvariant, TypeOK
  <2>3. DOMAIN heap' \subseteq Addresses /\ heap' \in [DOMAIN heap' -> Nat]
    BY <1>7 DEF HeapType
  <2> QED
    BY <1>9, <2>1, <2>2, <2>3 DEF TypeOK
<1>12. EveryBlockOwned'
  <2>1. Owned' \ {NULL} = (Owned \cup {ring, dat}) \ {NULL}
    <3>1. /\ queue'[i].unaligned_addr = ring /\ queue'[i].data = dat
          /\ queue[i].unaligned_addr = NULL /\ queue[i].data = NULL
          /\ queues' = queues
      BY <1>2, <1>10 DEF NotSetUp
    <3>2. \A j \in DOMAIN queue : j # i => /\ queue'[j].unaligned_addr = queue[j].unaligned_addr
                                          /\ queue'[j].data = queue[j].data
      BY <1>10
    <3> QED
      BY <1>1, <1>9, <3>1, <3>2 DEF Owned
  <2>2. DOMAIN heap' = Owned' \ {NULL}
    BY <1>5, <1>7, <2>1 DEF HeapInvariant, EveryBlockOwned
  <2>3. \A j \in DOMAIN queue : queue[j].unaligned_addr \in Owned /\ queue[j].data \in Owned
    BY DEF Owned
  <2>4. queues \in Owned /\ \A p \in Owned : p # ring /\ p # dat
    <3>1. Owned \subseteq DOMAIN heap \cup {NULL}
      BY DEF HeapInvariant, EveryBlockOwned
    <3> QED
      BY <1>5, <1>7, <3>1 DEF Owned
  <2>5. ring # dat
    BY <1>5, <1>7
  <2>6. ASSUME NEW j \in DOMAIN queue, NEW k \in DOMAIN queue
        PROVE  /\ queue'[j].unaligned_addr # NULL =>
                    queue'[j].unaligned_addr \notin {queues', queue'[k].data}
               /\ queue'[j].data # NULL => queue'[j].data # queues'
               /\ j # k /\ queue'[j].unaligned_addr # NULL =>
                    queue'[j].unaligned_addr # queue'[k].unaligned_addr
               /\ j # k /\ queue'[j].data # NULL => queue'[j].data # queue'[k].data
    <3>1. CASE j = i /\ k = i
      BY <1>10, <2>4, <2>5, <3>1
    <3>2. CASE j = i /\ k # i
      BY <1>10, <2>3, <2>4, <3>2
    <3>3. CASE j # i /\ k = i
      BY <1>10, <2>3, <2>4, <3>3 DEF HeapInvariant, EveryBlockOwned
    <3>4. CASE j # i /\ k # i
      BY <1>10, <3>4 DEF HeapInvariant, EveryBlockOwned
    <3> QED
      BY <3>1, <3>2, <3>3, <3>4
  <2> QED
    BY <1>9, <2>2, <2>6 DEF EveryBlockOwned
<1>13. \A j \in DOMAIN queue' : (SetUp(j) \/ NotSetUp(j))'
  <2> SUFFICES ASSUME NEW j \in DOMAIN queue PROVE SetUp(j)' \/ NotSetUp(j)'
    BY <1>9
  <2>1. CASE j = i
    BY <1>5, <1>7, <1>10, <2>1 DEF SetUp
  <2>2. CASE j # i
    <3>1. SetUp(j) \/ NotSetUp(j)
      BY DEF HeapInvariant
    <3> QED
      BY <1>5, <1>7, <1>10, <2>2, <3>1 DEF SetUp, NotSetUp
  <2> QED
    BY <2>1, <2>2
<1>14. \A j \in DOMAIN queue' : j >= i' => NotSetUp(j)'
  BY <1>1, <1>9, <1>10 DEF HeapInvariant, NotSetUp
<1> QED
  BY <1>1, <1>11, <1>12, <1>13, <1>14 DEF HeapInvariant

LEMMA InitQueueInvariant ==
  ASSUME HeapInvariant, InitQueue
  PROVE  HeapInvariant'
<1>1. phase = "initialising" /\ i <= Len(queue) /\ HeapType(heap)
  BY DEF InitQueue, HeapInvariant, TypeOK, HeapType
<1>2. PICK num \in QueueNums :
       \/ InitFails([queue[i] EXCEPT !.num = num], heap)
       \/ AllocPhysQueueFails(num)
       \/ AllocPhysQueue(num) /\ i' = i + 1 /\ UNCHANGED <<queues, phase>>
  BY DEF InitQueue
<1>3. num \in Nat
  BY NumsAssumption
<1>4. CASE InitFails([queue[i] EXCEPT !.num = num], heap)
  BY <1>1, <1>3, <1>4, InitFailsInvariant
<1>5. CASE AllocPhysQueueFails(num)
  <2>1. PICK ring \in AllocVec(vring_size(num), heap) :
          InitFails([queue[i] EXCEPT !.num = num],
                    FreeVec({ring}, Allocated(ring, vring_size(num), heap)))
    BY <1>5 DEF AllocPhysQueueFails
  <2>2. FreeVec({ring}, Allocated(ring, vring_size(num), heap)) = heap
    BY <1>1, <1>3, SizesAreNumbers, FreeNew
  <2> QED
    BY <1>1, <1>3, <2>1, <2>2, InitFailsInvariant
<1>6. CASE AllocPhysQueue(num) /\ i' = i + 1 /\ UNCHANGED <<queues, phase>>
  BY <1>1, <1>3, <1>6, AllocPhysQueueInvariant
<1> QED
  BY <1>2, <1>4, <1>5, <1>6

LEMMA EndInitInvariant ==
  ASSUME HeapInvariant, EndInit \/ UNCHANGED vars
  PROVE  HeapInvariant'
<1>1. UNCHANGED <<heap, queues, queue, qaddr, i>> /\ phase' \in {"ready", phase}
  BY DEF EndInit, vars
<1>2. TypeOK' /\ EveryBlockOwned'
  BY <1>1 DEF HeapInvariant, TypeOK, EveryBlockOwned, Owned
<1>3. \A j \in DOMAIN queue : SetUp(j)' = SetUp(j) /\ NotSetUp(j)' = NotSetUp(j)
  BY <1>1 DEF SetUp, NotSetUp
<1> QED
  BY <1>1, <1>2, <1>3 DEF HeapInvariant

LEMMA FreeQueuesInvariant ==
  ASSUME HeapInvariant, FreeQueues
  PROVE  HeapInvariant'
<1>1. /\ heap' = FreeVec(Owned, heap)
      /\ queues' = NULL /\ queue' = <<>> /\ phase' = "closed" /\ i' = 0 /\ qaddr' = qaddr
  <2>1. Owned = {queue[j].unaligned_addr : j \in DOMAIN queue}
                  \cup {queue[j].data : j \in DOMAIN queue} \cup {queues}
    BY DEF Owned
  <2> QED
    BY <2>1 DEF FreeQueues
<1>2. DOMAIN heap' = {} /\ heap' \in [DOMAIN heap' -> Nat]
  BY <1>1 DEF HeapInvariant, EveryBlockOwned, FreeVec
<1>3. TypeOK'
  BY <1>1, <1>2 DEF HeapInvariant, TypeOK, NULL
<1>4. EveryBlockOwned'
  BY <1>1, <1>2 DEF EveryBlockOwned, Owned
<1> QED
  BY <1>1, <1>3, <1>4 DEF HeapInvariant

(* However the allocator and the device answer, queues are set up one      *)
(* after the other, and the heap holds what the structures point to.       *)
THEOREM HeapInvariance == Spec => []HeapInvariant
<1>1. HeapInvariant /\ [Next]_vars => HeapInvariant'
  BY AllocateQueuesInvariant, StartInitInvariant, InitQueueInvariant, EndInitInvariant,
     FreeQueuesInvariant DEF Next
<1> QED
  BY InitInvariant, <1>1, PTL DEF Spec

\* Every variable of virtio.library keeps its type.
THEOREM TypeCorrectness == Spec => []TypeOK
<1>1. HeapInvariant => TypeOK
  BY DEF HeapInvariant
<1> QED
  BY <1>1, HeapInvariance, PTL

(* However initialisation ends, every live block has one owner, and        *)
(* VirtioFreeQueues frees each once.                                       *)
THEOREM BlocksAreOwned == Spec => []EveryBlockOwned
<1>1. HeapInvariant => EveryBlockOwned
  BY DEF HeapInvariant
<1> QED
  BY <1>1, HeapInvariance, PTL

(* The device is never given a page of memory that is not the queue's, for *)
(* any queue size and any place of the blocks.                             *)
THEOREM RingsStayInside == Spec => []RingsInside
<1>1. ASSUME HeapInvariant, NEW j \in DOMAIN queue, qaddr[j] # 0
      PROVE  LET q == queue[j]
                 v == vring_init(q.num, q.paddr)
             IN  /\ qaddr[j] * Align = v.desc
                 /\ v.desc + DescSize * q.num <= v.avail
                 /\ v.avail + AvailSize(q.num) <= v.used
                 /\ v.used % Align = 0
                 /\ Covers(q.unaligned_addr, v.desc, v.used + UsedSize(q.num))
                 /\ Covers(q.data, q.data, q.data + PointerSize * q.num)
  <2> DEFINE q == queue[j]
             a == q.unaligned_addr
             v == vring_init(q.num, PhysAddr(a))
  <2>1. q.num \in Nat /\ a \in Nat /\ q.data \in Nat
    <3>1. q \in QueueType
      BY <1>1 DEF HeapInvariant, TypeOK
    <3> QED
      BY <3>1 DEF QueueType
  <2>2. SetUp(j)
    BY <1>1 DEF HeapInvariant, NotSetUp
  <2>3. /\ a <= v.desc /\ Page(PhysAddr(a)) * Align = v.desc
        /\ v.desc + DescSize * q.num <= v.avail
        /\ v.avail + AvailSize(q.num) <= v.used
        /\ v.used % Align = 0
        /\ v.used + UsedSize(q.num) <= a + vring_size(q.num)
    <3> HIDE DEF q, a
    <3> QED
      BY <2>1, LayoutFits
  <2> HIDE DEF v
  <2>4. Covers(q.data, q.data, q.data + PointerSize * q.num)
    BY <2>1, <2>2 DEF SetUp, Covers, PointerSize
  <2>5. Covers(a, v.desc, v.used + UsedSize(q.num))
    BY <2>2, <2>3 DEF SetUp, Covers
  <2> QED
    BY <2>2, <2>3, <2>4, <2>5 DEF SetUp, v
<1>2. HeapInvariant => RingsInside
  BY <1>1 DEF RingsInside
<1> QED
  BY <1>2, HeapInvariance, PTL
=============================================================================
