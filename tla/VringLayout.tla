---------------------------- MODULE VringLayout ----------------------------
(***************************************************************************)
(* Where the parts of a virtqueue lie in memory (vring_size and vring_init *)
(* of virtio_ring.h, Virtio_alloc_phys_queue and Virtio_init_phys_queue):  *)
(* the descriptor table and the available ring on a page, the used ring on *)
(* a page of its own behind them. Addresses and sizes are in bytes.        *)
(***************************************************************************)
EXTENDS Integers

Align == 4096

\* sizeof struct vring_desc, struct vring_used_elem, UINT16 and void *
DescSize     == 16
UsedElemSize == 8
Uint16Size   == 2
PointerSize  == 4

\* (x + (align - 1)) & ~(align - 1)
RoundUp(x) == (x + Align - 1) - ((x + Align - 1) % Align)

AvailSize(num) == 2 * Uint16Size + Uint16Size * num     \* flags, idx, ring[num]
UsedSize(num)  == 2 * Uint16Size + UsedElemSize * num

\* Mutant: no page to spare for the alignment of the start.
Mutvring_size(num) == RoundUp(DescSize * num + AvailSize(num)) + RoundUp(UsedSize(num))

vring_size(num) == RoundUp(DescSize * num + AvailSize(num)) + RoundUp(UsedSize(num)) + Align

\* The page after the one in which the allocation starts.
PhysAddr(unaligned_addr) == (unaligned_addr - (unaligned_addr % Align)) + Align

Page(paddr) == paddr \div Align

vring_init(num, p) ==
  [desc  |-> p,
   avail |-> p + DescSize * num,
   used  |-> RoundUp(p + DescSize * num + AvailSize(num))]
=============================================================================
