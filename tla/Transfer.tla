------------------------------ MODULE Transfer ------------------------------
(***************************************************************************)
(* One transfer at a time between a unit and its device, assignment by     *)
(* assignment: VirtioBlk_transfer fills the one request header, the one    *)
(* status word and the first three descriptors of queue 0, moves the index *)
(* of the available ring on and notifies the device; the callback that     *)
(* called it waits for the signal of the interrupt server. The device      *)
(* reads the same memory, from its notification on until it has caught up  *)
(* with the index.                                                         *)
(*                                                                         *)
(* Every entry of the available ring is 0 (AllocVec clears it, and only    *)
(* ring[0] is ever written), so each one the device takes is the chain of  *)
(* descriptors 0, 1 and 2. The length (a track) and the address of the     *)
(* buffer (the cache's) are the same for all transfers.                    *)
(***************************************************************************)
EXTENDS Integers

CONSTANTS Sectors,      \* first sectors of the tracks that are transferred
          num,          \* entries of the queue
          IndexRange,   \* 2^16, the values of a free-running index
          OneInterrupt  \* the device interrupts once for all it was notified of

\* The device chooses the size of its queue: virtio_InitQueues looks at it
\* only to see that it is a power of two.
ASSUME QueueAssumption ==
  /\ num \in Nat
  /\ IndexRange \in Nat /\ IndexRange > 3

ASSUME SectorsAssumption == Sectors \subseteq Nat

ASSUME InterruptAssumption == OneInterrupt \in BOOLEAN

VARIABLES
  pc,          \* where the worker is in Read or Write, and VirtioBlk_transfer
  write,       \* its parameters ...
  sector_start,
  hdr,         \* hdrs[0]: type and sector
  status,      \* status[0]
  desc,        \* the chain: what each descriptor points to, and may the device write there
  idx,         \* avail->idx
  last_avail,  \* the entries the device has taken
  notified,    \* the device looks at the ring
  job,         \* the request it executes
  isr, wakeup, \* its interrupt is pending, or the signal of the interrupt server
  done         \* history: how the last execution since the call ended

call   == <<write, sector_start>>
device == <<last_avail, notified, job, isr, done>>
vars   == <<pc, call, hdr, status, desc, idx, device, wakeup>>

\* What the callback was called to do.
Asked == [type |-> IF write THEN "OUT" ELSE "IN", sector |-> sector_start, writable |-> ~write]

NoJob == [type |-> "none", sector |-> 0, writable |-> FALSE]

\* The next value of an index.
Inc(i) == IF i = IndexRange - 1 THEN 0 ELSE i + 1

\* Entries offered and not taken.
Pending == (idx - last_avail) % IndexRange

Init ==
  /\ pc = "idle" /\ write = FALSE /\ sector_start = 0
  /\ hdr = [type |-> "IN", sector |-> 0]
  /\ status = 0
  /\ desc = [d \in 0 .. 2 |-> [to |-> "nothing", writable |-> FALSE]]
  /\ idx = 0 /\ last_avail = 0
  /\ notified = FALSE /\ job = NoJob
  /\ isr = FALSE /\ wakeup = FALSE
  /\ done = "nothing"

-----------------------------------------------------------------------------
(* The worker. The callback Read or Write is called with a track.          *)

CallTransfer(w, s) ==
  /\ pc = "idle"
  /\ write' = w /\ sector_start' = s
  /\ done' = "nothing"
  /\ pc' = "header"
  /\ UNCHANGED <<hdr, status, desc, idx, last_avail, notified, job, isr, wakeup>>

\* memset: VIRTIO_BLK_T_IN is 0
ClearHeader ==
  /\ pc = "header"
  /\ hdr' = [type |-> "IN", sector |-> 0]
  /\ pc' = "type"
  /\ UNCHANGED <<call, status, desc, idx, device, wakeup>>

FillType ==
  /\ pc = "type"
  /\ hdr' = [hdr EXCEPT !.type = IF write THEN "OUT" ELSE "IN"]
  /\ pc' = "sector"
  /\ UNCHANGED <<call, status, desc, idx, device, wakeup>>

FillSector ==
  /\ pc = "sector"
  /\ hdr' = [hdr EXCEPT !.sector = sector_start]
  /\ pc' = "status"
  /\ UNCHANGED <<call, status, desc, idx, device, wakeup>>

\* Mutant: the status of the transfer before stays.
MutClearStatus ==
  /\ pc = "status"
  /\ pc' = "desc"
  /\ UNCHANGED <<call, hdr, status, desc, idx, device, wakeup>>

\* 1 is an error.
ClearStatus ==
  /\ pc = "status"
  /\ status' = 1
  /\ pc' = "desc"
  /\ UNCHANGED <<call, hdr, desc, idx, device, wakeup>>

\* Mutant: VRING_DESC_F_WRITE stays set once a read has set it.
MutFillDescriptors ==
  /\ pc = "desc"
  /\ desc' = [d \in 0 .. 2 |->
       CASE d = 0 -> [to |-> "hdr",    writable |-> FALSE]
         [] d = 1 -> [to |-> "buffer", writable |-> ~write \/ desc[1].writable]
         [] d = 2 -> [to |-> "status", writable |-> TRUE]]
  /\ pc' = "offer"
  /\ UNCHANGED <<call, hdr, status, idx, device, wakeup>>

\* Nothing asks for three entries. In a smaller table the chain runs into the
\* available ring behind it, and the model ends.
FillDescriptors ==
  /\ pc = "desc"
  /\ desc' = [d \in 0 .. 2 |->
       CASE d = 0 -> [to |-> "hdr",    writable |-> FALSE]
         [] d = 1 -> [to |-> "buffer", writable |-> ~write]
         [] d = 2 -> [to |-> "status", writable |-> TRUE]]
  /\ pc' = IF num < 3 THEN "overrun" ELSE "offer"
  /\ UNCHANGED <<call, hdr, status, idx, device, wakeup>>

\* avail->idx moves on by one for each descriptor.
Offer ==
  /\ pc = "offer"
  /\ idx' = Inc(Inc(Inc(idx)))
  /\ pc' = "notify"
  /\ UNCHANGED <<call, hdr, status, desc, device, wakeup>>

\* Mutant: the device is notified of writes only.
MutNotify ==
  /\ pc = "notify"
  /\ notified' = (notified \/ write)
  /\ pc' = "wait"
  /\ UNCHANGED <<call, hdr, status, desc, idx, last_avail, job, isr, done, wakeup>>

Notify ==
  /\ pc = "notify"
  /\ notified' = TRUE
  /\ pc' = "wait"
  /\ UNCHANGED <<call, hdr, status, desc, idx, last_avail, job, isr, done, wakeup>>

\* Mutant: the callback does not wait for the signal.
MutCallbackReturns ==
  /\ pc = "wait"
  /\ wakeup' = FALSE
  /\ pc' = "idle"
  /\ UNCHANGED <<call, hdr, status, desc, idx, device>>

CallbackReturns ==
  /\ pc = "wait"
  /\ wakeup
  /\ wakeup' = FALSE
  /\ pc' = "idle"
  /\ UNCHANGED <<call, hdr, status, desc, idx, device>>

Fill == ClearHeader \/ FillType \/ FillSector \/ ClearStatus \/ FillDescriptors

Worker ==
  \/ \E w \in BOOLEAN : \E s \in Sectors : CallTransfer(w, s)
  \/ Fill \/ Offer \/ Notify \/ CallbackReturns

-----------------------------------------------------------------------------
(* The device, and the interrupt server.                                   *)

\* It takes the next entry, and reads the header and the descriptors.
DeviceTakes ==
  /\ notified
  /\ job = NoJob
  /\ last_avail # idx
  /\ last_avail' = Inc(last_avail)
  /\ job' = [type |-> hdr.type, sector |-> hdr.sector, writable |-> desc[1].writable]
  /\ UNCHANGED <<pc, call, hdr, status, desc, idx, notified, isr, wakeup, done>>

\* It executes the request, successfully (0) or not (1), and interrupts.
DeviceCompletes ==
  /\ job # NoJob
  /\ \E result \in {0, 1} :
       /\ status' = result
       /\ done' = IF result = 0 THEN "done" ELSE "failed"
  /\ job' = NoJob
  /\ isr' = (isr \/ ~OneInterrupt \/ last_avail = idx)
  /\ UNCHANGED <<pc, call, hdr, desc, idx, last_avail, notified, wakeup>>

\* It has caught up.
DeviceRests ==
  /\ notified
  /\ job = NoJob
  /\ last_avail = idx
  /\ notified' = FALSE
  /\ UNCHANGED <<pc, call, hdr, status, desc, idx, last_avail, job, isr, wakeup, done>>

IRQServer ==
  /\ isr
  /\ isr' = FALSE
  /\ wakeup' = TRUE
  /\ UNCHANGED <<pc, call, hdr, status, desc, idx, last_avail, notified, job, done>>

Device == DeviceTakes \/ DeviceCompletes \/ DeviceRests

Next == Worker \/ Device \/ IRQServer

Spec == Init /\ [][Next]_vars

\* The worker comes back for the next transfer as it likes.
Fairness == /\ WF_vars(Fill \/ Offer \/ Notify \/ CallbackReturns)
            /\ WF_vars(Device) /\ WF_vars(IRQServer)

FairSpec == Spec /\ Fairness

-----------------------------------------------------------------------------
Header == [type : {"IN", "OUT"}, sector : Sectors \cup {0}]

TypeOK ==
  /\ pc \in {"idle", "header", "type", "sector", "status", "desc", "offer", "notify", "wait",
            "overrun"}
  /\ write \in BOOLEAN /\ sector_start \in Sectors \cup {0}
  /\ hdr \in Header
  /\ status \in {0, 1}
  /\ desc \in [0 .. 2 -> [to : {"nothing", "hdr", "buffer", "status"}, writable : BOOLEAN]]
  /\ idx \in 0 .. IndexRange - 1 /\ last_avail \in 0 .. IndexRange - 1
  /\ notified \in BOOLEAN
  /\ job \in [type : {"IN", "OUT"}, sector : Sectors \cup {0}, writable : BOOLEAN] \cup {NoJob}
  /\ isr \in BOOLEAN /\ wakeup \in BOOLEAN
  /\ done \in {"nothing", "done", "failed"}

(* VirtioBlk_transfer reuses one header and one chain for all transfers,   *)
(* and clears the header first: a device that still executes an earlier    *)
(* offer then would see a read of sector 0, or a write of the track to     *)
(* sector 0. Every request the device executes is the one the callback was *)
(* called for.                                                             *)
NoTornRequest == job # NoJob => pc \in {"notify", "wait"} /\ job = Asked

(* From the offer on, and when the callback returns, the status word is    *)
(* about the transfer the callback was called for and not about an earlier *)
(* one: a driver that looked at it (VirtioBlk_transfer only clears it)     *)
(* would learn whether the transfer was done.                              *)
StatusIsCurrent == pc \in {"offer", "notify", "wait"} => (status = 0 <=> done = "done")

\* The device is behind by as many of the three entries as it has not taken.
Behind == idx \in {last_avail, Inc(last_avail), Inc(Inc(last_avail)), Inc(Inc(Inc(last_avail)))}

\* With one interrupt for all three, it comes when the device has caught up,
\* and the device stands still until the next offer.
Quiet ==
  pc \notin {"notify", "wait"} \/ isr \/ wakeup => last_avail = idx /\ job = NoJob

NothingLate == (pc \notin {"notify", "wait"} => ~isr /\ ~wakeup) /\ ~(isr /\ wakeup)

\* How much of the request has been filled in.
Filled ==
  /\ pc \in {"sector", "status", "desc", "offer", "notify", "wait"} => hdr.type = Asked.type
  /\ pc \in {"status", "desc", "offer", "notify", "wait"} => hdr.sector = sector_start
  /\ pc \in {"offer", "notify", "wait"} => desc[1].writable = ~write

StatusFollows ==
  /\ pc \in {"header", "type", "sector", "status", "desc"} => done = "nothing"
  /\ pc = "desc" => status = 1

(* The inductive invariant of the proofs: the three entries of an offer    *)
(* are taken one after the other while nothing is filled in.               *)
TransferInvariant ==
  /\ TypeOK /\ Behind /\ Quiet /\ NothingLate /\ Filled /\ StatusFollows
  /\ NoTornRequest /\ StatusIsCurrent

\* What the device was offered and has not completed.
Left == Pending + (IF job = NoJob THEN 0 ELSE 1)

Signals == INSTANCE Handshake WITH waiting <- pc \in {"notify", "wait"}, chains <- Left, IdxStep <- 3

(* Seen from the unit, a transfer is what VirtioBlkUnit makes of it: three *)
(* executions appear at once, however the free-running index wraps around, *)
(* the device works them off one by one, and the callback returns on the   *)
(* signal for the last one.                                                *)
ImplementsHandshake == Signals!Spec

(* A worker that waits for the signal is not forgotten, across the wrap-   *)
(* around of the index too: the interrupt server has sent it, or has an    *)
(* interrupt to serve, or the device executes a request, or it has been    *)
(* notified of entries it has yet to take.                                 *)
NoLostWakeup ==
  pc = "wait" => wakeup \/ isr \/ job # NoJob \/ (notified /\ last_avail # idx)

\* What the proof of it needs: the device is notified of what it has not taken.
Underway ==
  /\ pc \in {"notify", "wait"} => wakeup \/ isr \/ job # NoJob \/ last_avail # idx
  /\ pc = "wait" /\ last_avail # idx => notified

\* The assignments a callback still has before it.
Ahead ==
  CASE pc \in {"idle", "overrun"} -> 0 [] pc = "wait" -> 1 [] pc = "notify" -> 2 [] pc = "offer" -> 3
    [] pc = "desc" -> 4 [] pc = "status" -> 5 [] pc = "sector" -> 6 [] pc = "type" -> 7
    [] pc = "header" -> 8

\* What the device and the interrupt server still do without another completion.
Loose == (IF job = NoJob THEN 1 ELSE 0) + (IF notified THEN 1 ELSE 0) + (IF isr THEN 1 ELSE 0)

(* Every step but a new call brings the callback nearer to its end, and    *)
(* the device to its rest: the worker never goes back, and the device      *)
(* works off what it was offered and no more. With NoLostWakeup this is    *)
(* why each callback returns.                                              *)
EveryStepCounts ==
  [][\/ pc = "idle" /\ pc' = "header"
     \/ Ahead' < Ahead
     \/ Ahead' = Ahead /\ Left' < Left
     \/ Ahead' = Ahead /\ Left' = Left /\ Loose' < Loose]_vars

(* A callback returns: the notification comes after the offer, so that the *)
(* device does not miss it.                                                *)
TransferEnds == (pc = "header") ~> (pc = "idle")
=============================================================================
