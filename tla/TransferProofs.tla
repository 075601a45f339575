--------------------------- MODULE TransferProofs ---------------------------
(***************************************************************************)
(* Proofs about Transfer, for a queue of any size with an index of any     *)
(* width and any sectors, for a device that interrupts once for all the    *)
(* entries it was notified of.                                             *)
(***************************************************************************)
EXTENDS Transfer, TLAPS

Indices == 0 .. IndexRange - 1

-----------------------------------------------------------------------------
(* The free-running index.                                                 *)

\* The next index is an index, and the difference of two indices says how far
\* apart they are if that is less than three.
LEMMA Difference ==
  ASSUME NEW i \in Indices
  PROVE  /\ Inc(i) \in Indices
         /\ Inc(i) # i
         /\ (i - i) % IndexRange = 0
         /\ (Inc(i) - i) % IndexRange = 1
<1> USE QueueAssumption DEF Indices, Inc
<1>1. CASE i = IndexRange - 1
  <2>1. Inc(i) - i = 1 - IndexRange
    BY <1>1
  <2>2. (1 - IndexRange) % IndexRange = 1
    OBVIOUS
  <2> QED
    BY <1>1, <2>1, <2>2
<1>2. CASE i # IndexRange - 1
  BY <1>2
<1> QED
  BY <1>1, <1>2

\* One entry taken of at most three.
LEMMA Catching ==
  ASSUME NEW i \in Indices
  PROVE  /\ (Inc(Inc(i)) - i) % IndexRange = 2
         /\ (Inc(Inc(Inc(i))) - i) % IndexRange = 3
<1> USE QueueAssumption DEF Indices, Inc
<1>1. IndexRange \in Nat /\ IndexRange > 3 /\ IndexRange # 0
  OBVIOUS
<1>2. CASE i \in 0 .. IndexRange - 4
  BY <1>1, <1>2
<1>3. CASE i \in IndexRange - 3 .. IndexRange - 1
  <2>1. \A k \in {1, 2, 3} : (k - IndexRange) % IndexRange = k
    BY <1>1
  <2>2. CASE i = IndexRange - 1
    <3>1. Inc(Inc(i)) - i = 2 - IndexRange /\ Inc(Inc(Inc(i))) - i = 3 - IndexRange
      BY <1>1, <2>2
    <3> QED
      BY <2>1, <3>1
  <2>3. CASE i = IndexRange - 2
    <3>1. Inc(Inc(i)) - i = 2 - IndexRange /\ Inc(Inc(Inc(i))) - i = 3 - IndexRange
      BY <1>1, <2>3
    <3> QED
      BY <2>1, <3>1
  <2>4. CASE i = IndexRange - 3
    <3>1. Inc(Inc(i)) - i = 2 /\ Inc(Inc(Inc(i))) - i = 3 - IndexRange
      BY <1>1, <2>4
    <3> QED
      BY <1>1, <2>1, <3>1
  <2> QED
    BY <1>1, <1>3, <2>2, <2>3, <2>4
<1> QED
  BY <1>1, <1>2, <1>3

-----------------------------------------------------------------------------
(* Types.                                                                  *)

LEMMA InitTypes == Init => TypeOK
<1> SUFFICES ASSUME Init PROVE TypeOK
  OBVIOUS
<1>1. hdr \in Header
  BY DEF Init, Header
<1>2. desc \in [0 .. 2 -> [to : {"nothing", "hdr", "buffer", "status"}, writable : BOOLEAN]]
  BY DEF Init
<1>3. idx \in 0 .. IndexRange - 1 /\ last_avail \in 0 .. IndexRange - 1
  BY QueueAssumption DEF Init
<1> QED
  BY <1>1, <1>2, <1>3 DEF Init, TypeOK

\* The types in four parts.
Fields ==
  /\ pc \in {"idle", "header", "type", "sector", "status", "desc", "offer", "notify", "wait",
            "overrun"}
  /\ write \in BOOLEAN /\ sector_start \in Sectors \cup {0}
  /\ hdr \in Header
  /\ desc \in [0 .. 2 -> [to : {"nothing", "hdr", "buffer", "status"}, writable : BOOLEAN]]

Counters == idx \in Indices /\ last_avail \in Indices

Results ==
  /\ status \in {0, 1}
  /\ job \in [type : {"IN", "OUT"}, sector : Sectors \cup {0}, writable : BOOLEAN] \cup {NoJob}
  /\ done \in {"nothing", "done", "failed"}

Flags == notified \in BOOLEAN /\ isr \in BOOLEAN /\ wakeup \in BOOLEAN

LEMMA TypeParts == TypeOK <=> Fields /\ Counters /\ Results /\ Flags
  BY DEF TypeOK, Fields, Counters, Results, Flags, Indices

LEMMA FieldsPreserved == Fields /\ [Next]_vars => Fields'
<1> SUFFICES ASSUME Fields, [Next]_vars PROVE Fields'
  OBVIOUS
<1>1. CASE UNCHANGED <<pc, write, sector_start, hdr, desc>>
  BY <1>1 DEF Fields
<1>2. ASSUME NEW w \in BOOLEAN, NEW s \in Sectors, CallTransfer(w, s) PROVE Fields'
  BY <1>2 DEF CallTransfer, Fields
<1>3. CASE ClearHeader
  <2>1. hdr' = [type |-> "IN", sector |-> 0] /\ pc' = "type" /\ UNCHANGED <<write, sector_start, desc>>
    BY <1>3 DEF ClearHeader, call
  <2> QED
    BY <2>1 DEF Fields, Header
<1>4. CASE FillType
  <2>1. pc' = "sector" /\ UNCHANGED <<write, sector_start, desc>>
    BY <1>4 DEF FillType, call
  <2>2. hdr' \in Header
    BY <1>4 DEF FillType, Fields, Header
  <2> QED
    BY <2>1, <2>2 DEF Fields
<1>5. CASE FillSector
  <2>1. pc' = "status" /\ UNCHANGED <<write, sector_start, desc>>
    BY <1>5 DEF FillSector, call
  <2>2. hdr' \in Header
    BY <1>5 DEF FillSector, Fields, Header
  <2> QED
    BY <2>1, <2>2 DEF Fields
<1>6. CASE FillDescriptors
  <2>1. pc' \in {"offer", "overrun"} /\ UNCHANGED <<write, sector_start, hdr>>
    BY <1>6 DEF FillDescriptors, call
  <2>2. desc' \in [0 .. 2 -> [to : {"nothing", "hdr", "buffer", "status"}, writable : BOOLEAN]]
    BY <1>6 DEF FillDescriptors, Fields
  <2> QED
    BY <2>1, <2>2 DEF Fields
<1>7. CASE ClearStatus \/ Offer \/ Notify \/ CallbackReturns
  <2>1. pc' \in {"desc", "notify", "wait", "idle"} /\ UNCHANGED <<write, sector_start, hdr, desc>>
    BY <1>7 DEF ClearStatus, Offer, Notify, CallbackReturns, call
  <2> QED
    BY <2>1 DEF Fields
<1>8. CASE Device \/ IRQServer \/ UNCHANGED vars
  BY <1>1, <1>8 DEF Device, DeviceTakes, DeviceCompletes, DeviceRests, IRQServer, vars, call
<1> QED
  BY <1>2, <1>3, <1>4, <1>5, <1>6, <1>7, <1>8 DEF Next, Worker, Fill

LEMMA CountersPreserved == Counters /\ [Next]_vars => Counters'
<1> SUFFICES ASSUME Counters, [Next]_vars PROVE Counters'
  OBVIOUS
<1>1. CASE UNCHANGED <<idx, last_avail>>
  BY <1>1 DEF Counters
<1>2. CASE Offer
  BY <1>2, Difference DEF Offer, Counters, device
<1>3. CASE DeviceTakes
  BY <1>3, Difference DEF DeviceTakes, Counters
<1>4. ASSUME NEW w \in BOOLEAN, NEW s \in Sectors, CallTransfer(w, s) PROVE Counters'
  BY <1>1, <1>4 DEF CallTransfer
<1>5. CASE Fill \/ Notify \/ CallbackReturns
  BY <1>1, <1>5 DEF Fill, ClearHeader, FillType, FillSector, ClearStatus, FillDescriptors, Notify,
                    CallbackReturns, device
<1>6. CASE DeviceCompletes \/ DeviceRests \/ IRQServer \/ UNCHANGED vars
  BY <1>1, <1>6 DEF DeviceCompletes, DeviceRests, IRQServer, vars, device
<1> QED
  BY <1>2, <1>3, <1>4, <1>5, <1>6 DEF Next, Worker, Device

LEMMA ResultsPreserved == Fields /\ Results /\ [Next]_vars => Results'
<1> SUFFICES ASSUME Fields, Results, [Next]_vars PROVE Results'
  OBVIOUS
<1>1. CASE UNCHANGED <<status, job, done>>
  BY <1>1 DEF Results
<1>2. ASSUME NEW w \in BOOLEAN, NEW s \in Sectors, CallTransfer(w, s) PROVE Results'
  BY <1>2 DEF CallTransfer, Results
<1>3. CASE ClearStatus
  BY <1>3 DEF ClearStatus, Results, device
<1>4. CASE DeviceTakes
  <2>1. hdr.type \in {"IN", "OUT"} /\ hdr.sector \in Sectors \cup {0} /\ desc[1].writable \in BOOLEAN
    BY DEF Fields, Header
  <2>2. job' = [type |-> hdr.type, sector |-> hdr.sector, writable |-> desc[1].writable]
    BY <1>4 DEF DeviceTakes
  <2>3. UNCHANGED <<status, done>>
    BY <1>4 DEF DeviceTakes
  <2> QED
    BY <2>1, <2>2, <2>3 DEF Results
<1>5. CASE DeviceCompletes
  <2>1. status' \in {0, 1} /\ done' \in {"nothing", "done", "failed"} /\ job' = NoJob
    BY <1>5 DEF DeviceCompletes
  <2> QED
    BY <2>1 DEF Results
<1>6. CASE ClearHeader \/ FillType \/ FillSector \/ FillDescriptors \/ Offer \/ Notify \/ CallbackReturns
  BY <1>1, <1>6 DEF ClearHeader, FillType, FillSector, FillDescriptors, Offer, Notify,
                    CallbackReturns, device
<1>7. CASE DeviceRests \/ IRQServer \/ UNCHANGED vars
  BY <1>1, <1>7 DEF DeviceRests, IRQServer, vars, device
<1> QED
  BY <1>2, <1>3, <1>4, <1>5, <1>6, <1>7 DEF Next, Worker, Fill, Device

LEMMA FlagsPreserved == Flags /\ [Next]_vars => Flags'
<1> SUFFICES ASSUME Flags, [Next]_vars PROVE Flags'
  OBVIOUS
<1>1. CASE UNCHANGED <<notified, isr, wakeup>>
  BY <1>1 DEF Flags
<1>2. CASE Notify
  BY <1>2 DEF Notify, Flags
<1>3. CASE CallbackReturns
  BY <1>3 DEF CallbackReturns, Flags, device
<1>4. CASE DeviceCompletes
  <2>1. isr' = (isr \/ ~OneInterrupt \/ last_avail = idx) /\ UNCHANGED <<notified, wakeup>>
    BY <1>4 DEF DeviceCompletes
  <2> QED
    BY <2>1 DEF Flags
<1>5. CASE DeviceRests
  BY <1>5 DEF DeviceRests, Flags
<1>6. CASE IRQServer
  BY <1>6 DEF IRQServer, Flags
<1>7. ASSUME NEW w \in BOOLEAN, NEW s \in Sectors, CallTransfer(w, s) PROVE Flags'
  BY <1>1, <1>7 DEF CallTransfer
<1>8. CASE Fill \/ Offer \/ DeviceTakes \/ UNCHANGED vars
  BY <1>1, <1>8 DEF Fill, ClearHeader, FillType, FillSector, ClearStatus, FillDescriptors, Offer,
                    DeviceTakes, vars, device
<1> QED
  BY <1>2, <1>3, <1>4, <1>5, <1>6, <1>7, <1>8 DEF Next, Worker, Device

LEMMA TypesPreserved == TypeOK /\ [Next]_vars => TypeOK'
<1>1. TypeOK' <=> Fields' /\ Counters' /\ Results' /\ Flags'
  BY DEF TypeOK, Fields, Counters, Results, Flags, Indices
<1> QED
  BY <1>1, TypeParts, FieldsPreserved, CountersPreserved, ResultsPreserved, FlagsPreserved

-----------------------------------------------------------------------------
(* The inductive invariant.                                                *)

LEMMA InitInvariant == Init => TransferInvariant
<1> SUFFICES ASSUME Init PROVE TransferInvariant
  OBVIOUS
<1>1. TypeOK
  BY InitTypes
<1>2. Behind /\ Quiet /\ NothingLate
  BY DEF Init, Behind, Quiet, NothingLate
<1>3. Filled /\ StatusFollows /\ NoTornRequest /\ StatusIsCurrent
  BY DEF Init, Filled, StatusFollows, NoTornRequest, StatusIsCurrent
<1> QED
  BY <1>1, <1>2, <1>3 DEF TransferInvariant

\* What the invariant says besides the types.
Says == Behind /\ Quiet /\ NothingLate /\ Filled /\ StatusFollows /\ NoTornRequest /\ StatusIsCurrent

\* The worker fills in a request for a device that stands still.
LEMMA WorkerStep ==
  ASSUME TransferInvariant, Worker
  PROVE  Says'
<1>1. TypeOK
  BY DEF TransferInvariant
<1> USE DEF TransferInvariant, Says, Behind, Quiet, NothingLate, Filled, StatusFollows,
            NoTornRequest, StatusIsCurrent, Asked, call, device
<1>2. ASSUME NEW w \in BOOLEAN, NEW s \in Sectors, CallTransfer(w, s) PROVE Says'
  BY <1>2 DEF CallTransfer
<1>3. CASE ClearHeader
  BY <1>3 DEF ClearHeader
<1>4. CASE FillType
  <2>1. hdr'.type = (IF write THEN "OUT" ELSE "IN")
    BY <1>1, <1>4 DEF FillType, TypeOK, Header
  <2> QED
    BY <1>4, <2>1 DEF FillType
<1>5. CASE FillSector
  <2>1. hdr'.type = hdr.type /\ hdr'.sector = sector_start
    BY <1>1, <1>5 DEF FillSector, TypeOK, Header
  <2> QED
    BY <1>5, <2>1 DEF FillSector
<1>6. CASE ClearStatus
  BY <1>6 DEF ClearStatus
<1>7. CASE FillDescriptors
  <2>1. desc'[1].writable = ~write
    BY <1>7 DEF FillDescriptors
  <2> QED
    BY <1>7, <2>1 DEF FillDescriptors
<1>8. CASE Offer
  BY <1>8 DEF Offer
<1>9. CASE Notify
  BY <1>9 DEF Notify
<1>10. CASE CallbackReturns
  BY <1>10 DEF CallbackReturns
<1> QED
  BY <1>2, <1>3, <1>4, <1>5, <1>6, <1>7, <1>8, <1>9, <1>10 DEF Worker, Fill

\* The device executes the request it was offered, up to three times.
LEMMA DeviceStep ==
  ASSUME OneInterrupt, TransferInvariant, Device \/ IRQServer
  PROVE  Says'
<1>1. TypeOK
  BY DEF TransferInvariant
<1> USE DEF TransferInvariant, Says, Behind, Quiet, NothingLate, Filled, StatusFollows,
            NoTornRequest, StatusIsCurrent, Asked, call
<1>2. CASE DeviceTakes
  <2>1. pc \in {"notify", "wait"} /\ ~isr /\ ~wakeup
    BY <1>2 DEF DeviceTakes
  <2>2. hdr.type = Asked.type /\ hdr.sector = sector_start /\ desc[1].writable = ~write
    BY <2>1
  <2>3. job' = Asked
    BY <1>2, <2>2 DEF DeviceTakes
  <2>4. Behind'
    BY <1>2 DEF DeviceTakes
  <2> QED
    BY <1>2, <2>1, <2>3, <2>4 DEF DeviceTakes
<1>3. CASE DeviceCompletes
  <2>1. pc \in {"notify", "wait"} /\ ~isr /\ ~wakeup
    BY <1>3 DEF DeviceCompletes
  <2>2. isr' => last_avail = idx
    BY <1>3, <2>1 DEF DeviceCompletes
  <2>3. status' = 0 <=> done' = "done"
    BY <1>3 DEF DeviceCompletes
  <2> QED
    BY <1>3, <2>1, <2>2, <2>3 DEF DeviceCompletes
<1>4. CASE DeviceRests
  BY <1>4 DEF DeviceRests
<1>5. CASE IRQServer
  <2>1. isr /\ ~wakeup /\ pc \in {"notify", "wait"} /\ last_avail = idx /\ job = NoJob
    BY <1>5 DEF IRQServer
  <2>2. isr' = FALSE /\ UNCHANGED <<pc, call, hdr, status, desc, idx, last_avail, job, done>>
    BY <1>5 DEF IRQServer
  <2> QED
    BY <2>1, <2>2
<1> QED
  BY <1>2, <1>3, <1>4, <1>5 DEF Device

LEMMA InvariantStep ==
  ASSUME OneInterrupt, TransferInvariant, [Next]_vars
  PROVE  TransferInvariant'
<1>1. TypeOK'
  BY TypesPreserved DEF TransferInvariant
<1>2. Says'
  <2>1. CASE UNCHANGED vars
    BY <2>1 DEF vars, call, device, TransferInvariant, Says, Behind, Quiet, NothingLate, Filled,
                StatusFollows, NoTornRequest, StatusIsCurrent, Asked
  <2> QED
    BY <2>1, WorkerStep, DeviceStep DEF Next
<1> QED
  BY <1>1, <1>2 DEF TransferInvariant, Says

LEMMA Invariance ==
  ASSUME OneInterrupt
  PROVE  Spec => []TransferInvariant
<1>1. TransferInvariant /\ [Next]_vars => TransferInvariant'
  BY InvariantStep
<1> QED
  BY InitInvariant, <1>1, PTL DEF Spec

\* The index is ahead by as many entries as the device has not taken.
LEMMA EntriesAhead ==
  ASSUME Counters, Behind
  PROVE  /\ Pending \in 0 .. 3
         /\ Pending = 0 <=> idx = last_avail
         /\ idx # last_avail => (idx - Inc(last_avail)) % IndexRange = Pending - 1
<1> DEFINE i == last_avail
<1>1. i \in Indices /\ Inc(i) \in Indices /\ Inc(Inc(i)) \in Indices
  BY Difference DEF Counters
<1>2. /\ (i - i) % IndexRange = 0
      /\ (Inc(i) - i) % IndexRange = 1
      /\ (Inc(Inc(i)) - i) % IndexRange = 2
      /\ (Inc(Inc(Inc(i))) - i) % IndexRange = 3
  BY <1>1, Difference, Catching
<1>3. /\ (Inc(i) - Inc(i)) % IndexRange = 0
      /\ (Inc(Inc(i)) - Inc(i)) % IndexRange = 1
      /\ (Inc(Inc(Inc(i))) - Inc(i)) % IndexRange = 2
  BY <1>1, Difference, Catching
<1> HIDE DEF i
<1>4. CASE idx = i
  BY <1>2, <1>4 DEF Pending, i
<1>5. CASE idx = Inc(i)
  BY <1>2, <1>3, <1>5 DEF Pending, i
<1>6. CASE idx = Inc(Inc(i))
  BY <1>2, <1>3, <1>6 DEF Pending, i
<1>7. CASE idx = Inc(Inc(Inc(i)))
  BY <1>2, <1>3, <1>7 DEF Pending, i
<1> QED
  BY <1>4, <1>5, <1>6, <1>7 DEF Behind, i

-----------------------------------------------------------------------------
(* The variables keep their types, the index its width.                    *)
THEOREM TypeCorrectness == Spec => []TypeOK
  BY InitTypes, TypesPreserved, PTL DEF Spec

(* The device executes nothing but the request the callback was called     *)
(* for, though one header and one chain serve all transfers.               *)
THEOREM RequestsAreWhole ==
  ASSUME OneInterrupt
  PROVE  Spec => []NoTornRequest
<1>1. TransferInvariant => NoTornRequest
  BY DEF TransferInvariant
<1> QED
  BY Invariance, <1>1, PTL

(* The status word is about the transfer the callback was called for.      *)
THEOREM StatusStaysCurrent ==
  ASSUME OneInterrupt
  PROVE  Spec => []StatusIsCurrent
<1>1. TransferInvariant => StatusIsCurrent
  BY DEF TransferInvariant
<1> QED
  BY Invariance, <1>1, PTL

-----------------------------------------------------------------------------
(* The handshake.                                                          *)

\* The worker offers three executions to a device that has caught up.
LEMMA OfferRefines ==
  ASSUME TransferInvariant, Offer
  PROVE  Signals!Offer
<1>1. pc = "offer" /\ pc' = "notify" /\ idx' = Inc(Inc(Inc(idx)))
  BY DEF Offer
<1>2. UNCHANGED <<last_avail, job, isr, wakeup>>
  BY DEF Offer, device
<1>3. idx = last_avail /\ job = NoJob /\ idx \in Indices
  BY <1>1 DEF TransferInvariant, Quiet, TypeOK, Indices
<1>4. Left = 0
  BY <1>3, Difference DEF Left, Pending
<1>5. Left' = 3
  BY <1>1, <1>2, <1>3, Catching DEF Left, Pending
<1> QED
  BY <1>1, <1>2, <1>4, <1>5 DEF Signals!Offer

\* To take an entry is to complete nothing yet.
LEMMA TakingIsQuiet ==
  ASSUME TransferInvariant, DeviceTakes
  PROVE  UNCHANGED Signals!vars
<1>1. job = NoJob /\ last_avail # idx /\ last_avail' = Inc(last_avail)
  BY DEF DeviceTakes
<1>2. job' = [type |-> hdr.type, sector |-> hdr.sector, writable |-> desc[1].writable]
  BY DEF DeviceTakes
<1>3. UNCHANGED <<pc, idx, isr, wakeup>>
  BY DEF DeviceTakes
<1>4. hdr.type # "none"
  BY DEF TransferInvariant, TypeOK, Header
<1>5. job' # NoJob
  BY <1>2, <1>4 DEF NoJob
<1>6. Pending \in 0 .. 3 /\ Pending' = Pending - 1
  BY <1>1, <1>3, EntriesAhead DEF TransferInvariant, TypeOK, Counters, Indices, Pending
<1>7. Left' = Left
  BY <1>1, <1>5, <1>6 DEF Left
<1> QED
  BY <1>3, <1>7 DEF Signals!vars

\* The last completion is the one after which nothing is left to take.
LEMMA CompletionRefines ==
  ASSUME TransferInvariant, DeviceCompletes
  PROVE  Signals!DeviceCompletes
<1>1. job # NoJob /\ job' = NoJob /\ isr' = (isr \/ ~OneInterrupt \/ last_avail = idx)
  BY DEF DeviceCompletes
<1>2. UNCHANGED <<pc, idx, last_avail, wakeup>>
  BY DEF DeviceCompletes
<1>3. Pending \in 0 .. 3 /\ (Pending = 0 <=> last_avail = idx)
  BY EntriesAhead DEF TransferInvariant, TypeOK, Counters, Indices
<1>4. Pending' = Pending
  BY <1>2 DEF Pending
<1>5. Left = Pending + 1
  BY <1>1 DEF Left
<1>6. Left' = Pending
  BY <1>1, <1>3, <1>4 DEF Left
<1> QED
  BY <1>1, <1>2, <1>3, <1>5, <1>6 DEF Signals!DeviceCompletes

LEMMA HandshakeStep == TransferInvariant /\ [Next]_vars => [Signals!Next]_(Signals!vars)
<1> SUFFICES ASSUME TransferInvariant, [Next]_vars PROVE [Signals!Next]_(Signals!vars)
  OBVIOUS
<1>1. CASE UNCHANGED <<pc, idx, last_avail, job, isr, wakeup>>
  BY <1>1 DEF Signals!vars, Left, Pending
<1>2. ASSUME UNCHANGED <<idx, last_avail, job, isr, wakeup>>, pc \notin {"notify", "wait"}, pc' \notin {"notify", "wait"}
      PROVE  UNCHANGED Signals!vars
  BY <1>2 DEF Signals!vars, Left, Pending
<1>3. ASSUME NEW w \in BOOLEAN, NEW s \in Sectors, CallTransfer(w, s) PROVE UNCHANGED Signals!vars
  BY <1>2, <1>3 DEF CallTransfer
<1>4. CASE Fill
  BY <1>2, <1>4 DEF Fill, ClearHeader, FillType, FillSector, ClearStatus, FillDescriptors, device
<1>5. CASE Offer
  BY <1>5, OfferRefines DEF Signals!Next
<1>6. CASE Notify
  BY <1>6 DEF Notify, Signals!vars, Left, Pending
<1>7. CASE CallbackReturns
  <2>1. Left' = Left
    BY <1>7 DEF CallbackReturns, device, Left, Pending
  <2>2. Signals!CallbackReturns
    BY <1>7, <2>1 DEF CallbackReturns, device, Signals!CallbackReturns
  <2> QED
    BY <2>2 DEF Signals!Next
<1>8. CASE DeviceTakes
  BY <1>8, TakingIsQuiet
<1>9. CASE DeviceCompletes
  BY <1>9, CompletionRefines DEF Signals!Next
<1>10. CASE DeviceRests
  BY <1>1, <1>10 DEF DeviceRests
<1>11. CASE IRQServer
  <2>1. Left' = Left
    BY <1>11 DEF IRQServer, Left, Pending
  <2>2. Signals!IRQServer
    BY <1>11, <2>1 DEF IRQServer, Signals!IRQServer
  <2> QED
    BY <2>2 DEF Signals!Next
<1>12. CASE UNCHANGED vars
  BY <1>1, <1>12 DEF vars, device
<1> QED
  BY <1>3, <1>4, <1>5, <1>6, <1>7, <1>8, <1>9, <1>10, <1>11, <1>12 DEF Next, Worker, Device

(* For a queue of any size and an index of any width, the steps in memory  *)
(* add up to the transfer of VirtioBlkUnit.                                *)
THEOREM HandshakeRefinement ==
  ASSUME OneInterrupt
  PROVE  Spec => ImplementsHandshake
<1>1. Init => Signals!Init
  <2> SUFFICES ASSUME Init PROVE Signals!Init
    OBVIOUS
  <2>1. 0 \in Indices
    BY QueueAssumption DEF Indices
  <2>2. Left = 0
    BY <2>1, Difference DEF Init, Left, Pending
  <2> QED
    BY <2>2 DEF Init, Signals!Init
<1>2. TransferInvariant /\ [Next]_vars => [Signals!Next]_(Signals!vars)
  BY HandshakeStep
<1> QED
  BY <1>1, <1>2, Invariance, PTL DEF Spec, ImplementsHandshake, Signals!Spec
-----------------------------------------------------------------------------
(* A callback is not forgotten, and every step brings it nearer to its end. *)

LEMMA UnderwayStep ==
  ASSUME TransferInvariant, Underway, [Next]_vars
  PROVE  Underway'
<1> USE DEF Underway
<1>1. CASE pc' \notin {"notify", "wait"}
  BY <1>1
<1>2. ASSUME NEW w \in BOOLEAN, NEW s \in Sectors, CallTransfer(w, s) PROVE Underway'
  BY <1>1, <1>2 DEF CallTransfer
<1>3. CASE Fill \/ CallbackReturns
  BY <1>1, <1>3 DEF Fill, ClearHeader, FillType, FillSector, ClearStatus, FillDescriptors,
                    CallbackReturns
<1>4. CASE Offer
  <2>1. idx = last_avail /\ idx \in Indices
    BY <1>4 DEF Offer, TransferInvariant, Quiet, TypeOK, Indices
  <2>2. (Inc(Inc(Inc(idx))) - idx) % IndexRange = 3 /\ (idx - idx) % IndexRange = 0
    BY <2>1, Difference, Catching
  <2>3. Inc(Inc(Inc(idx))) # idx
    BY <2>2
  <2>4. pc' = "notify" /\ idx' = Inc(Inc(Inc(idx))) /\ last_avail' = last_avail
    BY <1>4 DEF Offer, device
  <2> QED
    BY <2>1, <2>3, <2>4
<1>5. CASE Notify
  BY <1>5 DEF Notify
<1>6. CASE DeviceTakes
  <2>1. job' = [type |-> hdr.type, sector |-> hdr.sector, writable |-> desc[1].writable]
    BY <1>6 DEF DeviceTakes
  <2>2. hdr.type # "none"
    BY DEF TransferInvariant, TypeOK, Header
  <2>3. job' # NoJob
    BY <2>1, <2>2 DEF NoJob
  <2>4. notified /\ UNCHANGED <<pc, notified>>
    BY <1>6 DEF DeviceTakes
  <2> QED
    BY <2>3, <2>4
<1>7. CASE DeviceCompletes
  <2>1. isr' = (isr \/ ~OneInterrupt \/ last_avail = idx)
    BY <1>7 DEF DeviceCompletes
  <2>2. UNCHANGED <<pc, idx, last_avail, notified, wakeup>>
    BY <1>7 DEF DeviceCompletes
  <2> QED
    BY <2>1, <2>2
<1>8. CASE DeviceRests \/ IRQServer
  BY <1>8 DEF DeviceRests, IRQServer
<1>9. CASE UNCHANGED vars
  BY <1>9 DEF vars, device
<1> QED
  BY <1>2, <1>3, <1>4, <1>5, <1>6, <1>7, <1>8, <1>9 DEF Next, Worker, Device

\* The worker's steps each leave one assignment less.
LEMMA AheadOf ==
  /\ (pc \in {"idle", "overrun"}) => (Ahead = 0)
  /\ (pc = "wait") => (Ahead = 1)
  /\ (pc = "notify") => (Ahead = 2)
  /\ (pc = "offer") => (Ahead = 3)
  /\ (pc = "desc") => (Ahead = 4)
  /\ (pc = "status") => (Ahead = 5)
  /\ (pc = "sector") => (Ahead = 6)
  /\ (pc = "type") => (Ahead = 7)
  /\ (pc = "header") => (Ahead = 8)
BY DEF Ahead

LEMMA AheadOfNext ==
  /\ (pc' \in {"idle", "overrun"}) => (Ahead' = 0)
  /\ (pc' = "wait") => (Ahead' = 1)
  /\ (pc' = "notify") => (Ahead' = 2)
  /\ (pc' = "offer") => (Ahead' = 3)
  /\ (pc' = "desc") => (Ahead' = 4)
  /\ (pc' = "status") => (Ahead' = 5)
  /\ (pc' = "sector") => (Ahead' = 6)
  /\ (pc' = "type") => (Ahead' = 7)
BY DEF Ahead

LEMMA WorkerNearer ==
  ASSUME Fill \/ Offer \/ Notify \/ CallbackReturns
  PROVE  Ahead' < Ahead
<1>1. CASE Fill
  BY <1>1, AheadOf, AheadOfNext
     DEF Fill, ClearHeader, FillType, FillSector, ClearStatus, FillDescriptors
<1>2. CASE Offer \/ Notify \/ CallbackReturns
  BY <1>2, AheadOf, AheadOfNext DEF Offer, Notify, CallbackReturns
<1> QED
  BY <1>1, <1>2

\* A completion leaves less, the other steps of the device and of the
\* interrupt server what they do only once until the next completion.
LEMMA DeviceNearer ==
  ASSUME TransferInvariant, Device \/ IRQServer
  PROVE  /\ Ahead' = Ahead
         /\ Left' < Left \/ (Left' = Left /\ Loose' < Loose)
<1>1. UNCHANGED pc
  BY DEF Device, DeviceTakes, DeviceCompletes, DeviceRests, IRQServer
<1>2. Ahead' = Ahead
  BY <1>1 DEF Ahead
<1>3. Flags /\ Pending \in 0 .. 3
  BY EntriesAhead DEF TransferInvariant, TypeOK, Flags, Counters, Indices
<1>4. CASE DeviceTakes
  <2>1. UNCHANGED Signals!vars
    BY <1>4, TakingIsQuiet
  <2>2. Left' = Left
    BY <2>1 DEF Signals!vars
  <2>3. job = NoJob /\ UNCHANGED <<notified, isr>>
    BY <1>4 DEF DeviceTakes
  <2>4. job' # NoJob
    <3>1. job' = [type |-> hdr.type, sector |-> hdr.sector, writable |-> desc[1].writable]
      BY <1>4 DEF DeviceTakes
    <3>2. hdr.type # "none"
      BY DEF TransferInvariant, TypeOK, Header
    <3> QED
      BY <3>1, <3>2 DEF NoJob
  <2>5. Loose' < Loose
    BY <1>3, <2>3, <2>4 DEF Loose, Flags
  <2> QED
    BY <1>2, <2>2, <2>5
<1>5. CASE DeviceCompletes
  <2>1. Signals!DeviceCompletes
    BY <1>5, CompletionRefines
  <2>2. Left \in Nat /\ Left' = Left - 1
    BY <1>3, <2>1 DEF Signals!DeviceCompletes, Left
  <2> QED
    BY <1>2, <2>2
<1>6. CASE DeviceRests
  <2>1. job = NoJob /\ job' = job /\ isr' = isr /\ notified /\ ~notified' /\ UNCHANGED <<idx, last_avail>>
    BY <1>6 DEF DeviceRests
  <2>2. Left' = Left
    BY <2>1 DEF Left, Pending
  <2>3. Loose' < Loose
    BY <1>3, <2>1 DEF Loose, Flags
  <2> QED
    BY <1>2, <2>2, <2>3
<1>7. CASE IRQServer
  <2>1. isr /\ ~isr' /\ UNCHANGED <<job, notified, idx, last_avail>>
    BY <1>7 DEF IRQServer
  <2>2. Left' = Left
    BY <2>1 DEF Left, Pending
  <2>3. Loose' < Loose
    BY <1>3, <2>1 DEF Loose, Flags
  <2> QED
    BY <1>2, <2>2, <2>3
<1> QED
  BY <1>4, <1>5, <1>6, <1>7 DEF Device

LEMMA UnderwayInvariance ==
  ASSUME OneInterrupt
  PROVE  Spec => []Underway
<1>1. Init => Underway
  BY DEF Init, Underway
<1>2. TransferInvariant /\ Underway /\ [Next]_vars => Underway'
  BY UnderwayStep
<1> QED
  BY <1>1, <1>2, Invariance, PTL DEF Spec

(* A callback that waits has its wakeup before it, for a queue of any size *)
(* and an index of any width.                                              *)
THEOREM WakeupsArrive ==
  ASSUME OneInterrupt
  PROVE  Spec => []NoLostWakeup
<1>1. Underway => NoLostWakeup
  BY DEF Underway, NoLostWakeup
<1> QED
  BY <1>1, UnderwayInvariance, PTL

(* Each step of the worker, the device and the interrupt server but a new  *)
(* call is one of finitely many before the callback returns.               *)
THEOREM StepsCount ==
  ASSUME OneInterrupt
  PROVE  Spec => EveryStepCounts
<1> DEFINE Counts == \/ pc = "idle" /\ pc' = "header"
                     \/ Ahead' < Ahead
                     \/ Ahead' = Ahead /\ Left' < Left
                     \/ Ahead' = Ahead /\ Left' = Left /\ Loose' < Loose
<1>1. TransferInvariant /\ [Next]_vars => [Counts]_vars
  <2> SUFFICES ASSUME TransferInvariant, Next PROVE Counts
    OBVIOUS
  <2>1. ASSUME NEW w \in BOOLEAN, NEW s \in Sectors, CallTransfer(w, s) PROVE Counts
    BY <2>1 DEF CallTransfer
  <2>2. CASE Fill \/ Offer \/ Notify \/ CallbackReturns
    BY <2>2, WorkerNearer
  <2>3. CASE Device \/ IRQServer
    BY <2>3, DeviceNearer
  <2> QED
    BY <2>1, <2>2, <2>3 DEF Next, Worker
<1> QED
  BY <1>1, Invariance, PTL DEF Spec, EveryStepCounts
=============================================================================
