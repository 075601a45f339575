------------------------- MODULE DetectVirtioProofs -------------------------
(***************************************************************************)
(* Proofs about DetectVirtio, for any number of sectors and any features.  *)
(* Each part of the inductive invariant has a lemma with one step per      *)
(* action; the steps of the loop and the device that need arithmetic come  *)
(* first.                                                                  *)
(***************************************************************************)
EXTENDS DetectVirtio, TLAPS

LEMMA InitInvariant == Init => DetectInvariant
<1> SUFFICES ASSUME Init PROVE DetectInvariant
  OBVIOUS
<1>1. i \in 0 .. Sectors /\ hdr \in 0 .. Sectors /\ pending \in 0 .. 3 * (i + 1)
  BY SectorsAssumption DEF Init
<1>2. TypeOK
  BY <1>1 DEF Init, TypeOK, Places, Blocks
<1>3. Holdings /\ Progress /\ Executions /\ LastIsThis
  BY DEF Init, Holdings, Progress, Executions, LastIsThis, Loop, LeftBehind, QueueReady, DeviceIdle
<1> QED
  BY <1>2, <1>3 DEF DetectInvariant

\* The numbers of the loop and of the device.
LEMMA Numbers ==
  ASSUME DetectInvariant
  PROVE  /\ i \in Nat /\ i <= Sectors /\ hdr \in Nat /\ hdr <= i
         /\ pending \in Nat /\ pending <= 3 * (i + 1)
         /\ job = NoJob \/ job \in 0 .. i
<1>1. i \in 0 .. Sectors /\ hdr \in 0 .. Sectors /\ pending \in 0 .. 3 * (i + 1) /\ hdr <= i
  BY DEF DetectInvariant, TypeOK, LastIsThis
<1>2. job \in {NoJob} \cup 0 .. i
  BY DEF DetectInvariant, TypeOK
<1> QED
  BY <1>1, <1>2, SectorsAssumption

\* The steps that count.
LEMMA DeviceTakesExecutions ==
  ASSUME DetectInvariant, DeviceTakes
  PROVE  Executions'
<1>1. /\ ~DeviceIdle /\ pending > 0 /\ pending' < pending
      /\ UNCHANGED <<pc, memory, setup, turn, notified, fault>>
  BY Numbers DEF DeviceTakes, DeviceIdle
<1>2. pc \notin {"notify", "delay", "show"} => pending' <= 3 * i
  BY <1>1, Numbers DEF DetectInvariant, Executions, DeviceTakes
<1> QED
  BY <1>1, <1>2 DEF DetectInvariant, Executions, QueueReady, memory, setup, turn

LEMMA FillHeaderLast ==
  ASSUME DetectInvariant, FillHeader
  PROVE  LastIsThis'
<1>1. hdr' = i /\ i' = i /\ pc' = "clear status"
  BY DEF FillHeader
<1>2. i <= i
  BY Numbers
<1> QED
  BY <1>1, <1>2 DEF LastIsThis

LEMMA DeviceTakesLast ==
  ASSUME DetectInvariant, DeviceTakes
  PROVE  LastIsThis'
<1>1. job' = hdr /\ UNCHANGED <<pc, memory, setup, turn, notified, fault>>
  BY DEF DeviceTakes
<1>2. job' # NoJob
  BY <1>1, Numbers DEF NoJob
<1> QED
  BY <1>1, <1>2 DEF DetectInvariant, LastIsThis, QueueReady, memory, setup, turn

LEMMA DeviceCompletesLast ==
  ASSUME DetectInvariant, DeviceCompletes
  PROVE  LastIsThis'
<1>1. /\ job # NoJob /\ job' = NoJob
      /\ buf' = job \/ status' = 1
      /\ UNCHANGED <<pc, memory, setup, i, hdr, pending>>
  BY DEF DeviceCompletes
<1>2. /\ hdr <= i
      /\ pc \in {"clear status", "offer", "notify", "delay", "show"} => hdr = i
      /\ pc \in {"notify", "delay", "show"} /\ QueueReady /\ pending = 0 => job = i
  BY <1>1 DEF DetectInvariant, LastIsThis
<1>3. status' = 0 => buf' = job
  BY <1>1
<1>4. QueueReady' = QueueReady
  BY <1>1 DEF QueueReady, memory
<1> QED
  BY <1>1, <1>2, <1>3, <1>4 DEF LastIsThis

-----------------------------------------------------------------------------
(* Each part of the invariant under each action.                           *)

\* TypeOK in three parts: the numbers, the features, and everything else.
Numbered ==
  /\ i \in 0 .. Sectors /\ hdr \in 0 .. Sectors
  /\ buf \in {Zero} \cup 0 .. i
  /\ pending \in 0 .. 3 * (i + 1)
  /\ job \in {NoJob} \cup 0 .. i

Offers ==
  /\ offered \subseteq Features /\ host_support \subseteq offered
  /\ info \in {{}, {"capacity"} \cup offered}

Sorts ==
  /\ pc \in Places
  /\ live \subseteq Blocks /\ ptr \subseteq Blocks
  /\ slow \in BOOLEAN
  /\ dev_status \in {"unknown", "ACK", "DRV", "DRV_OK"}
  /\ status \in {0, 1}
  /\ notified \in BOOLEAN
  /\ delayed \in BOOLEAN /\ kept \in BOOLEAN /\ fault \in BOOLEAN

LEMMA TypeParts == TypeOK <=> Numbered /\ Offers /\ Sorts
  BY DEF TypeOK, Numbered, Offers, Sorts

LEMMA NumberedPreserved ==
  ASSUME DetectInvariant, [Next]_vars
  PROVE  Numbered'
<1>0. Numbered
  BY TypeParts DEF DetectInvariant
<1>1. CASE UNCHANGED <<i, hdr, buf, pending, job>>
  BY <1>0, <1>1 DEF Numbered
<1>2. CASE ClearBuf
  <2>1. buf' \in {Zero, buf} /\ UNCHANGED <<i, hdr, pending, job>>
    BY <1>2 DEF ClearBuf, device
  <2> QED
    BY <1>0, <2>1 DEF Numbered
<1>3. CASE FillHeader
  <2>1. hdr' = i /\ UNCHANGED <<i, buf, pending, job>>
    BY <1>3 DEF FillHeader, device
  <2> QED
    BY <1>0, <2>1 DEF Numbered
<1>4. CASE Offer
  <2>1. pending \in Nat /\ pending <= 3 * i
    BY <1>4, Numbers DEF DetectInvariant, Executions, Offer, At
  <2>2. pending' \in {pending, pending + 3} /\ UNCHANGED <<i, hdr, buf, job>>
    BY <1>4 DEF Offer, turn
  <2>3. pending' \in 0 .. 3 * (i + 1)
    BY <2>1, <2>2, Numbers
  <2> QED
    BY <1>0, <2>2, <2>3 DEF Numbered
<1>5. CASE Show
  <2>1. i' = i + 1 /\ i < Sectors /\ UNCHANGED <<hdr, buf, pending, job>>
    BY <1>5 DEF DetectInvariant, Progress, Loop, Show, At, device
  <2>2. /\ i' \in 0 .. Sectors /\ pending \in 0 .. 3 * (i' + 1)
        /\ 0 .. i \subseteq 0 .. i'
    BY <2>1, Numbers, SectorsAssumption
  <2> QED
    BY <1>0, <2>1, <2>2 DEF Numbered
<1>6. CASE DeviceTakes
  <2>1. job' \in 0 .. i /\ pending' \in 0 .. 3 * (i + 1) /\ UNCHANGED <<i, hdr, buf>>
    BY <1>6, Numbers DEF DeviceTakes, turn
  <2> QED
    BY <1>0, <2>1 DEF Numbered
<1>7. CASE DeviceCompletes
  <2>1. job' = NoJob /\ buf' \in {job, buf} /\ UNCHANGED <<i, hdr, pending>>
    BY <1>7 DEF DeviceCompletes
  <2>2. job \in 0 .. i
    BY <1>7, Numbers DEF DeviceCompletes
  <2> QED
    BY <1>0, <2>1, <2>2 DEF Numbered
<1>8. CASE \/ OpenExpansion \/ PCIFindDevice \/ Reset \/ exchange_features
           \/ virtio_alloc_queues \/ init_phys_queues \/ AllocRing \/ AllocData
           \/ AllocHdrs \/ AllocStatus \/ virtio_free_queues \/ virtio_blk_configuration
  <2>1. UNCHANGED <<turn, device>>
    BY <1>8 DEF OpenExpansion, PCIFindDevice, Reset, exchange_features, virtio_alloc_queues,
                init_phys_queues, AllocRing, AllocData, AllocHdrs, AllocStatus,
                virtio_free_queues, virtio_blk_configuration
  <2> QED
    BY <1>1, <2>1 DEF turn, device
<1>9. CASE ClearStatus \/ Notify \/ Delay \/ DeviceRests \/ UNCHANGED vars
  BY <1>1, <1>9 DEF ClearStatus, Notify, Delay, DeviceRests, vars, turn, device
<1> QED
  BY <1>2, <1>3, <1>4, <1>5, <1>6, <1>7, <1>8, <1>9 DEF Next, DetectTask, Device

LEMMA OffersPreserved ==
  ASSUME DetectInvariant, [Next]_vars
  PROVE  Offers'
<1>0. Offers
  BY TypeParts DEF DetectInvariant
<1>1. CASE UNCHANGED <<offered, host_support, info>>
  BY <1>0, <1>1 DEF Offers
<1>2. CASE exchange_features
  BY <1>0, <1>2 DEF Offers, exchange_features
<1>3. CASE virtio_blk_configuration
  <2>1. host_support = offered
    BY <1>3 DEF DetectInvariant, Progress, virtio_blk_configuration, At
  <2> QED
    BY <1>0, <1>3, <2>1 DEF Offers, virtio_blk_configuration
<1>4. CASE \/ OpenExpansion \/ PCIFindDevice \/ Reset \/ virtio_alloc_queues \/ init_phys_queues
           \/ AllocRing \/ AllocData \/ AllocHdrs \/ AllocStatus \/ virtio_free_queues
  BY <1>1, <1>4 DEF OpenExpansion, PCIFindDevice, Reset, virtio_alloc_queues, init_phys_queues,
                    AllocRing, AllocData, AllocHdrs, AllocStatus, virtio_free_queues, setup
<1>5. CASE \/ ClearBuf \/ FillHeader \/ ClearStatus \/ Offer \/ Notify \/ Delay \/ Show
           \/ Device \/ UNCHANGED vars
  BY <1>1, <1>5 DEF ClearBuf, FillHeader, ClearStatus, Offer, Notify, Delay, Show,
                    Device, DeviceTakes, DeviceCompletes, DeviceRests, vars, setup
<1> QED
  BY <1>2, <1>3, <1>4, <1>5 DEF Next, DetectTask

LEMMA SortsPreserved ==
  ASSUME DetectInvariant, [Next]_vars
  PROVE  Sorts'
<1>0. Sorts
  BY TypeParts DEF DetectInvariant
<1> USE <1>0 DEF Sorts, Places, Blocks, memory, setup, turn, device
<1>1. CASE OpenExpansion
  BY <1>1 DEF OpenExpansion
<1>2. CASE PCIFindDevice
  BY <1>2 DEF PCIFindDevice
<1>3. CASE Reset
  BY <1>3 DEF Reset
<1>4. CASE exchange_features
  BY <1>4 DEF exchange_features
<1>5. CASE virtio_alloc_queues
  BY <1>5 DEF virtio_alloc_queues
<1>6. CASE init_phys_queues
  BY <1>6 DEF NoQueue, init_phys_queues
<1>7. CASE AllocRing
  BY <1>7 DEF NoQueue, AllocRing
<1>8. CASE AllocData
  BY <1>8 DEF NoQueue, AllocData
<1>9. CASE AllocHdrs
  BY <1>9 DEF AllocHdrs
<1>10. CASE AllocStatus
  BY <1>10 DEF AllocStatus
<1>11. CASE virtio_free_queues
  BY <1>11 DEF virtio_free_queues
<1>12. CASE virtio_blk_configuration
  BY <1>12 DEF virtio_blk_configuration
<1>13. CASE ClearBuf
  BY <1>13 DEF ClearBuf
<1>14. CASE FillHeader
  BY <1>14 DEF FillHeader
<1>15. CASE ClearStatus
  BY <1>15 DEF ClearStatus
<1>16. CASE Offer
  BY <1>16 DEF Offer
<1>17. CASE Notify
  <2>1. /\ notified' = QueueReady /\ pc' = "delay"
        /\ UNCHANGED <<memory, setup, turn, fault>>
    BY <1>17 DEF Notify
  <2>2. notified' \in BOOLEAN
    BY ONLY <2>1 DEF QueueReady
  <2> QED
    BY <2>1, <2>2
<1>18. CASE Delay
  BY <1>18 DEF Delay
<1>19. CASE Show
  BY <1>19 DEF Show
<1>20. CASE DeviceTakes
  BY <1>20 DEF DeviceTakes
<1>21. CASE DeviceCompletes
  <2>1. /\ UNCHANGED <<pc, memory, setup, delayed, kept, notified, fault>>
        /\ status' \in {0, 1}
    BY <1>21 DEF DeviceCompletes
  <2> QED
    BY <2>1
<1>22. CASE DeviceRests
  BY <1>22 DEF DeviceRests
<1>23. CASE UNCHANGED vars
  <2>1. UNCHANGED <<pc, live, ptr, slow, dev_status, status>>
    BY <1>23 DEF vars
  <2>2. UNCHANGED <<notified, delayed, kept, fault>>
    BY <1>23 DEF vars
  <2>3. /\ pc' \in Places /\ live' \subseteq Blocks /\ ptr' \subseteq Blocks /\ slow' \in BOOLEAN
        /\ dev_status' \in {"unknown", "ACK", "DRV", "DRV_OK"} /\ status' \in {0, 1}
    BY ONLY <1>0, <2>1 DEF Sorts
  <2>4. /\ notified' \in BOOLEAN
        /\ delayed' \in BOOLEAN /\ kept' \in BOOLEAN /\ fault' \in BOOLEAN
    BY ONLY <1>0, <2>2 DEF Sorts
  <2> QED
    BY ONLY <2>3, <2>4 DEF Sorts
<1> QED
  BY <1>1, <1>2, <1>3, <1>4, <1>5, <1>6, <1>7, <1>8, <1>9, <1>10, <1>11, <1>12,
     <1>13, <1>14, <1>15, <1>16, <1>17, <1>18, <1>19, <1>20, <1>21, <1>22, <1>23
     DEF Next, DetectTask, Device

LEMMA TypesPreserved ==
  ASSUME DetectInvariant, [Next]_vars
  PROVE  TypeOK'
<1>1. TypeOK' <=> Numbered' /\ Offers' /\ Sorts'
  BY DEF TypeOK, Numbered, Offers, Sorts
<1> QED
  BY <1>1, NumberedPreserved, OffersPreserved, SortsPreserved

LEMMA HoldingsPreserved ==
  ASSUME DetectInvariant, [Next]_vars
  PROVE  Holdings'
<1> USE SectorsAssumption
        DEF At, memory, setup, turn, device, DetectInvariant, TypeOK,
            Blocks, Holdings, QueueKept,
            LeftBehind, QueueReady, Progress, Loop
<1>1. CASE OpenExpansion
  BY <1>1 DEF OpenExpansion
<1>2. CASE PCIFindDevice
  BY <1>2 DEF PCIFindDevice
<1>3. CASE Reset
  BY <1>3 DEF Reset
<1>4. CASE exchange_features
  BY <1>4 DEF exchange_features
<1>5. CASE virtio_alloc_queues
  BY <1>5 DEF virtio_alloc_queues
<1>6. CASE init_phys_queues
  BY <1>6 DEF NoQueue, init_phys_queues
<1>7. CASE AllocRing
  BY <1>7 DEF NoQueue, AllocRing
<1>8. CASE AllocData
  BY <1>8 DEF NoQueue, AllocData
<1>9. CASE AllocHdrs
  BY <1>9 DEF AllocHdrs
<1>10. CASE AllocStatus
  BY <1>10 DEF AllocStatus
<1>11. CASE virtio_free_queues
  BY <1>11 DEF virtio_free_queues
<1>12. CASE virtio_blk_configuration
  BY <1>12 DEF virtio_blk_configuration
<1>13. CASE ClearBuf
  BY <1>13 DEF ClearBuf
<1>14. CASE FillHeader
  BY <1>14 DEF FillHeader
<1>15. CASE ClearStatus
  BY <1>15 DEF ClearStatus
<1>16. CASE Offer
  BY <1>16 DEF Offer
<1>17. CASE Notify
  BY <1>17 DEF Notify
<1>18. CASE Delay
  BY <1>18 DEF Delay
<1>19. CASE Show
  BY <1>19 DEF Show
<1>20. CASE DeviceTakes
  BY <1>20 DEF DeviceTakes
<1>21. CASE DeviceCompletes
  BY <1>21 DEF DeviceCompletes
<1>22. CASE DeviceRests
  BY <1>22 DEF DeviceRests
<1>23. CASE UNCHANGED vars
  BY <1>23 DEF vars
<1> QED
  BY <1>1, <1>2, <1>3, <1>4, <1>5, <1>6, <1>7, <1>8, <1>9, <1>10, <1>11, <1>12, <1>13, <1>14,
     <1>15, <1>16, <1>17, <1>18, <1>19, <1>20, <1>21, <1>22, <1>23
     DEF Next, DetectTask, Device

LEMMA ProgressPreserved ==
  ASSUME DetectInvariant, [Next]_vars
  PROVE  Progress'
<1> USE SectorsAssumption
        DEF At, memory, setup, turn, device, DetectInvariant, TypeOK,
            Progress, Loop, Executions
<1>1. CASE OpenExpansion
  BY <1>1 DEF OpenExpansion
<1>2. CASE PCIFindDevice
  BY <1>2 DEF PCIFindDevice
<1>3. CASE Reset
  BY <1>3 DEF Reset
<1>4. CASE exchange_features
  BY <1>4 DEF exchange_features
<1>5. CASE virtio_alloc_queues
  BY <1>5 DEF virtio_alloc_queues
<1>6. CASE init_phys_queues
  BY <1>6 DEF NoQueue, init_phys_queues
<1>7. CASE AllocRing
  BY <1>7 DEF NoQueue, AllocRing
<1>8. CASE AllocData
  BY <1>8 DEF NoQueue, AllocData
<1>9. CASE AllocHdrs
  BY <1>9 DEF AllocHdrs
<1>10. CASE AllocStatus
  BY <1>10 DEF AllocStatus
<1>11. CASE virtio_free_queues
  BY <1>11 DEF virtio_free_queues
<1>12. CASE virtio_blk_configuration
  BY <1>12 DEF virtio_blk_configuration
<1>13. CASE ClearBuf
  BY <1>13 DEF ClearBuf
<1>14. CASE FillHeader
  BY <1>14 DEF FillHeader
<1>15. CASE ClearStatus
  BY <1>15 DEF ClearStatus
<1>16. CASE Offer
  BY <1>16 DEF Offer
<1>17. CASE Notify
  BY <1>17 DEF Notify
<1>18. CASE Delay
  BY <1>18 DEF Delay
<1>19. CASE Show
  BY <1>19 DEF Show
<1>20. CASE DeviceTakes
  BY <1>20 DEF DeviceTakes
<1>21. CASE DeviceCompletes
  BY <1>21 DEF DeviceCompletes
<1>22. CASE DeviceRests
  BY <1>22 DEF DeviceRests
<1>23. CASE UNCHANGED vars
  BY <1>23 DEF vars
<1> QED
  BY <1>1, <1>2, <1>3, <1>4, <1>5, <1>6, <1>7, <1>8, <1>9, <1>10, <1>11, <1>12, <1>13, <1>14,
     <1>15, <1>16, <1>17, <1>18, <1>19, <1>20, <1>21, <1>22, <1>23
     DEF Next, DetectTask, Device

LEMMA ExecutionsPreserved ==
  ASSUME DetectInvariant, [Next]_vars
  PROVE  Executions'
<1> USE SectorsAssumption
        DEF At, memory, setup, turn, device, DetectInvariant, TypeOK,
            Executions, Progress, Loop,
            DeviceIdle, QueueReady, NoJob, LastIsThis, Holdings
<1>1. CASE OpenExpansion
  BY <1>1 DEF OpenExpansion
<1>2. CASE PCIFindDevice
  BY <1>2 DEF PCIFindDevice
<1>3. CASE Reset
  BY <1>3 DEF Reset
<1>4. CASE exchange_features
  BY <1>4 DEF exchange_features
<1>5. CASE virtio_alloc_queues
  BY <1>5 DEF virtio_alloc_queues
<1>6. CASE init_phys_queues
  BY <1>6 DEF NoQueue, init_phys_queues
<1>7. CASE AllocRing
  BY <1>7 DEF NoQueue, AllocRing
<1>8. CASE AllocData
  BY <1>8 DEF NoQueue, AllocData
<1>9. CASE AllocHdrs
  BY <1>9 DEF AllocHdrs
<1>10. CASE AllocStatus
  BY <1>10 DEF AllocStatus
<1>11. CASE virtio_free_queues
  BY <1>11 DEF virtio_free_queues
<1>12. CASE virtio_blk_configuration
  BY <1>12 DEF virtio_blk_configuration
<1>13. CASE ClearBuf
  BY <1>13 DEF ClearBuf
<1>14. CASE FillHeader
  BY <1>14 DEF FillHeader
<1>15. CASE ClearStatus
  BY <1>15 DEF ClearStatus
<1>16. CASE Offer
  BY <1>16 DEF Offer
<1>17. CASE Notify
  BY <1>17 DEF Notify
<1>18. CASE Delay
  BY <1>18 DEF Delay
<1>19. CASE Show
  BY <1>19 DEF Show
<1>20. CASE DeviceTakes
  BY ONLY <1>20, DetectInvariant, DeviceTakesExecutions
<1>21. CASE DeviceCompletes
  BY <1>21 DEF DeviceCompletes
<1>22. CASE DeviceRests
  BY <1>22 DEF DeviceRests
<1>23. CASE UNCHANGED vars
  BY <1>23 DEF vars
<1> QED
  BY <1>1, <1>2, <1>3, <1>4, <1>5, <1>6, <1>7, <1>8, <1>9, <1>10, <1>11, <1>12, <1>13, <1>14,
     <1>15, <1>16, <1>17, <1>18, <1>19, <1>20, <1>21, <1>22, <1>23
     DEF Next, DetectTask, Device

LEMMA LastPreserved ==
  ASSUME DetectInvariant, [Next]_vars
  PROVE  LastIsThis'
<1> USE SectorsAssumption
        DEF At, memory, setup, turn, device, DetectInvariant, TypeOK,
            LastIsThis, Executions, Progress,
            Loop, QueueReady, NoJob
<1>1. CASE OpenExpansion
  BY <1>1 DEF OpenExpansion
<1>2. CASE PCIFindDevice
  BY <1>2 DEF PCIFindDevice
<1>3. CASE Reset
  BY <1>3 DEF Reset
<1>4. CASE exchange_features
  BY <1>4 DEF exchange_features
<1>5. CASE virtio_alloc_queues
  BY <1>5 DEF virtio_alloc_queues
<1>6. CASE init_phys_queues
  BY <1>6 DEF NoQueue, init_phys_queues
<1>7. CASE AllocRing
  BY <1>7 DEF NoQueue, AllocRing
<1>8. CASE AllocData
  BY <1>8 DEF NoQueue, AllocData
<1>9. CASE AllocHdrs
  BY <1>9 DEF AllocHdrs
<1>10. CASE AllocStatus
  BY <1>10 DEF AllocStatus
<1>11. CASE virtio_free_queues
  BY <1>11 DEF virtio_free_queues
<1>12. CASE virtio_blk_configuration
  BY <1>12 DEF virtio_blk_configuration
<1>13. CASE ClearBuf
  BY <1>13 DEF ClearBuf
<1>14. CASE FillHeader
  BY ONLY <1>14, DetectInvariant, FillHeaderLast
<1>15. CASE ClearStatus
  BY <1>15 DEF ClearStatus
<1>16. CASE Offer
  BY <1>16 DEF Offer
<1>17. CASE Notify
  BY <1>17 DEF Notify
<1>18. CASE Delay
  BY <1>18 DEF Delay
<1>19. CASE Show
  BY <1>19 DEF Show
<1>20. CASE DeviceTakes
  BY ONLY <1>20, DetectInvariant, DeviceTakesLast
<1>21. CASE DeviceCompletes
  BY ONLY <1>21, DetectInvariant, DeviceCompletesLast
<1>22. CASE DeviceRests
  BY <1>22 DEF DeviceRests
<1>23. CASE UNCHANGED vars
  BY <1>23 DEF vars
<1> QED
  BY <1>1, <1>2, <1>3, <1>4, <1>5, <1>6, <1>7, <1>8, <1>9, <1>10, <1>11, <1>12, <1>13, <1>14,
     <1>15, <1>16, <1>17, <1>18, <1>19, <1>20, <1>21, <1>22, <1>23
     DEF Next, DetectTask, Device

-----------------------------------------------------------------------------
(* Whatever fails and however slow the device is, the function holds what  *)
(* its place says, and at most three executions per turn are under way.    *)
THEOREM DetectInvariance == Spec => []DetectInvariant
<1>1. DetectInvariant /\ [Next]_vars => DetectInvariant'
  BY TypesPreserved, HoldingsPreserved, ProgressPreserved, ExecutionsPreserved, LastPreserved
     DEF DetectInvariant
<1> QED
  BY InitInvariant, <1>1, PTL DEF Spec

\* Every variable of DetectVirtio keeps its type.
THEOREM TypeCorrectness == Spec => []TypeOK
<1>1. DetectInvariant => TypeOK
  BY DEF DetectInvariant
<1> QED
  BY <1>1, DetectInvariance, PTL

(* The device uses allocated memory only, a set-up that gives up leaves    *)
(* nothing but the queue structure, and nothing is freed twice.            *)
THEOREM MemoryIsSafe == Spec => []MemorySafe
<1>1. DetectInvariant => LeftBehind /\ (fault => ~QueueReady)
  BY DEF DetectInvariant, Holdings
<1>2. ASSUME DetectInvariant, ~DeviceIdle
      PROVE  QueueReady /\ Blocks \subseteq live
  <2>1. pending > 0 \/ job # NoJob
    BY <1>2, Numbers DEF DeviceIdle
  <2>2. QueueReady /\ dev_status = "DRV_OK"
    BY <1>2, <2>1 DEF DetectInvariant, Executions
  <2>3. pc \in Loop \cup {"returned"}
    BY <1>2, <2>2 DEF DetectInvariant, Progress
  <2> QED
    BY <1>2, <2>2, <2>3 DEF DetectInvariant, Holdings
<1>3. DetectInvariant /\ pc = "returned" /\ kept /\ ~slow => DeviceIdle
  BY DEF DetectInvariant, Executions
<1>4. DetectInvariant => MemorySafe
  BY <1>1, <1>2, <1>3 DEF MemorySafe, DeviceMemory
<1> QED
  BY <1>4, DetectInvariance, PTL

(* After a second that was waited for, what is shown as read is the sector *)
(* asked for.                                                              *)
THEOREM ShownWasAsked == Spec => []ShownIsAsked
<1>1. ASSUME DetectInvariant, pc = "show", QueueReady, delayed, ~slow, status = 0
      PROVE  buf = hdr /\ hdr = i
  <2>1. pending = 0 /\ job = NoJob
    BY <1>1 DEF DetectInvariant, Executions, DeviceIdle
  <2> QED
    BY <1>1, <2>1 DEF DetectInvariant, LastIsThis
<1>2. DetectInvariant => ShownIsAsked
  BY <1>1 DEF ShownIsAsked
<1> QED
  BY <1>2, DetectInvariance, PTL
=============================================================================
