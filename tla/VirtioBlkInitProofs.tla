------------------------ MODULE VirtioBlkInitProofs ------------------------
(* Proofs about VirtioBlkInit, for any number of units and devices.        *)
EXTENDS VirtioBlkInit, TLAPS

\* The steps of the loop, spelt out.
LEMMA Steps ==
  /\ FromCreate = {"create", "wait"}
  /\ FromSignal = {"signal", "create", "wait"}
  /\ FromConfigure = {"configure", "irq", "signal", "create", "wait"}
  /\ FromCache = {"cache", "configure", "irq", "signal", "create", "wait"}
  /\ FromData = {"data", "cache", "configure", "irq", "signal", "create", "wait"}
  /\ FromDriver = {"driver", "queues", "init queues", "requests", "configuration", "ok", "data",
                   "cache", "configure", "irq", "signal", "create", "wait"}
  /\ FromReset = {"reset", "ack", "features", "driver", "queues", "init queues", "requests",
                  "configuration", "ok", "data", "cache", "configure", "irq", "signal", "create", "wait"}
BY DEF FromReset, FromDriver, FromData, FromCache, FromConfigure, FromSignal, FromCreate

\* The parts of the invariant.
LEMMA Parts ==
  BootInvariant <=>
    /\ PcTypeOK /\ BootTypeOK /\ DriverTypeOK /\ HeldTypeOK
    /\ AvailableIsServed /\ ConfigurationIsHosts
    /\ BootProgress /\ DriverProgress /\ BootOwns /\ Handshake
BY DEF BootInvariant, TypeOK

\* Inside the loop body, unit_num is the number of a unit, and not yet available.
LEMMA UnitInHand ==
  ASSUME BootTypeOK, BootProgress, pc \in FromReset
  PROVE  unit_num \in Units /\ unit_num \notin Available
BY UnitsAssumption DEF BootTypeOK, BootProgress, Units, Available

LEMMA InitHolds == Init => BootInvariant
<1> SUFFICES ASSUME Init PROVE BootInvariant
  OBVIOUS
<1> USE UnitsAssumption
<1>1. pc = "libraries" /\ NumAvailUnits = 0 /\ unit_num = 0 /\ Available = {}
  BY DEF Init, Available
<1>2. PcTypeOK /\ BootTypeOK /\ HeldTypeOK
  BY DEF Init, PcTypeOK, BootTypeOK, HeldTypeOK, Units
<1>3. DriverTypeOK
  BY DEF Init, DriverTypeOK
<1>4. AvailableIsServed
  BY <1>1 DEF AvailableIsServed
<1>5. ConfigurationIsHosts
  BY DEF ConfigurationIsHosts, Init
<1>6. pc \notin FromReset
  BY <1>1, Steps
<1>7. BootProgress /\ DriverProgress
  BY <1>1, Steps DEF BootProgress, DriverProgress
<1>8. BootOwns
  <2>1. pc \notin FromCache /\ pc \notin FromSignal /\ pc \notin FromConfigure
    BY <1>1, Steps
  <2> QED
    BY <1>1, <2>1 DEF BootOwns, Init
<1>9. Handshake
  BY <1>1 DEF Handshake, Init, Units
<1> QED
  BY <1>2, <1>3, <1>4, <1>5, <1>7, <1>8, <1>9, Parts

LEMMA OpenLibrariesKeeps == BootInvariant /\ OpenLibraries => BootInvariant'
<1> SUFFICES ASSUME BootInvariant, OpenLibraries PROVE BootInvariant'
  OBVIOUS
<1> USE UnitsAssumption DEF OpenLibraries, boot, driver, held, cache
<1>1. /\ PcTypeOK /\ BootTypeOK /\ DriverTypeOK /\ HeldTypeOK
      /\ AvailableIsServed /\ ConfigurationIsHosts
      /\ BootProgress /\ DriverProgress /\ BootOwns /\ Handshake
  BY Parts
<1>3. PcTypeOK'
  BY DEF PcTypeOK
<1>4. BootTypeOK'
  BY <1>1 DEF BootTypeOK
<1>5. DriverTypeOK'
  BY <1>1 DEF DriverTypeOK
<1>6. HeldTypeOK'
  BY <1>1 DEF HeldTypeOK
<1>7. AvailableIsServed'
  BY <1>1 DEF AvailableIsServed, Available
<1>8. ConfigurationIsHosts'
  BY <1>1 DEF ConfigurationIsHosts
<1>9. BootProgress'
  BY <1>1, Steps DEF BootProgress
<1>10. DriverProgress'
  BY <1>1, Steps DEF DriverProgress
<1>11. BootOwns'
  BY <1>1, Steps DEF BootOwns, Available
<1>12. Handshake'
  BY <1>1 DEF Handshake
<1> QED
  BY <1>3, <1>4, <1>5, <1>6, <1>7, <1>8, <1>9, <1>10, <1>11, <1>12 DEF BootInvariant, TypeOK

LEMMA SetupKeeps == BootInvariant /\ Setup => BootInvariant'
<1> SUFFICES ASSUME BootInvariant, Setup PROVE BootInvariant'
  OBVIOUS
<1> USE UnitsAssumption DEF Setup, boot, driver, held, cache
<1>1. /\ PcTypeOK /\ BootTypeOK /\ DriverTypeOK /\ HeldTypeOK
      /\ AvailableIsServed /\ ConfigurationIsHosts
      /\ BootProgress /\ DriverProgress /\ BootOwns /\ Handshake
  BY Parts
<1>3. PcTypeOK'
  BY DEF PcTypeOK
<1>4. BootTypeOK'
  BY <1>1 DEF BootTypeOK
<1>5. DriverTypeOK'
  BY <1>1 DEF DriverTypeOK
<1>6. HeldTypeOK'
  BY <1>1 DEF HeldTypeOK
<1>7. AvailableIsServed'
  BY <1>1 DEF AvailableIsServed, Available
<1>8. ConfigurationIsHosts'
  BY <1>1 DEF ConfigurationIsHosts
<1>9. BootProgress'
  BY <1>1, Steps DEF BootProgress, BootTypeOK
<1>10. DriverProgress'
  BY <1>1, Steps DEF DriverProgress
<1>11. BootOwns'
  BY <1>1, Steps DEF BootOwns, Available
<1>12. Handshake'
  BY <1>1 DEF Handshake
<1> QED
  BY <1>3, <1>4, <1>5, <1>6, <1>7, <1>8, <1>9, <1>10, <1>11, <1>12 DEF BootInvariant, TypeOK

LEMMA ResetKeeps == BootInvariant /\ Reset => BootInvariant'
<1> SUFFICES ASSUME BootInvariant, Reset PROVE BootInvariant'
  OBVIOUS
<1> USE UnitsAssumption DEF Reset, boot, driver, held, cache
<1>1. /\ PcTypeOK /\ BootTypeOK /\ DriverTypeOK /\ HeldTypeOK
      /\ AvailableIsServed /\ ConfigurationIsHosts
      /\ BootProgress /\ DriverProgress /\ BootOwns /\ Handshake
  BY Parts
<1>2. unit_num \in Units /\ unit_num \notin Available
  BY <1>1, Steps, UnitInHand
<1>3. PcTypeOK'
  BY DEF PcTypeOK
<1>4. BootTypeOK'
  BY <1>1 DEF BootTypeOK
<1>5. DriverTypeOK'
  BY <1>1, <1>2 DEF DriverTypeOK
<1>6. HeldTypeOK'
  BY <1>1 DEF HeldTypeOK
<1>7. AvailableIsServed'
  BY <1>1, <1>2 DEF AvailableIsServed, Available, DriverTypeOK
<1>8. ConfigurationIsHosts'
  BY <1>1 DEF ConfigurationIsHosts
<1>9. BootProgress'
  BY <1>1, Steps DEF BootProgress
<1>10. DriverProgress'
  BY <1>1, <1>2, Steps DEF DriverProgress, DriverTypeOK
<1>11. BootOwns'
  BY <1>1, Steps DEF BootOwns, Available
<1>12. Handshake'
  BY <1>1 DEF Handshake
<1> QED
  BY <1>3, <1>4, <1>5, <1>6, <1>7, <1>8, <1>9, <1>10, <1>11, <1>12 DEF BootInvariant, TypeOK

LEMMA AcknowledgeKeeps == BootInvariant /\ Acknowledge => BootInvariant'
<1> SUFFICES ASSUME BootInvariant, Acknowledge PROVE BootInvariant'
  OBVIOUS
<1> USE UnitsAssumption DEF Acknowledge, boot, driver, held, cache
<1>1. /\ PcTypeOK /\ BootTypeOK /\ DriverTypeOK /\ HeldTypeOK
      /\ AvailableIsServed /\ ConfigurationIsHosts
      /\ BootProgress /\ DriverProgress /\ BootOwns /\ Handshake
  BY Parts
<1>2. unit_num \in Units /\ unit_num \notin Available
  BY <1>1, Steps, UnitInHand
<1>3. PcTypeOK'
  BY DEF PcTypeOK
<1>4. BootTypeOK'
  BY <1>1 DEF BootTypeOK
<1>5. DriverTypeOK'
  BY <1>1, <1>2 DEF DriverTypeOK
<1>6. HeldTypeOK'
  BY <1>1 DEF HeldTypeOK
<1>7. AvailableIsServed'
  BY <1>1, <1>2 DEF AvailableIsServed, Available, DriverTypeOK
<1>8. ConfigurationIsHosts'
  BY <1>1 DEF ConfigurationIsHosts
<1>9. BootProgress'
  BY <1>1, Steps DEF BootProgress
<1>10. DriverProgress'
  BY <1>1, <1>2, Steps DEF DriverProgress, DriverTypeOK
<1>11. BootOwns'
  BY <1>1, Steps DEF BootOwns, Available
<1>12. Handshake'
  BY <1>1 DEF Handshake
<1> QED
  BY <1>3, <1>4, <1>5, <1>6, <1>7, <1>8, <1>9, <1>10, <1>11, <1>12 DEF BootInvariant, TypeOK

LEMMA ExchangeFeaturesKeeps == BootInvariant /\ ExchangeFeatures => BootInvariant'
<1> SUFFICES ASSUME BootInvariant, ExchangeFeatures PROVE BootInvariant'
  OBVIOUS
<1> USE UnitsAssumption DEF ExchangeFeatures, boot, driver, held, cache
<1>1. /\ PcTypeOK /\ BootTypeOK /\ DriverTypeOK /\ HeldTypeOK
      /\ AvailableIsServed /\ ConfigurationIsHosts
      /\ BootProgress /\ DriverProgress /\ BootOwns /\ Handshake
  BY Parts
<1>2. unit_num \in Units /\ unit_num \notin Available
  BY <1>1, Steps, UnitInHand
<1>3. PcTypeOK'
  BY DEF PcTypeOK
<1>4. BootTypeOK'
  BY <1>1 DEF BootTypeOK
<1>5. DriverTypeOK'
  BY <1>1, <1>2 DEF DriverTypeOK
<1>6. HeldTypeOK'
  BY <1>1 DEF HeldTypeOK
<1>7. AvailableIsServed'
  BY <1>1, <1>2 DEF AvailableIsServed, Available, DriverTypeOK
<1>8. ConfigurationIsHosts'
  BY <1>1 DEF ConfigurationIsHosts
<1>9. BootProgress'
  BY <1>1, Steps DEF BootProgress
<1>10. DriverProgress'
  BY <1>1, <1>2, Steps DEF DriverProgress, DriverTypeOK
<1>11. BootOwns'
  BY <1>1, Steps DEF BootOwns, Available
<1>12. Handshake'
  BY <1>1 DEF Handshake
<1> QED
  BY <1>3, <1>4, <1>5, <1>6, <1>7, <1>8, <1>9, <1>10, <1>11, <1>12 DEF BootInvariant, TypeOK

LEMMA KnowsDeviceKeeps == BootInvariant /\ KnowsDevice => BootInvariant'
<1> SUFFICES ASSUME BootInvariant, KnowsDevice PROVE BootInvariant'
  OBVIOUS
<1> USE UnitsAssumption DEF KnowsDevice, boot, driver, held, cache
<1>1. /\ PcTypeOK /\ BootTypeOK /\ DriverTypeOK /\ HeldTypeOK
      /\ AvailableIsServed /\ ConfigurationIsHosts
      /\ BootProgress /\ DriverProgress /\ BootOwns /\ Handshake
  BY Parts
<1>2. unit_num \in Units /\ unit_num \notin Available
  BY <1>1, Steps, UnitInHand
<1>3. PcTypeOK'
  BY DEF PcTypeOK
<1>4. BootTypeOK'
  BY <1>1 DEF BootTypeOK
<1>5. DriverTypeOK'
  BY <1>1, <1>2 DEF DriverTypeOK
<1>6. HeldTypeOK'
  BY <1>1 DEF HeldTypeOK
<1>7. AvailableIsServed'
  BY <1>1, <1>2 DEF AvailableIsServed, Available, DriverTypeOK
<1>8. ConfigurationIsHosts'
  BY <1>1 DEF ConfigurationIsHosts
<1>9. BootProgress'
  BY <1>1, Steps DEF BootProgress
<1>10. DriverProgress'
  BY <1>1, <1>2, Steps DEF DriverProgress, DriverTypeOK
<1>11. BootOwns'
  BY <1>1, Steps DEF BootOwns, Available
<1>12. Handshake'
  BY <1>1 DEF Handshake
<1> QED
  BY <1>3, <1>4, <1>5, <1>6, <1>7, <1>8, <1>9, <1>10, <1>11, <1>12 DEF BootInvariant, TypeOK

LEMMA AllocateQueuesKeeps == BootInvariant /\ AllocateQueues => BootInvariant'
<1> SUFFICES ASSUME BootInvariant, AllocateQueues PROVE BootInvariant'
  OBVIOUS
<1> USE UnitsAssumption DEF AllocateQueues, boot, driver, held, cache
<1>1. /\ PcTypeOK /\ BootTypeOK /\ DriverTypeOK /\ HeldTypeOK
      /\ AvailableIsServed /\ ConfigurationIsHosts
      /\ BootProgress /\ DriverProgress /\ BootOwns /\ Handshake
  BY Parts
<1>2. unit_num \in Units /\ unit_num \notin Available
  BY <1>1, Steps, UnitInHand
<1>3. PcTypeOK'
  BY DEF PcTypeOK
<1>4. BootTypeOK'
  BY <1>1 DEF BootTypeOK
<1>5. DriverTypeOK'
  BY <1>1, <1>2 DEF DriverTypeOK
<1>6. HeldTypeOK'
  BY <1>1 DEF HeldTypeOK
<1>7. AvailableIsServed'
  BY <1>1, <1>2 DEF AvailableIsServed, Available, DriverTypeOK
<1>8. ConfigurationIsHosts'
  BY <1>1 DEF ConfigurationIsHosts
<1>9. BootProgress'
  BY <1>1, Steps DEF BootProgress
<1>10. DriverProgress'
  BY <1>1, <1>2, Steps DEF DriverProgress, DriverTypeOK
<1>11. BootOwns'
  BY <1>1, Steps DEF BootOwns, Available
<1>12. Handshake'
  BY <1>1 DEF Handshake
<1> QED
  BY <1>3, <1>4, <1>5, <1>6, <1>7, <1>8, <1>9, <1>10, <1>11, <1>12 DEF BootInvariant, TypeOK

LEMMA InitQueuesKeeps == BootInvariant /\ InitQueues => BootInvariant'
<1> SUFFICES ASSUME BootInvariant, InitQueues PROVE BootInvariant'
  OBVIOUS
<1> USE UnitsAssumption DEF InitQueues, boot, driver, held, cache
<1>1. /\ PcTypeOK /\ BootTypeOK /\ DriverTypeOK /\ HeldTypeOK
      /\ AvailableIsServed /\ ConfigurationIsHosts
      /\ BootProgress /\ DriverProgress /\ BootOwns /\ Handshake
  BY Parts
<1>2. unit_num \in Units /\ unit_num \notin Available
  BY <1>1, Steps, UnitInHand
<1>3. PcTypeOK'
  BY DEF PcTypeOK
<1>4. BootTypeOK'
  BY <1>1 DEF BootTypeOK
<1>5. DriverTypeOK'
  BY <1>1, <1>2 DEF DriverTypeOK
<1>6. HeldTypeOK'
  BY <1>1 DEF HeldTypeOK
<1>7. AvailableIsServed'
  BY <1>1, <1>2 DEF AvailableIsServed, Available, DriverTypeOK
<1>8. ConfigurationIsHosts'
  BY <1>1 DEF ConfigurationIsHosts
<1>9. BootProgress'
  BY <1>1, Steps DEF BootProgress
<1>10. DriverProgress'
  BY <1>1, <1>2, Steps DEF DriverProgress, DriverTypeOK
<1>11. BootOwns'
  BY <1>1, Steps DEF BootOwns, Available
<1>12. Handshake'
  BY <1>1 DEF Handshake
<1> QED
  BY <1>3, <1>4, <1>5, <1>6, <1>7, <1>8, <1>9, <1>10, <1>11, <1>12 DEF BootInvariant, TypeOK

LEMMA AllocRequestsKeeps == BootInvariant /\ AllocRequests => BootInvariant'
<1> SUFFICES ASSUME BootInvariant, AllocRequests PROVE BootInvariant'
  OBVIOUS
<1> USE UnitsAssumption DEF AllocRequests, boot, driver, held, cache
<1>1. /\ PcTypeOK /\ BootTypeOK /\ DriverTypeOK /\ HeldTypeOK
      /\ AvailableIsServed /\ ConfigurationIsHosts
      /\ BootProgress /\ DriverProgress /\ BootOwns /\ Handshake
  BY Parts
<1>2. unit_num \in Units /\ unit_num \notin Available
  BY <1>1, Steps, UnitInHand
<1>3. PcTypeOK'
  BY DEF PcTypeOK
<1>4. BootTypeOK'
  BY <1>1 DEF BootTypeOK
<1>5. DriverTypeOK'
  BY <1>1, <1>2 DEF DriverTypeOK
<1>6. HeldTypeOK'
  BY <1>1 DEF HeldTypeOK
<1>7. AvailableIsServed'
  BY <1>1, <1>2 DEF AvailableIsServed, Available, DriverTypeOK
<1>8. ConfigurationIsHosts'
  BY <1>1 DEF ConfigurationIsHosts
<1>9. BootProgress'
  BY <1>1, Steps DEF BootProgress
<1>10. DriverProgress'
  BY <1>1, <1>2, Steps DEF DriverProgress, DriverTypeOK
<1>11. BootOwns'
  BY <1>1, Steps DEF BootOwns, Available
<1>12. Handshake'
  BY <1>1 DEF Handshake
<1> QED
  BY <1>3, <1>4, <1>5, <1>6, <1>7, <1>8, <1>9, <1>10, <1>11, <1>12 DEF BootInvariant, TypeOK

LEMMA ConfigurationKeeps == BootInvariant /\ Configuration => BootInvariant'
<1> SUFFICES ASSUME BootInvariant, Configuration PROVE BootInvariant'
  OBVIOUS
<1> USE UnitsAssumption DEF Configuration, boot, driver, held, cache
<1>1. /\ PcTypeOK /\ BootTypeOK /\ DriverTypeOK /\ HeldTypeOK
      /\ AvailableIsServed /\ ConfigurationIsHosts
      /\ BootProgress /\ DriverProgress /\ BootOwns /\ Handshake
  BY Parts
<1>2. unit_num \in Units /\ unit_num \notin Available
  BY <1>1, Steps, UnitInHand
<1>3. PcTypeOK'
  BY DEF PcTypeOK
<1>4. BootTypeOK'
  BY <1>1 DEF BootTypeOK
<1>5. DriverTypeOK'
  BY <1>1, <1>2 DEF DriverTypeOK
<1>6. HeldTypeOK'
  BY <1>1 DEF HeldTypeOK
<1>7. AvailableIsServed'
  BY <1>1, <1>2 DEF AvailableIsServed, Available, DriverTypeOK
<1>8. ConfigurationIsHosts'
  <2>1. host_support[unit_num] = offered[unit_num]
    BY <1>1, Steps DEF DriverProgress
  <2>2. info' = [info EXCEPT ![unit_num] = {"capacity"} \cup offered[unit_num]]
    BY <2>1
  <2> QED
    BY <1>1, <2>2 DEF ConfigurationIsHosts, DriverTypeOK
<1>9. BootProgress'
  BY <1>1, Steps DEF BootProgress
<1>10. DriverProgress'
  BY <1>1, <1>2, Steps DEF DriverProgress, DriverTypeOK
<1>11. BootOwns'
  BY <1>1, Steps DEF BootOwns, Available
<1>12. Handshake'
  BY <1>1 DEF Handshake
<1> QED
  BY <1>3, <1>4, <1>5, <1>6, <1>7, <1>8, <1>9, <1>10, <1>11, <1>12 DEF BootInvariant, TypeOK

LEMMA DriverOKKeeps == BootInvariant /\ DriverOK => BootInvariant'
<1> SUFFICES ASSUME BootInvariant, DriverOK PROVE BootInvariant'
  OBVIOUS
<1> USE UnitsAssumption DEF DriverOK, boot, driver, held, cache
<1>1. /\ PcTypeOK /\ BootTypeOK /\ DriverTypeOK /\ HeldTypeOK
      /\ AvailableIsServed /\ ConfigurationIsHosts
      /\ BootProgress /\ DriverProgress /\ BootOwns /\ Handshake
  BY Parts
<1>2. unit_num \in Units /\ unit_num \notin Available
  BY <1>1, Steps, UnitInHand
<1>3. PcTypeOK'
  BY DEF PcTypeOK
<1>4. BootTypeOK'
  BY <1>1 DEF BootTypeOK
<1>5. DriverTypeOK'
  BY <1>1, <1>2 DEF DriverTypeOK
<1>6. HeldTypeOK'
  BY <1>1 DEF HeldTypeOK
<1>7. AvailableIsServed'
  BY <1>1, <1>2 DEF AvailableIsServed, Available, DriverTypeOK
<1>8. ConfigurationIsHosts'
  BY <1>1 DEF ConfigurationIsHosts
<1>9. BootProgress'
  BY <1>1, Steps DEF BootProgress
<1>10. DriverProgress'
  BY <1>1, <1>2, Steps DEF DriverProgress, DriverTypeOK
<1>11. BootOwns'
  BY <1>1, Steps DEF BootOwns, Available
<1>12. Handshake'
  BY <1>1 DEF Handshake
<1> QED
  BY <1>3, <1>4, <1>5, <1>6, <1>7, <1>8, <1>9, <1>10, <1>11, <1>12 DEF BootInvariant, TypeOK

LEMMA AllocTaskDataKeeps == BootInvariant /\ AllocTaskData => BootInvariant'
<1> SUFFICES ASSUME BootInvariant, AllocTaskData PROVE BootInvariant'
  OBVIOUS
<1> USE UnitsAssumption DEF AllocTaskData, boot, driver, held, cache
<1>1. /\ PcTypeOK /\ BootTypeOK /\ DriverTypeOK /\ HeldTypeOK
      /\ AvailableIsServed /\ ConfigurationIsHosts
      /\ BootProgress /\ DriverProgress /\ BootOwns /\ Handshake
  BY Parts
<1>2. unit_num \in Units /\ unit_num \notin Available
  BY <1>1, Steps, UnitInHand
<1>3. PcTypeOK'
  BY DEF PcTypeOK
<1>4. BootTypeOK'
  BY <1>1 DEF BootTypeOK
<1>5. DriverTypeOK'
  BY <1>1 DEF DriverTypeOK
<1>6. HeldTypeOK'
  BY <1>1, <1>2 DEF HeldTypeOK
<1>7. AvailableIsServed'
  BY <1>1, <1>2 DEF AvailableIsServed, Available
<1>8. ConfigurationIsHosts'
  BY <1>1 DEF ConfigurationIsHosts
<1>9. BootProgress'
  BY <1>1, Steps DEF BootProgress
<1>10. DriverProgress'
  BY <1>1, Steps DEF DriverProgress
<1>11. BootOwns'
  BY <1>1, <1>2, Steps DEF BootOwns, Available, BootProgress
<1>12. Handshake'
  BY <1>1 DEF Handshake
<1> QED
  BY <1>3, <1>4, <1>5, <1>6, <1>7, <1>8, <1>9, <1>10, <1>11, <1>12 DEF BootInvariant, TypeOK

LEMMA OpenCacheKeeps == BootInvariant /\ OpenCache => BootInvariant'
<1> SUFFICES ASSUME BootInvariant, OpenCache PROVE BootInvariant'
  OBVIOUS
<1> USE UnitsAssumption DEF OpenCache, boot, driver, held, cache
<1>1. /\ PcTypeOK /\ BootTypeOK /\ DriverTypeOK /\ HeldTypeOK
      /\ AvailableIsServed /\ ConfigurationIsHosts
      /\ BootProgress /\ DriverProgress /\ BootOwns /\ Handshake
  BY Parts
<1>2. unit_num \in Units /\ unit_num \notin Available
  BY <1>1, Steps, UnitInHand
<1>3. PcTypeOK'
  BY DEF PcTypeOK
<1>4. BootTypeOK'
  BY <1>1 DEF BootTypeOK
<1>5. DriverTypeOK'
  BY <1>1 DEF DriverTypeOK
<1>6. HeldTypeOK'
  BY <1>1, <1>2 DEF HeldTypeOK
<1>7. AvailableIsServed'
  BY <1>1, <1>2 DEF AvailableIsServed, Available
<1>8. ConfigurationIsHosts'
  BY <1>1 DEF ConfigurationIsHosts
<1>9. BootProgress'
  BY <1>1, Steps DEF BootProgress
<1>10. DriverProgress'
  BY <1>1, Steps DEF DriverProgress
<1>11. BootOwns'
  <2>1. Available' = Available /\ NumAvailUnits \in Nat
    BY <1>1 DEF Available, BootTypeOK
  <2>2. /\ taskData = Available \cup {unit_num} /\ intServer = Available
        /\ lib_OpenCnt = NumAvailUnits + 0
    BY <1>1, Steps DEF BootOwns
  <2>3. CASE pc' = "configure"
    <3>1. pc' \in FromCache /\ pc' \in FromConfigure /\ pc' \notin FromSignal
      BY <2>3, Steps
    <3>2. lib_OpenCnt' = NumAvailUnits + 1 /\ taskData' = taskData
      BY <2>1, <2>2, <2>3
    <3> QED
      BY <2>1, <2>2, <3>1, <3>2 DEF BootOwns
  <2>4. CASE pc' = "done"
    <3>1. pc' \notin FromCache /\ pc' \notin FromConfigure /\ pc' \notin FromSignal
      BY <2>4, Steps
    <3>2. lib_OpenCnt' = NumAvailUnits /\ taskData' = Available
      BY <1>2, <2>1, <2>2, <2>4
    <3> QED
      BY <2>1, <2>2, <3>1, <3>2 DEF BootOwns
  <2> QED
    BY <2>3, <2>4
<1>12. Handshake'
  BY <1>1 DEF Handshake
<1> QED
  BY <1>3, <1>4, <1>5, <1>6, <1>7, <1>8, <1>9, <1>10, <1>11, <1>12 DEF BootInvariant, TypeOK

LEMMA ConfigureCacheKeeps == BootInvariant /\ ConfigureCache => BootInvariant'
<1> SUFFICES ASSUME BootInvariant, ConfigureCache PROVE BootInvariant'
  OBVIOUS
<1> USE UnitsAssumption DEF ConfigureCache, boot, driver, held, cache
<1>1. /\ PcTypeOK /\ BootTypeOK /\ DriverTypeOK /\ HeldTypeOK
      /\ AvailableIsServed /\ ConfigurationIsHosts
      /\ BootProgress /\ DriverProgress /\ BootOwns /\ Handshake
  BY Parts
<1>2. unit_num \in Units /\ unit_num \notin Available
  BY <1>1, Steps, UnitInHand
<1>3. PcTypeOK'
  BY DEF PcTypeOK
<1>4. BootTypeOK'
  BY <1>1 DEF BootTypeOK
<1>5. DriverTypeOK'
  BY <1>1 DEF DriverTypeOK
<1>6. HeldTypeOK'
  <2>1. lib_OpenCnt = NumAvailUnits + 1
    BY <1>1, Steps DEF BootOwns
  <2>2. lib_OpenCnt' \in Nat
    BY <1>1, <2>1 DEF HeldTypeOK, BootTypeOK
  <2> QED
    BY <1>1, <1>2, <2>2 DEF HeldTypeOK
<1>7. AvailableIsServed'
  BY <1>1, <1>2 DEF AvailableIsServed, Available
<1>8. ConfigurationIsHosts'
  BY <1>1 DEF ConfigurationIsHosts
<1>9. BootProgress'
  BY <1>1, Steps DEF BootProgress
<1>10. DriverProgress'
  BY <1>1, Steps DEF DriverProgress
<1>11. BootOwns'
  <2>1. Available' = Available /\ NumAvailUnits \in Nat
    BY <1>1 DEF Available, BootTypeOK
  <2>2. /\ taskData = Available \cup {unit_num} /\ intServer = Available
        /\ lib_OpenCnt = NumAvailUnits + 1
    BY <1>1, Steps DEF BootOwns
  <2>3. CASE pc' = "irq"
    <3>1. pc' \in FromCache /\ pc' \in FromConfigure /\ pc' \notin FromSignal
      BY <2>3, Steps
    <3>2. lib_OpenCnt' = NumAvailUnits + 1 /\ taskData' = taskData
      BY <2>1, <2>2, <2>3
    <3> QED
      BY <2>1, <2>2, <3>1, <3>2 DEF BootOwns
  <2>4. CASE pc' = "done"
    <3>1. pc' \notin FromCache /\ pc' \notin FromConfigure /\ pc' \notin FromSignal
      BY <2>4, Steps
    <3>2. lib_OpenCnt' = NumAvailUnits /\ taskData' = Available
      BY <1>2, <2>1, <2>2, <2>4
    <3> QED
      BY <2>1, <2>2, <3>1, <3>2 DEF BootOwns
  <2> QED
    BY <2>3, <2>4
<1>12. Handshake'
  BY <1>1 DEF Handshake
<1> QED
  BY <1>3, <1>4, <1>5, <1>6, <1>7, <1>8, <1>9, <1>10, <1>11, <1>12 DEF BootInvariant, TypeOK

LEMMA StartIRQServerKeeps == BootInvariant /\ StartIRQServer => BootInvariant'
<1> SUFFICES ASSUME BootInvariant, StartIRQServer PROVE BootInvariant'
  OBVIOUS
<1> USE UnitsAssumption DEF StartIRQServer, boot, driver, held, cache
<1>1. /\ PcTypeOK /\ BootTypeOK /\ DriverTypeOK /\ HeldTypeOK
      /\ AvailableIsServed /\ ConfigurationIsHosts
      /\ BootProgress /\ DriverProgress /\ BootOwns /\ Handshake
  BY Parts
<1>2. unit_num \in Units /\ unit_num \notin Available
  BY <1>1, Steps, UnitInHand
<1>3. PcTypeOK'
  BY DEF PcTypeOK
<1>4. BootTypeOK'
  BY <1>1 DEF BootTypeOK
<1>5. DriverTypeOK'
  BY <1>1 DEF DriverTypeOK
<1>6. HeldTypeOK'
  BY <1>1, <1>2 DEF HeldTypeOK
<1>7. AvailableIsServed'
  BY <1>1, <1>2 DEF AvailableIsServed, Available
<1>8. ConfigurationIsHosts'
  BY <1>1 DEF ConfigurationIsHosts
<1>9. BootProgress'
  BY <1>1, Steps DEF BootProgress
<1>10. DriverProgress'
  BY <1>1, Steps DEF DriverProgress
<1>11. BootOwns'
  BY <1>1, <1>2, Steps DEF BootOwns, Available, BootProgress
<1>12. Handshake'
  BY <1>1 DEF Handshake
<1> QED
  BY <1>3, <1>4, <1>5, <1>6, <1>7, <1>8, <1>9, <1>10, <1>11, <1>12 DEF BootInvariant, TypeOK

LEMMA ClearSignalKeeps == BootInvariant /\ ClearSignal => BootInvariant'
<1> SUFFICES ASSUME BootInvariant, ClearSignal PROVE BootInvariant'
  OBVIOUS
<1> USE UnitsAssumption DEF ClearSignal, boot, driver, held, cache
<1>1. /\ PcTypeOK /\ BootTypeOK /\ DriverTypeOK /\ HeldTypeOK
      /\ AvailableIsServed /\ ConfigurationIsHosts
      /\ BootProgress /\ DriverProgress /\ BootOwns /\ Handshake
  BY Parts
<1>3. PcTypeOK'
  BY DEF PcTypeOK
<1>4. BootTypeOK'
  BY <1>1 DEF BootTypeOK
<1>5. DriverTypeOK'
  BY <1>1 DEF DriverTypeOK
<1>6. HeldTypeOK'
  BY <1>1 DEF HeldTypeOK
<1>7. AvailableIsServed'
  BY <1>1 DEF AvailableIsServed, Available
<1>8. ConfigurationIsHosts'
  BY <1>1 DEF ConfigurationIsHosts
<1>9. BootProgress'
  BY <1>1, Steps DEF BootProgress
<1>10. DriverProgress'
  BY <1>1, Steps DEF DriverProgress
<1>11. BootOwns'
  BY <1>1, Steps DEF BootOwns, Available
<1>12. Handshake'
  BY <1>1 DEF Handshake
<1> QED
  BY <1>3, <1>4, <1>5, <1>6, <1>7, <1>8, <1>9, <1>10, <1>11, <1>12 DEF BootInvariant, TypeOK

LEMMA CreateWorkerKeeps == BootInvariant /\ CreateWorker => BootInvariant'
<1> SUFFICES ASSUME BootInvariant, CreateWorker PROVE BootInvariant'
  OBVIOUS
<1> USE UnitsAssumption DEF CreateWorker, boot, driver, held, cache
<1>1. /\ PcTypeOK /\ BootTypeOK /\ DriverTypeOK /\ HeldTypeOK
      /\ AvailableIsServed /\ ConfigurationIsHosts
      /\ BootProgress /\ DriverProgress /\ BootOwns /\ Handshake
  BY Parts
<1>2. unit_num \in Units /\ unit_num \notin Available
  BY <1>1, Steps, UnitInHand
<1>3. PcTypeOK'
  BY DEF PcTypeOK
<1>4. BootTypeOK'
  BY <1>1 DEF BootTypeOK
<1>5. DriverTypeOK'
  BY <1>1 DEF DriverTypeOK
<1>6. HeldTypeOK'
  BY <1>1, <1>2 DEF HeldTypeOK
<1>7. AvailableIsServed'
  BY <1>1, <1>2 DEF AvailableIsServed, Available
<1>8. ConfigurationIsHosts'
  BY <1>1 DEF ConfigurationIsHosts
<1>9. BootProgress'
  BY <1>1, Steps DEF BootProgress
<1>10. DriverProgress'
  BY <1>1, Steps DEF DriverProgress
<1>11. BootOwns'
  BY <1>1, <1>2, Steps DEF BootOwns, Available, BootProgress
<1>12. Handshake'
  BY <1>1, <1>2 DEF Handshake, HeldTypeOK
<1> QED
  BY <1>3, <1>4, <1>5, <1>6, <1>7, <1>8, <1>9, <1>10, <1>11, <1>12 DEF BootInvariant, TypeOK

LEMMA WaitForWorkerKeeps == BootInvariant /\ WaitForWorker => BootInvariant'
<1> SUFFICES ASSUME BootInvariant, WaitForWorker PROVE BootInvariant'
  OBVIOUS
<1> USE UnitsAssumption DEF WaitForWorker, boot, driver, held, cache
<1>1. /\ PcTypeOK /\ BootTypeOK /\ DriverTypeOK /\ HeldTypeOK
      /\ AvailableIsServed /\ ConfigurationIsHosts
      /\ BootProgress /\ DriverProgress /\ BootOwns /\ Handshake
  BY Parts
<1>2. unit_num \in Units /\ unit_num \notin Available
  BY <1>1, Steps, UnitInHand
<1>3. PcTypeOK'
  BY DEF PcTypeOK
<1>4. BootTypeOK'
  <2>1. unit_num < VB_UNIT_MAX /\ unit_num = NumAvailUnits
    BY <1>1, Steps DEF BootProgress
  <2>2. unit_num' \in 0 .. VB_UNIT_MAX /\ NumAvailUnits' \in 0 .. VB_UNIT_MAX
    BY <1>1, <2>1 DEF BootTypeOK
  <2>3. found' = found /\ opened' = opened /\ single' \in BOOLEAN
    OBVIOUS
  <2> QED
    BY <1>1, <2>2, <2>3 DEF BootTypeOK
<1>5. DriverTypeOK'
  BY <1>1 DEF DriverTypeOK
<1>6. HeldTypeOK'
  BY <1>1 DEF HeldTypeOK
<1>7. AvailableIsServed'
  <2>1. Available' = Available \cup {unit_num}
    BY <1>1 DEF Available, BootTypeOK, BootProgress
  <2>2. worker[unit_num] = "ready"
    BY <1>1 DEF Handshake
  <2>3. unit_num \in taskData /\ unit_num \in intServer
    BY <1>1, Steps DEF BootOwns
  <2>4. status[unit_num] = "DRV_OK"
    BY <1>1, Steps DEF DriverProgress
  <2> QED
    BY <1>1, <2>1, <2>2, <2>3, <2>4 DEF AvailableIsServed
<1>8. ConfigurationIsHosts'
  BY <1>1 DEF ConfigurationIsHosts
<1>9. BootProgress'
  BY <1>1, Steps DEF BootProgress
<1>10. DriverProgress'
  BY <1>1, Steps DEF DriverProgress
<1>11. BootOwns'
  <2>1. Available' = Available \cup {unit_num}
    BY <1>1 DEF Available, BootTypeOK, BootProgress
  <2>2. /\ taskData = Available \cup {unit_num} /\ intServer = Available \cup {unit_num}
        /\ lib_OpenCnt = NumAvailUnits + 1
    BY <1>1, Steps DEF BootOwns
  <2>3. pc' \notin FromCache /\ pc' \notin FromSignal /\ pc' \notin FromConfigure
    BY Steps
  <2>4. lib_OpenCnt' = NumAvailUnits' + 0
    BY <1>1, <2>2 DEF BootTypeOK
  <2> QED
    BY <2>1, <2>2, <2>3, <2>4 DEF BootOwns
<1>12. Handshake'
  BY <1>1 DEF Handshake, BootTypeOK, Units
<1> QED
  BY <1>3, <1>4, <1>5, <1>6, <1>7, <1>8, <1>9, <1>10, <1>11, <1>12 DEF BootInvariant, TypeOK

LEMMA InitMsgPortKeeps ==
  ASSUME BootInvariant, NEW w \in Units, InitMsgPort(w)
  PROVE  BootInvariant'
<1> USE UnitsAssumption DEF InitMsgPort, boot, driver, held, cache
<1>1. /\ PcTypeOK /\ BootTypeOK /\ DriverTypeOK /\ HeldTypeOK
      /\ AvailableIsServed /\ ConfigurationIsHosts
      /\ BootProgress /\ DriverProgress /\ BootOwns /\ Handshake
  BY Parts
<1>2. PcTypeOK' /\ BootTypeOK' /\ DriverTypeOK' /\ ConfigurationIsHosts' /\ BootProgress' /\ DriverProgress'
  BY <1>1 DEF PcTypeOK, BootTypeOK, DriverTypeOK, ConfigurationIsHosts, BootProgress, DriverProgress
<1>3. HeldTypeOK'
  BY <1>1 DEF HeldTypeOK
<1>4. AvailableIsServed'
  BY <1>1 DEF AvailableIsServed, Available, HeldTypeOK
<1>5. BootOwns'
  BY <1>1 DEF BootOwns, Available
<1>6. Handshake'
  BY <1>1 DEF Handshake, HeldTypeOK
<1> QED
  BY <1>2, <1>3, <1>4, <1>5, <1>6 DEF BootInvariant, TypeOK

LEMMA SignalBootTaskKeeps ==
  ASSUME BootInvariant, NEW w \in Units, SignalBootTask(w)
  PROVE  BootInvariant'
<1> USE UnitsAssumption DEF SignalBootTask, boot, driver, held, cache
<1>1. /\ PcTypeOK /\ BootTypeOK /\ DriverTypeOK /\ HeldTypeOK
      /\ AvailableIsServed /\ ConfigurationIsHosts
      /\ BootProgress /\ DriverProgress /\ BootOwns /\ Handshake
  BY Parts
<1>2. PcTypeOK' /\ BootTypeOK' /\ DriverTypeOK' /\ ConfigurationIsHosts' /\ BootProgress' /\ DriverProgress'
  BY <1>1 DEF PcTypeOK, BootTypeOK, DriverTypeOK, ConfigurationIsHosts, BootProgress, DriverProgress
<1>3. HeldTypeOK'
  BY <1>1 DEF HeldTypeOK
<1>4. AvailableIsServed'
  BY <1>1 DEF AvailableIsServed, Available, HeldTypeOK
<1>5. BootOwns'
  BY <1>1 DEF BootOwns, Available
\* The workers of available units are ready, so this is the one waited for.
<1>6. w = unit_num /\ pc = "wait"
  <2>1. w \notin Available
    BY <1>1 DEF AvailableIsServed
  <2>2. ~(w < unit_num)
    BY <1>1, <2>1 DEF Available, BootProgress, BootTypeOK, Units
  <2> QED
    BY <1>1, <2>2 DEF Handshake
<1>7. Handshake'
  BY <1>1, <1>6 DEF Handshake, HeldTypeOK
<1> QED
  BY <1>2, <1>3, <1>4, <1>5, <1>7 DEF BootInvariant, TypeOK

LEMMA NextKeeps == BootInvariant /\ [Next]_vars => BootInvariant'
<1> SUFFICES ASSUME BootInvariant, [Next]_vars PROVE BootInvariant'
  OBVIOUS
<1>1. CASE Drive
  BY <1>1, ResetKeeps, AcknowledgeKeeps, ExchangeFeaturesKeeps, KnowsDeviceKeeps,
     AllocateQueuesKeeps, InitQueuesKeeps, AllocRequestsKeeps, ConfigurationKeeps,
     DriverOKKeeps DEF Drive
<1>2. CASE BootTask
  BY <1>1, <1>2, OpenLibrariesKeeps, SetupKeeps, AllocTaskDataKeeps, OpenCacheKeeps,
     ConfigureCacheKeeps, StartIRQServerKeeps, ClearSignalKeeps, CreateWorkerKeeps,
     WaitForWorkerKeeps DEF BootTask
<1>3. ASSUME NEW w \in Units, WorkerTask(w) PROVE BootInvariant'
  BY <1>3, InitMsgPortKeeps, SignalBootTaskKeeps DEF WorkerTask
<1>4. CASE UNCHANGED vars
  <2> USE <1>4 DEF vars, boot, driver, held, cache
  <2>1. /\ PcTypeOK /\ BootTypeOK /\ DriverTypeOK /\ HeldTypeOK
        /\ AvailableIsServed /\ ConfigurationIsHosts
        /\ BootProgress /\ DriverProgress /\ BootOwns /\ Handshake
    BY Parts
  <2>2. PcTypeOK' /\ BootTypeOK' /\ DriverTypeOK' /\ HeldTypeOK'
    BY <2>1 DEF PcTypeOK, BootTypeOK, DriverTypeOK, HeldTypeOK
  <2>3. AvailableIsServed' /\ ConfigurationIsHosts'
    BY <2>1 DEF AvailableIsServed, Available, ConfigurationIsHosts
  <2>4. BootProgress' /\ DriverProgress'
    BY <2>1 DEF BootProgress, DriverProgress
  <2>5. BootOwns' /\ Handshake'
    BY <2>1 DEF BootOwns, Available, Handshake
  <2> QED
    BY <2>2, <2>3, <2>4, <2>5 DEF BootInvariant, TypeOK
<1> QED
  BY <1>2, <1>3, <1>4 DEF Next

(* BootInvariant is an invariant of virtio_blk_InitDev, for any number of  *)
(* units and of devices on the bus.                                        *)
THEOREM BootInvariance == Spec => []BootInvariant
<1> QED
  BY InitHolds, NextKeeps, PTL DEF Spec

(* Every variable of virtio_blk_InitDev keeps its type.                     *)
THEOREM TypeCorrectness == Spec => []TypeOK
<1>1. BootInvariant => TypeOK
  BY DEF BootInvariant
<1> QED
  BY <1>1, BootInvariance, PTL

(* What is known of a unit's disk comes from that unit's own device, and   *)
(* only what that device offers was read.                                  *)
THEOREM ConfigurationRead == Spec => []ConfigurationIsHosts
<1>1. BootInvariant => ConfigurationIsHosts
  BY DEF BootInvariant
<1> QED
  BY <1>1, BootInvariance, PTL

(* Every unit that virtio_blk_OpenDev hands out has a worker that waits at *)
(* its port, whatever signal the boot task had pending when it started.    *)
THEOREM UnitsServed == Spec => []AvailableIsServed
<1>1. BootInvariant => AvailableIsServed
  BY DEF BootInvariant
<1> QED
  BY <1>1, BootInvariance, PTL

\* A step begins no unit but the one in hand, and never moves back.
LEMMA BegunKeeps == BootInvariant /\ BegunInOrder /\ [Next]_vars => BegunInOrder'
<1> SUFFICES ASSUME BootInvariant, BegunInOrder, [Next]_vars PROVE BegunInOrder'
  OBVIOUS
<1>1. DriverTypeOK /\ BootTypeOK
  BY Parts
<1>2. CASE UNCHANGED <<driver, unit_num>>
  BY <1>2 DEF driver, BegunInOrder, Begun
<1>3. ASSUME \A u \in Units : u # unit_num =>
               /\ queues'[u] = queues[u] /\ hdrs'[u] = hdrs[u]
               /\ host_support'[u] = host_support[u] /\ info'[u] = info[u],
             unit_num' = unit_num
      PROVE  BegunInOrder'
  BY <1>1, <1>3 DEF BegunInOrder, Begun, BootTypeOK
<1>4. CASE Drive
  <2>1. CASE Reset
    BY <1>3, <2>1 DEF Reset
  <2>2. CASE Acknowledge
    BY <1>3, <2>2 DEF Acknowledge
  <2>3. CASE ExchangeFeatures
    BY <1>1, <1>3, <2>3 DEF ExchangeFeatures, DriverTypeOK
  <2>4. CASE KnowsDevice
    BY <1>3, <2>4 DEF KnowsDevice
  <2>5. CASE AllocateQueues
    BY <1>1, <1>3, <2>5 DEF AllocateQueues, DriverTypeOK
  <2>6. CASE InitQueues
    BY <1>1, <1>3, <2>6 DEF InitQueues, DriverTypeOK
  <2>7. CASE AllocRequests
    BY <1>1, <1>3, <2>7 DEF AllocRequests, DriverTypeOK
  <2>8. CASE Configuration
    BY <1>1, <1>3, <2>8 DEF Configuration, DriverTypeOK
  <2>9. CASE DriverOK
    BY <1>3, <2>9 DEF DriverOK
  <2> QED
    BY <1>4, <2>1, <2>2, <2>3, <2>4, <2>5, <2>6, <2>7, <2>8, <2>9 DEF Drive
<1>5. CASE WaitForWorker
  BY <1>1, <1>5 DEF WaitForWorker, driver, BegunInOrder, Begun, BootTypeOK
<1>6. CASE OpenLibraries \/ Setup \/ AllocTaskData \/ OpenCache \/ ConfigureCache
           \/ StartIRQServer \/ ClearSignal \/ CreateWorker
  BY <1>2, <1>6 DEF OpenLibraries, Setup, AllocTaskData, OpenCache, ConfigureCache,
     StartIRQServer, ClearSignal, CreateWorker
<1>7. ASSUME NEW w \in Units, WorkerTask(w) PROVE BegunInOrder'
  BY <1>2, <1>7 DEF WorkerTask, InitMsgPort, SignalBootTask
<1>8. CASE UNCHANGED vars
  BY <1>2, <1>8 DEF vars
<1> QED
  BY <1>4, <1>5, <1>6, <1>7, <1>8 DEF Next, BootTask

(* Whichever step of virtio_blk_InitDev fails, cache.library, task data,   *)
(* interrupt servers and workers are those of the available units, and no  *)
(* unit but the one the failure hit is left half begun.                    *)
THEOREM FailuresContained == Spec => []FailureIsContained
<1>1. Init => BegunInOrder
  BY DEF Init, BegunInOrder, Begun
<1>2. BootInvariant /\ BegunInOrder => FailureIsContained
  <2> SUFFICES ASSUME BootInvariant, BegunInOrder, pc \in {"done", "failed"}
               PROVE  /\ lib_OpenCnt = NumAvailUnits
                      /\ taskData = Available /\ intServer = Available
                      /\ {u \in Units : worker[u] # "none"} = Available
                      /\ Begun \subseteq 0 .. NumAvailUnits
    BY DEF FailureIsContained
  <2>1. BootTypeOK /\ BootProgress /\ BootOwns /\ Handshake
    BY Parts
  <2>2. pc \notin FromCache /\ pc \notin FromSignal /\ pc \notin FromConfigure /\ pc # "wait"
    BY Steps
  <2>3. taskData = Available /\ intServer = Available /\ lib_OpenCnt = NumAvailUnits
    BY <2>1, <2>2 DEF BootOwns, BootTypeOK
  <2>4. {u \in Units : worker[u] # "none"} = Available
    BY <2>1, <2>2, UnitsAssumption DEF Handshake, BootProgress, Available, Units, BootTypeOK
  <2>5. Begun \subseteq 0 .. NumAvailUnits
    BY <2>1 DEF BegunInOrder, BootProgress
  <2> QED
    BY <2>3, <2>4, <2>5
<1> QED
  BY <1>1, <1>2, BegunKeeps, BootInvariance, PTL DEF Spec

=============================================================================
