--------------------------- MODULE BootTestProofs ---------------------------
(***************************************************************************)
(* Proofs about BootTest, for any number of test tasks and of turns: the   *)
(* unit that the tests use is a VirtioBlkUnit, so what is proved about it  *)
(* holds here, and the tests' memory is what their calls hold.             *)
(***************************************************************************)
EXTENDS BootTest, SequenceTheorems, FiniteSetTheorems, TLAPS

\* The unit with what is proved about it. UP is U.
UP == INSTANCE VirtioBlkUnitProofs WITH Requests <- Tasks, Commands <- {"CMD_READ"}, MaxChains <- 3

-----------------------------------------------------------------------------
(* The unit.                                                               *)

LEMMA UnitStep == [Next]_vars => [U!Next]_(U!vars)
<1> SUFFICES ASSUME [Next]_vars PROVE [U!Next]_(U!vars)
  OBVIOUS
<1>0. UNCHANGED unit => UNCHANGED U!vars
  BY DEF unit, U!vars, U!request, U!worker, U!device
<1>1. ASSUME NEW t \in Tasks, SendRead(t)
      PROVE  [U!Next]_(U!vars)
  <2>1. U!BeginIO(t, "DoIO", "CMD_READ") \/ UNCHANGED unit
    BY <1>1 DEF SendRead
  <2> QED
    BY <1>0, <2>1 DEF U!Next, U!Client
<1>2. ASSUME NEW t \in Tasks, DoIOReturns(t)
      PROVE  [U!Next]_(U!vars)
  <2>1. U!WaitIO(t) \/ UNCHANGED unit
    BY <1>2 DEF DoIOReturns
  <2> QED
    BY <1>0, <2>1 DEF U!Next, U!Client
<1>3. ASSUME NEW t \in Tasks,
             \/ CreateMsgPort(t) \/ CreateIORequest(t) \/ OpenDevice(t) \/ AllocBuffer(t)
             \/ SendTimer(t) \/ NextTurn(t) \/ CloseDevice(t) \/ End(t)
      PROVE  UNCHANGED unit
  BY <1>3 DEF CreateMsgPort, CreateIORequest, OpenDevice, AllocBuffer, SendTimer, NextTurn,
              CloseDevice, End
<1>4. CASE Unit(U!Worker) \/ Unit(U!DeviceCompletes) \/ Unit(U!IRQServer)
  BY <1>4 DEF Unit, U!Next
<1>5. CASE UNCHANGED vars
  BY <1>0, <1>5 DEF vars
<1> QED
  BY <1>0, <1>1, <1>2, <1>3, <1>4, <1>5 DEF Next, Task

LEMMA SameUnit ==
  (U!Init <=> UP!Init) /\ (U!Next <=> UP!Next) /\ (UNCHANGED U!vars <=> UNCHANGED UP!vars)
  BY DEF U!Transferring, UP!Transferring, U!Queueable, UP!Queueable, U!Immediate, UP!Immediate,
         U!IdxStep, UP!IdxStep, U!request, UP!request, U!device, UP!device, U!worker, UP!worker,
         U!vars, UP!vars, U!None, UP!None, U!Queued, UP!Queued, U!NT_REPLYMSG, UP!NT_REPLYMSG,
         U!ClientRuns, UP!ClientRuns, U!Init, UP!Init, U!Results, UP!Results, U!EndCommand,
         UP!EndCommand, U!QueueCommand, UP!QueueCommand, U!BeginIO, UP!BeginIO, U!AbortIO,
         UP!AbortIO, U!WaitIO, UP!WaitIO, U!Client, UP!Client, U!TakeHead, UP!TakeHead, U!Serves,
         UP!Serves, U!ProcessRequest, UP!ProcessRequest, U!StartTransfer, UP!StartTransfer,
         U!CallbackReturns, UP!CallbackReturns, U!CacheReturns, UP!CacheReturns, U!RemoveRequest,
         UP!RemoveRequest, U!FinishRequest, UP!FinishRequest, U!DropAborted, UP!DropAborted,
         U!ReplyMsg, UP!ReplyMsg, U!Worker, UP!Worker, U!DeviceCompletes, UP!DeviceCompletes,
         U!IRQServer, UP!IRQServer, U!Next, UP!Next, U!RemoveAt, UP!RemoveAt

LEMMA SameUnitInvariant == UP!UnitInvariant <=> U!UnitInvariant
  BY DEF U!UnitInvariant, UP!UnitInvariant,
         U!TypeOK, UP!TypeOK, U!Flags, UP!Flags, U!HeadIsCurrent, UP!HeadIsCurrent, U!HeadReady,
         UP!HeadReady, U!ReplyOwed, UP!ReplyOwed, U!NoLostWakeup, UP!NoLostWakeup,
         U!AbortedIsDone, UP!AbortedIsDone, U!WorkerTurn, UP!WorkerTurn, U!Serving, UP!Serving,
         U!Held, UP!Held, U!Queued, UP!Queued, U!NT_REPLYMSG, UP!NT_REPLYMSG, U!None, UP!None

LEMMA UnitAssumptions == UP!CommandsAssumption /\ UP!BoundsAssumption /\ UP!InterruptAssumption
  BY TasksAssumption
     DEF UP!CommandsAssumption, UP!BoundsAssumption, UP!InterruptAssumption, UP!IdxStep,
         UP!Queueable, UP!Transferring, UP!Immediate

\* The inductive invariant of VirtioBlkUnit holds of the unit the tests use.
LEMMA UnitInvariance == Spec => []U!UnitInvariant
<1>1. Init => UP!Init
  BY SameUnit DEF Init
<1>2. [Next]_vars => [UP!Next]_(UP!vars)
  BY UnitStep, SameUnit
<1>3. UP!Spec => []UP!UnitInvariant
  BY UnitAssumptions, UP!UnitInvariance
     DEF UP!CommandsAssumption, UP!BoundsAssumption, UP!InterruptAssumption
<1>4. UP!UnitInvariant => U!UnitInvariant
  BY SameUnitInvariant
<1> QED
  BY <1>1, <1>2, <1>3, <1>4, PTL DEF Spec, UP!Spec

\* The unit holds no request that its task does not wait for, and only a
\* call of the task itself makes it wait.
LEMMA HeldIsWaitedFor ==
  ASSUME U!UnitInvariant, NEW t \in Tasks, U!Held(t)
  PROVE  client[t] # "idle"
BY DEF U!UnitInvariant, U!ReplyOwed

LEMMA UnitKeepsWaiting ==
  ASSUME U!UnitInvariant, NEW t \in Tasks, U!Worker \/ U!DeviceCompletes \/ U!IRQServer
  PROVE  client'[t] # "idle" => client[t] # "idle"
<1>1. CASE U!ReplyMsg
  <2>1. curr_req \in Tasks /\ client \in [Tasks -> {"idle", "DoIO", "SendIO", "replied"}]
    BY <1>1 DEF U!UnitInvariant, U!TypeOK, U!ReplyMsg
  <2>2. client[curr_req] # "idle"
    BY <1>1, <2>1, HeldIsWaitedFor DEF U!Held, U!ReplyMsg
  <2> QED
    BY <1>1, <2>1, <2>2 DEF U!ReplyMsg
<1>2. CASE ~U!ReplyMsg
  <2>1. UNCHANGED client
    BY <1>2 DEF U!Worker, U!TakeHead, U!ProcessRequest, U!StartTransfer, U!CallbackReturns,
                U!CacheReturns, U!FinishRequest, U!DropAborted, U!DeviceCompletes, U!IRQServer
  <2> QED
    BY <2>1
<1> QED
  BY <1>1, <1>2

-----------------------------------------------------------------------------
(* The test functions, and a task's calls.                                 *)

LEMMA FunctionFacts ==
  ASSUME NEW g \in Functions
  PROVE  /\ g.device \in Devices /\ g.buffer \in BOOLEAN
         /\ g.rounds \in Seq(Nat) /\ Len(g.rounds) \in 1 .. 2
         /\ g.buffer => Len(g.rounds) = 1
         /\ g.calls = Nothing \/ (g.calls \in Functions /\ g.calls.calls = Nothing)
<1>1. test_mhz_delay \in Functions /\ test_virtio_blk \in Functions
  BY DEF Functions
<1>2. test_mhz_delay.calls = Nothing /\ test_virtio_blk.calls = Nothing
  BY DEF test_mhz_delay, test_virtio_blk
<1>3. /\ <<1>> \in Seq(Nat) /\ <<2, 1>> \in Seq(Nat) /\ <<Turns>> \in Seq(Nat)
      /\ Len(<<1>>) = 1 /\ Len(<<2, 1>>) = 2 /\ Len(<<Turns>>) = 1
  BY TurnsAssumption
<1> HIDE DEF Functions
<1>4. CASE g = test_mhz_delay
  BY <1>2, <1>3, <1>4 DEF test_mhz_delay, Devices
<1>5. CASE g = test_Timer
  BY <1>3, <1>5 DEF test_Timer, Devices
<1>6. CASE g = test_virtio_blk
  BY <1>3, <1>6 DEF test_virtio_blk, Devices
<1>7. CASE g = test_virtio_blk0
  BY <1>1, <1>2, <1>3, <1>7 DEF test_virtio_blk0, Devices
<1>8. CASE g = test_virtio_blk_performance
  BY <1>1, <1>2, <1>3, <1>8 DEF test_virtio_blk_performance, Devices
<1> QED
  BY <1>4, <1>5, <1>6, <1>7, <1>8 DEF Functions

\* A call as it starts.
LEMMA CallFacts ==
  ASSUME NEW g \in Functions
  PROVE  /\ WellFormed(Call(g)) /\ Call(g).fn = g /\ Call(g).at = "port"
         /\ ~IsOpen(Call(g)) /\ \A d : Holds(d, Call(g)) = {}
<1>1. /\ Call(g).fn = g /\ Call(g).at = "port" /\ Call(g).mp = FALSE /\ Call(g).io = FALSE
      /\ Call(g).buf = FALSE /\ Call(g).round = 1
  BY DEF Call
<1>2. Call(g) \in Calls
  BY DEF Call, Calls, Places
<1>3. 1 \in 1 .. Len(g.rounds)
  <2>1. Len(g.rounds) \in 1 .. 2
    BY FunctionFacts, Zenon
  <2>2. \A n \in 1 .. 2 : 1 \in 1 .. n
    OBVIOUS
  <2> QED
    BY <2>1, <2>2, Zenon
<1> QED
  BY <1>1, <1>2, <1>3 DEF WellFormed, IsOpen, Holds

\* The innermost call replaced by another.
LEMMA ReplaceHead ==
  ASSUME NEW s \in Seq(Calls), s # << >>, NEW f \in Calls
  PROVE  LET r == <<f>> \o Tail(s)
         IN  /\ r \in Seq(Calls) /\ Len(r) = Len(s) /\ r[1] = f
             /\ \A k \in 2 .. Len(s) : r[k] = s[k]
<1>1. Tail(s) \in Seq(Calls) /\ Len(Tail(s)) = Len(s) - 1 /\ Len(s) > 0
  BY EmptySeq
<1>2. \A k \in 1 .. Len(s) - 1 : Tail(s)[k] = s[k + 1]
  BY <1>1
<1>3. <<f>> \in Seq(Calls) /\ Len(<<f>>) = 1
  OBVIOUS
<1> QED
  BY <1>1, <1>2, <1>3

\* Another call on top.
Pushed(s, g, f) == <<g, f>> \o Tail(s)

LEMMA PushCall ==
  ASSUME NEW s \in Seq(Calls), s # << >>, NEW f \in Calls, NEW g \in Calls
  PROVE  /\ Pushed(s, g, f) \in Seq(Calls) /\ Len(Pushed(s, g, f)) = Len(s) + 1
         /\ Pushed(s, g, f)[1] = g /\ Pushed(s, g, f)[2] = f
<1>1. Tail(s) \in Seq(Calls) /\ Len(Tail(s)) = Len(s) - 1 /\ Len(s) > 0
  BY EmptySeq
<1>2. <<g, f>> \in Seq(Calls) /\ Len(<<g, f>>) = 2
  OBVIOUS
<1> QED
  BY <1>1, <1>2 DEF Pushed

LEMMA OneOrTwo ==
  ASSUME NEW n \in Nat \ {0}, n <= 2
  PROVE  n \in 1 .. 2
OBVIOUS

LEMMA FirstCall ==
  ASSUME NEW s \in Seq(Calls), s # << >>
  PROVE  Len(s) \in Nat \ {0} /\ Head(s) = s[1]
<1>1. Len(s) \in Nat \ {0}
  BY EmptySeq
<1> QED
  BY <1>1

-----------------------------------------------------------------------------
(* What the calls hold.                                                    *)

HeldBy(s) == UNION {Holds(d, s[Len(s) - d + 1]) : d \in 1 .. Len(s)}

LEMMA HeldByStack ==
  ASSUME NEW s \in Seq(Calls)
  PROVE  /\ Len(s) = 0 => HeldBy(s) = {}
         /\ Len(s) = 1 => HeldBy(s) = Holds(1, s[1])
         /\ Len(s) = 2 => HeldBy(s) = Holds(1, s[2]) \cup Holds(2, s[1])
<1>1. Len(s) = 0 => 1 .. Len(s) = {}
  OBVIOUS
<1>2. Len(s) = 1 => 1 .. Len(s) = {1} /\ Len(s) - 1 + 1 = 1
  OBVIOUS
<1>3. Len(s) = 2 => 1 .. Len(s) = {1, 2} /\ Len(s) - 1 + 1 = 2 /\ Len(s) - 2 + 1 = 1
  OBVIOUS
<1> QED
  BY <1>1, <1>2, <1>3 DEF HeldBy

\* What is held at different depths is different.
LEMMA DepthsApart ==
  ASSUME NEW d, NEW e, d # e, NEW f, NEW g
  PROVE  Holds(d, f) \cap Holds(e, g) = {}
BY DEF Holds

LEMMA LiveParts ==
  LiveIsHeld <=> /\ \A t \in Tasks : live[t] = HeldBy(stack[t])
                 /\ \A dev \in Devices : lib_OpenCnt[dev] = Cardinality(OpenCalls(dev))
BY DEF LiveIsHeld, HeldBy, CallAt, Depth

LEMMA LivePartsNext ==
  LiveIsHeld' <=> /\ \A t \in Tasks : live'[t] = HeldBy(stack'[t])
                  /\ \A dev \in Devices : lib_OpenCnt'[dev] = Cardinality(OpenCalls(dev)')
BY DEF LiveIsHeld, HeldBy, CallAt, Depth

LEMMA OpenCallsFinite ==
  ASSUME NEW S \in SUBSET (Tasks \X (1 .. 2))
  PROVE  IsFiniteSet(S) /\ Cardinality(S) \in Nat
<1>1. IsFiniteSet(1 .. 2) /\ IsFiniteSet(Tasks)
  <2>1. 1 \in Int /\ 2 \in Int
    OBVIOUS
  <2>2. IsFiniteSet(1 .. 2)
    BY <2>1, FS_Interval, Zenon
  <2> QED
    BY <2>2, TasksAssumption, Zenon
<1>2. IsFiniteSet(Tasks \X (1 .. 2))
  BY <1>1, FS_Product, Zenon
<1>3. IsFiniteSet(S)
  BY <1>2, FS_Subset, Zenon
<1> QED
  BY <1>3, FS_CardinalityType, Zenon

\* A step that replaces the innermost call of t by f, and accounts for it.
Accounts(t, f) ==
  LET g == Head(stack[t])
  IN  /\ WellFormed(f) /\ f.fn = g.fn
      /\ Becomes(t, f)
      /\ DOMAIN live' = Tasks
      /\ live'[t] = (live[t] \ Holds(Depth(t), g)) \cup Holds(Depth(t), f)
      /\ \A u \in Tasks \ {t} : live'[u] = live[u]
      /\ \/ (IsOpen(f) <=> IsOpen(g)) /\ UNCHANGED lib_OpenCnt
         \/ /\ IsOpen(f) /\ ~IsOpen(g)
            /\ lib_OpenCnt' = [lib_OpenCnt EXCEPT ![f.fn.device] = @ + 1]
         \/ /\ ~IsOpen(f) /\ IsOpen(g)
            /\ lib_OpenCnt' = [lib_OpenCnt EXCEPT ![f.fn.device] = @ - 1]

\* The stack after such a step.
LEMMA StackAfter ==
  ASSUME BootInvariant, NEW t \in Tasks, stack[t] # << >>, NEW f, Accounts(t, f)
  PROVE  /\ DOMAIN stack' = Tasks /\ \A u \in Tasks \ {t} : stack'[u] = stack[u]
         /\ Depth(t) \in 1 .. 2 /\ Depth(t)' = Depth(t)
         /\ Head(stack[t]) = stack[t][1] /\ Head(stack[t]) \in Calls /\ WellFormed(Head(stack[t]))
         /\ stack'[t] # << >> /\ Head(stack'[t]) = f /\ stack'[t][1] = f
         /\ Depth(t) = 2 => stack'[t][2] = stack[t][2]
         /\ StackOK(t)'
<1>1. /\ stack[t] \in Seq(Calls) /\ Len(stack[t]) <= 2
      /\ \A k \in 1 .. Len(stack[t]) : WellFormed(stack[t][k])
      /\ Len(stack[t]) = 2 => stack[t][1].fn.calls = Nothing /\ stack[t][2].at = "loop"
  BY DEF BootInvariant, StackOK, Depth
<1>2. Len(stack[t]) \in 1 .. 2 /\ Head(stack[t]) = stack[t][1]
  <2>1. Len(stack[t]) \in Nat \ {0} /\ Head(stack[t]) = stack[t][1]
    BY <1>1, FirstCall, Zenon
  <2>2. Len(stack[t]) <= 2
    BY <1>1
  <2>3. Len(stack[t]) \in 1 .. 2
    BY <2>1, <2>2, OneOrTwo, Zenon
  <2> QED
    BY <2>1, <2>3, Zenon
<1>3. WellFormed(Head(stack[t])) /\ Head(stack[t]) \in Calls
  <2>1. 1 \in 1 .. Len(stack[t])
    BY <1>2
  <2> QED
    BY <1>1, <1>2, <2>1, Zenon DEF WellFormed
<1>4. f \in Calls /\ WellFormed(f) /\ f.fn = stack[t][1].fn
  BY <1>2 DEF Accounts, WellFormed
<1>5. /\ DOMAIN stack' = Tasks /\ \A u \in Tasks \ {t} : stack'[u] = stack[u]
      /\ stack'[t] = <<f>> \o Tail(stack[t])
  BY DEF Accounts, Becomes, BootInvariant
<1>6. /\ stack'[t] \in Seq(Calls) /\ Len(stack'[t]) = Len(stack[t]) /\ stack'[t][1] = f
      /\ \A k \in 2 .. Len(stack[t]) : stack'[t][k] = stack[t][k]
  BY <1>1, <1>4, <1>5, ReplaceHead
<1>7. stack'[t] # << >> /\ Head(stack'[t]) = f
  BY <1>2, <1>6, EmptySeq
<1>8. \A k \in 1 .. Len(stack'[t]) : WellFormed(stack'[t][k])
  <2> SUFFICES ASSUME NEW k \in 1 .. Len(stack'[t]) PROVE WellFormed(stack'[t][k])
    OBVIOUS
  <2>1. CASE k = 1
    BY <1>4, <1>6, <2>1
  <2>2. CASE k # 1
    BY <1>1, <1>2, <1>6, <2>2
  <2> QED
    BY <2>1, <2>2
<1>9. StackOK(t)'
  <2>1. Len(stack'[t]) = 2 => stack'[t][1].fn.calls = Nothing /\ stack'[t][2].at = "loop"
    BY <1>1, <1>4, <1>6
  <2>2. Len(stack'[t]) <= 2
    BY <1>1, <1>6
  <2> QED
    BY <1>6, <1>8, <2>1, <2>2 DEF StackOK, Depth, WellFormed, Calls, Functions
<1> QED
  BY <1>2, <1>3, <1>5, <1>6, <1>7, <1>9 DEF Depth

LEMMA LiveAfter ==
  ASSUME BootInvariant, NEW t \in Tasks, stack[t] # << >>, NEW f, Accounts(t, f)
  PROVE  \A u \in Tasks : live'[u] = HeldBy(stack'[u])
<1> SUFFICES ASSUME NEW u \in Tasks PROVE live'[u] = HeldBy(stack'[u])
  OBVIOUS
<1>1. live[u] = HeldBy(stack[u])
  BY LiveParts DEF BootInvariant
<1>2. CASE u # t
  <2>1. stack'[u] = stack[u]
    BY <1>2, StackAfter
  <2>2. live'[u] = live[u]
    BY <1>2 DEF Accounts
  <2> QED
    BY <1>1, <2>1, <2>2, Zenon
<1>3. CASE u = t
  <2>1. /\ stack[t] \in Seq(Calls) /\ stack'[t] \in Seq(Calls)
        /\ Len(stack'[t]) = Len(stack[t])
    BY StackAfter DEF BootInvariant, StackOK, Depth
  <2>2. /\ stack[t][1] = Head(stack[t]) /\ stack'[t][1] = f
        /\ Len(stack[t]) = 2 => stack'[t][2] = stack[t][2]
    BY StackAfter DEF Depth
  <2>3. live'[t] = (live[t] \ Holds(Len(stack[t]), stack[t][1])) \cup Holds(Len(stack[t]), f)
    BY <2>2 DEF Accounts, Depth
  <2>4. CASE Len(stack[t]) = 1
    <3>1. HeldBy(stack[t]) = Holds(1, stack[t][1]) /\ HeldBy(stack'[t]) = Holds(1, f)
      BY <2>1, <2>2, <2>4, HeldByStack
    <3> QED
      BY <1>1, <1>3, <2>3, <2>4, <3>1
  <2>5. CASE Len(stack[t]) = 2
    <3>1. /\ HeldBy(stack[t]) = Holds(1, stack[t][2]) \cup Holds(2, stack[t][1])
          /\ HeldBy(stack'[t]) = Holds(1, stack[t][2]) \cup Holds(2, f)
      BY <2>1, <2>2, <2>5, HeldByStack
    <3>2. Holds(1, stack[t][2]) \cap Holds(2, stack[t][1]) = {}
      BY DepthsApart
    <3> QED
      BY <1>1, <1>3, <2>3, <2>5, <3>1, <3>2
  <2>6. Len(stack[t]) = 1 \/ Len(stack[t]) = 2
    BY StackAfter DEF Depth
  <2> QED
    BY <2>4, <2>5, <2>6
<1> QED
  BY <1>2, <1>3

LEMMA OpenAfter ==
  ASSUME BootInvariant, NEW t \in Tasks, stack[t] # << >>, NEW f, Accounts(t, f),
         NEW dev \in Devices
  PROVE  lib_OpenCnt'[dev] = Cardinality(OpenCalls(dev)')
<1> DEFINE x == <<t, Depth(t)>>
           g == Head(stack[t])
<1>1. /\ OpenCalls(dev) \in SUBSET (Tasks \X (1 .. 2)) /\ x \in Tasks \X (1 .. 2)
      /\ f.fn = g.fn /\ f.fn.device \in Devices
  <2>1. g \in Calls /\ Depth(t) \in 1 .. 2
    BY StackAfter
  <2> QED
    BY <2>1, FunctionFacts DEF Accounts, OpenCalls, Calls
<1>2. x \in OpenCalls(dev) <=> IsOpen(g) /\ g.fn.device = dev
  <2>1. CallAt(t, Depth(t)) = g
    BY StackAfter DEF CallAt
  <2> QED
    BY <1>1, <2>1, StackAfter DEF OpenCalls
<1>3. OpenCalls(dev)' = IF IsOpen(f) /\ f.fn.device = dev THEN OpenCalls(dev) \cup {x}
                                                         ELSE OpenCalls(dev) \ {x}
  <2>1. ASSUME NEW u \in Tasks, NEW d \in 1 .. 2
        PROVE  <<u, d>> \in OpenCalls(dev)' <=>
                 IF <<u, d>> = x THEN IsOpen(f) /\ f.fn.device = dev
                                 ELSE <<u, d>> \in OpenCalls(dev)
    <3>0. /\ <<u, d>> \in OpenCalls(dev) <=>
               d <= Depth(u) /\ IsOpen(CallAt(u, d)) /\ CallAt(u, d).fn.device = dev
          /\ <<u, d>> \in OpenCalls(dev)' <=>
               d <= Depth(u)' /\ IsOpen(CallAt(u, d)') /\ (CallAt(u, d)').fn.device = dev
      BY DEF OpenCalls
    <3>1. CASE u # t
      BY <3>0, <3>1, StackAfter DEF CallAt, Depth
    <3>2. CASE u = t /\ d = Depth(t)
      <4>1. CallAt(u, d)' = f /\ d <= Depth(u)'
        BY <3>2, StackAfter DEF CallAt
      <4> QED
        BY <3>0, <3>2, <4>1
    <3>3. CASE u = t /\ d # Depth(t)
      <4>1. d <= Depth(u) => Depth(u) = 2 /\ d = 1
        BY <3>3, StackAfter
      <4>2. d <= Depth(u) => CallAt(u, d)' = CallAt(u, d)
        BY <3>3, <4>1, StackAfter DEF CallAt
      <4> QED
        BY <3>0, <3>3, <4>2, StackAfter
    <3> QED
      BY <3>1, <3>2, <3>3
  <2>2. OpenCalls(dev)' \subseteq Tasks \X (1 .. 2)
    BY DEF OpenCalls
  <2>3. ASSUME NEW y \in Tasks \X (1 .. 2)
        PROVE  y \in OpenCalls(dev)' <=>
                 IF y = x THEN IsOpen(f) /\ f.fn.device = dev ELSE y \in OpenCalls(dev)
    <3>1. PICK u \in Tasks, d \in 1 .. 2 : y = <<u, d>>
      OBVIOUS
    <3> HIDE DEF x
    <3> QED
      BY <2>1, <3>1
  <2> HIDE DEF x
  <2> QED
    BY <1>1, <2>2, <2>3
<1>4. IsFiniteSet(OpenCalls(dev)) /\ Cardinality(OpenCalls(dev)) \in Nat
  BY <1>1, OpenCallsFinite
<1>5. lib_OpenCnt[dev] = Cardinality(OpenCalls(dev)) /\ DOMAIN lib_OpenCnt = Devices
  BY LiveParts DEF BootInvariant
<1> HIDE DEF x, g
<1>6. Cardinality(OpenCalls(dev)') =
        IF IsOpen(f) /\ f.fn.device = dev
        THEN IF x \in OpenCalls(dev) THEN lib_OpenCnt[dev] ELSE lib_OpenCnt[dev] + 1
        ELSE IF x \in OpenCalls(dev) THEN lib_OpenCnt[dev] - 1 ELSE lib_OpenCnt[dev]
  <2>1. Cardinality(OpenCalls(dev) \cup {x}) =
          IF x \in OpenCalls(dev) THEN lib_OpenCnt[dev] ELSE lib_OpenCnt[dev] + 1
    BY <1>4, <1>5, FS_AddElement
  <2>2. Cardinality(OpenCalls(dev) \ {x}) =
          IF x \in OpenCalls(dev) THEN lib_OpenCnt[dev] - 1 ELSE lib_OpenCnt[dev]
    BY <1>4, <1>5, FS_RemoveElement
  <2> QED
    BY <1>3, <2>1, <2>2
<1>7. /\ (IsOpen(f) <=> IsOpen(g)) => UNCHANGED lib_OpenCnt
      /\ IsOpen(f) /\ ~IsOpen(g) => lib_OpenCnt' = [lib_OpenCnt EXCEPT ![f.fn.device] = @ + 1]
      /\ ~IsOpen(f) /\ IsOpen(g) => lib_OpenCnt' = [lib_OpenCnt EXCEPT ![f.fn.device] = @ - 1]
  BY DEF Accounts, g
<1> QED
  BY <1>1, <1>2, <1>5, <1>6, <1>7

LEMMA AccountsSuffices ==
  ASSUME BootInvariant, NEW t \in Tasks, stack[t] # << >>, NEW f, Accounts(t, f),
         fault' \in BOOLEAN, \A u \in Tasks \ {t} : client'[u] = client[u],
         client'[t] # "idle" => f.at = "DoIO" /\ f.fn.device = "virtio_blk.device"
  PROVE  BootInvariant'
<1>1. DOMAIN stack' = Tasks /\ DOMAIN live' = Tasks /\ DOMAIN lib_OpenCnt' = Devices
  BY StackAfter DEF Accounts, BootInvariant
<1>2. ASSUME NEW u \in Tasks PROVE StackOK(u)' /\ WaitsInDoIO(u)'
  <2>1. CASE u = t
    BY <2>1, StackAfter DEF WaitsInDoIO
  <2>2. CASE u # t
    <3>1. stack'[u] = stack[u] /\ client'[u] = client[u] /\ StackOK(u) /\ WaitsInDoIO(u)
      BY <2>2, StackAfter DEF BootInvariant
    <3> QED
      BY <3>1 DEF StackOK, WaitsInDoIO, Depth
  <2> QED
    BY <2>1, <2>2
<1>3. LiveIsHeld'
  BY LiveAfter, OpenAfter, LivePartsNext
<1> QED
  BY <1>1, <1>2, <1>3 DEF BootInvariant

-----------------------------------------------------------------------------
(* The steps of a task.                                                    *)

\* What the innermost call of t holds is what of its depth is live.
LEMMA LiveHere ==
  ASSUME BootInvariant, NEW t \in Tasks, stack[t] # << >>
  PROVE  /\ Head(stack[t]) \in Calls /\ WellFormed(Head(stack[t])) /\ Depth(t) \in 1 .. 2
         /\ Head(stack[t]) = stack[t][1]
         /\ \A n : <<Depth(t), n>> \in live[t] <=>
                     <<Depth(t), n>> \in Holds(Depth(t), Head(stack[t]))
<1>1. /\ stack[t] \in Seq(Calls) /\ Len(stack[t]) <= 2
      /\ \A k \in 1 .. Len(stack[t]) : WellFormed(stack[t][k])
      /\ live[t] = HeldBy(stack[t])
  BY LiveParts DEF BootInvariant, StackOK, Depth
<1>2. Len(stack[t]) \in Nat \ {0} /\ Head(stack[t]) = stack[t][1]
  BY <1>1, FirstCall, Zenon
<1>3. Len(stack[t]) <= 2
  BY <1>1
<1>4. Len(stack[t]) \in 1 .. 2
  BY <1>2, <1>3, OneOrTwo, Zenon
<1>5. WellFormed(stack[t][1])
  <2>1. 1 \in 1 .. Len(stack[t])
    BY <1>4
  <2> QED
    BY <1>1, <2>1
<1>6. CASE Len(stack[t]) = 1
  <2>1. live[t] = Holds(1, stack[t][1])
    BY <1>1, <1>6, HeldByStack
  <2> QED
    BY <1>2, <1>4, <1>5, <1>6, <2>1, Zenon DEF Depth, WellFormed
<1>7. CASE Len(stack[t]) = 2
  <2>1. live[t] = Holds(1, stack[t][2]) \cup Holds(2, stack[t][1])
    BY <1>1, <1>7, HeldByStack
  <2>2. \A n : <<2, n>> \notin Holds(1, stack[t][2])
    BY DEF Holds
  <2> QED
    BY <1>2, <1>4, <1>5, <1>7, <2>1, <2>2, Zenon DEF Depth, WellFormed
<1> QED
  BY <1>4, <1>6, <1>7

\* Outside DoIO a task waits for nothing.
LEMMA NotWaiting ==
  ASSUME BootInvariant, NEW t \in Tasks, Head(stack[t]).at # "DoIO"
  PROVE  client[t] = "idle"
BY DEF BootInvariant, WaitsInDoIO

LEMMA UnmovedKeeps ==
  ASSUME BootInvariant, UNCHANGED <<stack, live, lib_OpenCnt>>, fault' \in BOOLEAN,
         \A t \in Tasks : client'[t] # "idle" => client[t] # "idle"
  PROVE  BootInvariant'
<1>1. ASSUME NEW t \in Tasks PROVE StackOK(t)' /\ WaitsInDoIO(t)'
  <2>1. StackOK(t) /\ WaitsInDoIO(t) /\ stack'[t] = stack[t]
    BY DEF BootInvariant
  <2> QED
    BY <2>1 DEF StackOK, WaitsInDoIO, Depth
<1>2. LiveIsHeld'
  <2>1. LiveIsHeld
    BY DEF BootInvariant
  <2> QED
    BY <2>1 DEF LiveIsHeld, OpenCalls, CallAt, Depth
<1> QED
  BY <1>1, <1>2 DEF BootInvariant

LEMMA CreateMsgPortKeeps ==
  ASSUME BootInvariant, NEW t \in Tasks, CreateMsgPort(t)
  PROVE  BootInvariant'
<1> DEFINE g == Head(stack[t])
           d == Depth(t)
<1>1. stack[t] # << >> /\ g.at = "port"
  BY DEF CreateMsgPort, At
<1>2. /\ g \in Calls /\ WellFormed(g) /\ d \in 1 .. 2 /\ client[t] = "idle"
      /\ DOMAIN live = Tasks
  BY <1>1, LiveHere, NotWaiting DEF BootInvariant
<1>3. UNCHANGED <<lib_OpenCnt, fault, client>>
  BY DEF CreateMsgPort, unit
<1>4. ASSUME NEW m \in BOOLEAN, NEW a \in {"request", "end"}, m <=> a = "request",
             Becomes(t, [g EXCEPT !.mp = m, !.at = a]),
             IF m THEN Allocates(t, "mp") ELSE UNCHANGED live
      PROVE  BootInvariant'
  <2> DEFINE f == [g EXCEPT !.mp = m, !.at = a]
  <2>1. /\ f \in Calls /\ f.fn = g.fn /\ f.at = a /\ f.mp = m /\ f.io = g.io
        /\ f.buf = g.buf /\ f.round = g.round
    BY <1>2 DEF Calls, Places
  <2>2. Becomes(t, f)
    BY <1>4
  <2> HIDE DEF f, g, d
  <2>3. WellFormed(f) /\ ~IsOpen(f) /\ ~IsOpen(g)
    BY <1>1, <1>2, <1>4, <2>1 DEF WellFormed, IsOpen
  <2>4. Holds(d, g) = {} /\ Holds(d, f) = IF m THEN {<<d, "mp">>} ELSE {}
    BY <1>1, <1>2, <1>4, <2>1, <2>3 DEF WellFormed, Holds
  <2>5. /\ live'[t] = (live[t] \ Holds(d, g)) \cup Holds(d, f) /\ DOMAIN live' = Tasks
        /\ \A u \in Tasks \ {t} : live'[u] = live[u]
    BY <1>2, <1>4, <2>4 DEF Allocates, d
  <2>6. Accounts(t, f)
    BY <1>3, <2>1, <2>2, <2>3, <2>5 DEF Accounts, d, g
  <2> QED
    BY <1>1, <1>2, <1>3, <2>6, AccountsSuffices DEF BootInvariant
<1>5. \/ Becomes(t, [g EXCEPT !.mp = TRUE, !.at = "request"]) /\ Allocates(t, "mp")
      \/ Becomes(t, [g EXCEPT !.at = "end"]) /\ UNCHANGED live
  BY DEF CreateMsgPort
<1>6. [g EXCEPT !.at = "end"] = [g EXCEPT !.mp = FALSE, !.at = "end"]
  BY <1>1, <1>2 DEF WellFormed, Calls
<1> QED
  BY <1>4, <1>5, <1>6

LEMMA CreateIORequestKeeps ==
  ASSUME BootInvariant, NEW t \in Tasks, CreateIORequest(t)
  PROVE  BootInvariant'
<1> DEFINE g == Head(stack[t])
           d == Depth(t)
<1>1. stack[t] # << >> /\ g.at = "request"
  BY DEF CreateIORequest, At
<1>2. /\ g \in Calls /\ WellFormed(g) /\ d \in 1 .. 2 /\ client[t] = "idle"
      /\ DOMAIN live = Tasks /\ \A n : <<d, n>> \in live[t] <=> <<d, n>> \in Holds(d, g)
  BY <1>1, LiveHere, NotWaiting DEF BootInvariant
<1>3. UNCHANGED <<lib_OpenCnt, fault, client>>
  BY DEF CreateIORequest, unit
<1>4. ASSUME NEW m \in BOOLEAN, NEW a \in {"open", "end"}, m <=> a = "open",
             Becomes(t, [g EXCEPT !.io = m, !.at = a]),
             IF m THEN Allocates(t, "io") ELSE UNCHANGED live
      PROVE  BootInvariant'
  <2> DEFINE f == [g EXCEPT !.io = m, !.at = a]
  <2>1. /\ f \in Calls /\ f.fn = g.fn /\ f.at = a /\ f.io = m /\ f.mp = g.mp
        /\ f.buf = g.buf /\ f.round = g.round
    BY <1>2 DEF Calls, Places
  <2>2. Becomes(t, f)
    BY <1>4
  <2> HIDE DEF f, g, d
  <2>3. WellFormed(f) /\ ~IsOpen(f) /\ ~IsOpen(g)
    BY <1>1, <1>2, <1>4, <2>1 DEF WellFormed, IsOpen
  <2>4. /\ Holds(d, g) = {<<d, "mp">>}
        /\ Holds(d, f) = IF m THEN {<<d, "mp">>, <<d, "io">>} ELSE {<<d, "mp">>}
    BY <1>1, <1>2, <1>4, <2>1, <2>3 DEF WellFormed, Holds
  <2>5. /\ live'[t] = (live[t] \ Holds(d, g)) \cup Holds(d, f) /\ DOMAIN live' = Tasks
        /\ \A u \in Tasks \ {t} : live'[u] = live[u]
    BY <1>2, <1>4, <2>4 DEF Allocates, d
  <2>6. Accounts(t, f)
    BY <1>3, <2>1, <2>2, <2>3, <2>5 DEF Accounts, d, g
  <2> QED
    BY <1>1, <1>2, <1>3, <2>6, AccountsSuffices DEF BootInvariant
<1>5. \/ Becomes(t, [g EXCEPT !.io = TRUE, !.at = "open"]) /\ Allocates(t, "io")
      \/ Becomes(t, [g EXCEPT !.at = "end"]) /\ UNCHANGED live
  BY DEF CreateIORequest
<1>6. [g EXCEPT !.at = "end"] = [g EXCEPT !.io = FALSE, !.at = "end"]
  BY <1>1, <1>2 DEF WellFormed, Calls
<1> QED
  BY <1>4, <1>5, <1>6

LEMMA OpenDeviceKeeps ==
  ASSUME BootInvariant, NEW t \in Tasks, OpenDevice(t)
  PROVE  BootInvariant'
<1> DEFINE g == Head(stack[t])
           d == Depth(t)
<1>1. stack[t] # << >> /\ g.at = "open"
  BY DEF OpenDevice, At
<1>2. /\ g \in Calls /\ WellFormed(g) /\ d \in 1 .. 2 /\ client[t] = "idle"
      /\ DOMAIN live = Tasks /\ \A n : <<d, n>> \in live[t] <=> <<d, n>> \in Holds(d, g)
  BY <1>1, LiveHere, NotWaiting DEF BootInvariant
<1>3. UNCHANGED <<live, fault, client>>
  BY DEF OpenDevice, unit
<1>4. ASSUME NEW a \in {"buffer", "loop", "end"}, Becomes(t, [g EXCEPT !.at = a]),
             a = "buffer" => g.fn.buffer,
             IF a = "end" THEN UNCHANGED lib_OpenCnt
             ELSE lib_OpenCnt' = [lib_OpenCnt EXCEPT ![g.fn.device] = @ + 1]
      PROVE  BootInvariant'
  <2> DEFINE f == [g EXCEPT !.at = a]
  <2>1. /\ f \in Calls /\ f.fn = g.fn /\ f.at = a /\ f.io = g.io /\ f.mp = g.mp
        /\ f.buf = g.buf /\ f.round = g.round
    BY <1>2 DEF Calls, Places
  <2>2. Becomes(t, f)
    BY <1>4
  <2> HIDE DEF f, g, d
  <2>3. WellFormed(f) /\ ~IsOpen(g) /\ (IsOpen(f) <=> a # "end")
    BY <1>1, <1>2, <1>4, <2>1 DEF WellFormed, IsOpen
  <2>4. Holds(d, g) = {<<d, "mp">>, <<d, "io">>} /\ Holds(d, f) = Holds(d, g)
    BY <1>1, <1>2, <1>4, <2>1, <2>3 DEF WellFormed, Holds
  <2>5. /\ live'[t] = (live[t] \ Holds(d, g)) \cup Holds(d, f) /\ DOMAIN live' = Tasks
        /\ \A u \in Tasks \ {t} : live'[u] = live[u]
    BY <1>2, <1>3, <2>4
  <2>6. Accounts(t, f)
    BY <1>4, <2>1, <2>2, <2>3, <2>5 DEF Accounts, d, g
  <2> QED
    BY <1>1, <1>2, <1>3, <2>6, AccountsSuffices DEF BootInvariant
<1> QED
  BY <1>4 DEF OpenDevice

LEMMA AllocBufferKeeps ==
  ASSUME BootInvariant, NEW t \in Tasks, AllocBuffer(t)
  PROVE  BootInvariant'
<1> DEFINE g == Head(stack[t])
           d == Depth(t)
<1>1. stack[t] # << >> /\ g.at = "buffer"
  BY DEF AllocBuffer, At
<1>2. /\ g \in Calls /\ WellFormed(g) /\ d \in 1 .. 2 /\ client[t] = "idle"
      /\ DOMAIN live = Tasks /\ \A n : <<d, n>> \in live[t] <=> <<d, n>> \in Holds(d, g)
  BY <1>1, LiveHere, NotWaiting DEF BootInvariant
<1>3. UNCHANGED <<lib_OpenCnt, fault, client>>
  BY DEF AllocBuffer, unit
<1>4. ASSUME NEW m \in BOOLEAN, Becomes(t, [g EXCEPT !.buf = m, !.at = "loop"]),
             IF m THEN Allocates(t, "buf") ELSE UNCHANGED live
      PROVE  BootInvariant'
  <2> DEFINE f == [g EXCEPT !.buf = m, !.at = "loop"]
  <2>1. /\ f \in Calls /\ f.fn = g.fn /\ f.at = "loop" /\ f.io = g.io /\ f.mp = g.mp
        /\ f.buf = m /\ f.round = g.round
    BY <1>2 DEF Calls, Places
  <2>2. Becomes(t, f)
    BY <1>4
  <2> HIDE DEF f, g, d
  <2>3. WellFormed(f) /\ IsOpen(g) /\ IsOpen(f)
    BY <1>1, <1>2, <1>4, <2>1 DEF WellFormed, IsOpen
  <2>4. /\ Holds(d, g) = {<<d, "mp">>, <<d, "io">>}
        /\ Holds(d, f) = IF m THEN {<<d, "mp">>, <<d, "io">>, <<d, "buf">>}
                              ELSE {<<d, "mp">>, <<d, "io">>}
    BY <1>1, <1>2, <1>4, <2>1, <2>3 DEF WellFormed, Holds
  <2>5. /\ live'[t] = (live[t] \ Holds(d, g)) \cup Holds(d, f) /\ DOMAIN live' = Tasks
        /\ \A u \in Tasks \ {t} : live'[u] = live[u]
    BY <1>2, <1>4, <2>4 DEF Allocates, d
  <2>6. Accounts(t, f)
    BY <1>3, <2>1, <2>2, <2>3, <2>5 DEF Accounts, d, g
  <2> QED
    BY <1>1, <1>2, <1>3, <2>6, AccountsSuffices DEF BootInvariant
<1>5. \/ Becomes(t, [g EXCEPT !.buf = TRUE, !.at = "loop"]) /\ Allocates(t, "buf")
      \/ Becomes(t, [g EXCEPT !.at = "loop"]) /\ UNCHANGED live
  BY DEF AllocBuffer
<1>6. [g EXCEPT !.at = "loop"] = [g EXCEPT !.buf = FALSE, !.at = "loop"]
  BY <1>1, <1>2 DEF WellFormed, Calls
<1> QED
  BY <1>4, <1>5, <1>6

\* A step that only moves the innermost call, which has the device open, to
\* another place where it does.
LEMMA MoveKeeps ==
  ASSUME BootInvariant, NEW t \in Tasks, stack[t] # << >>,
         Head(stack[t]).at \in {"loop", "DoIO", "after DoIO"},
         NEW a \in {"loop", "DoIO", "after DoIO"}, NEW n \in Nat,
         Becomes(t, [Head(stack[t]) EXCEPT !.i = n, !.at = a]),
         UNCHANGED <<live, lib_OpenCnt>>, fault' \in BOOLEAN,
         \A u \in Tasks \ {t} : client'[u] = client[u],
         client'[t] # "idle" => a = "DoIO" /\ Head(stack[t]).fn.device = "virtio_blk.device"
  PROVE  BootInvariant'
<1> DEFINE g == Head(stack[t])
           d == Depth(t)
           f == [g EXCEPT !.i = n, !.at = a]
<1>1. /\ g \in Calls /\ WellFormed(g) /\ DOMAIN live = Tasks
      /\ \A m : <<d, m>> \in live[t] <=> <<d, m>> \in Holds(d, g)
  BY LiveHere DEF BootInvariant
<1>2. /\ f \in Calls /\ f.fn = g.fn /\ f.at = a /\ f.io = g.io /\ f.mp = g.mp
      /\ f.buf = g.buf /\ f.round = g.round
  BY <1>1 DEF Calls, Places
<1>3. Becomes(t, f) /\ g.at \in {"loop", "DoIO", "after DoIO"} /\ stack[t] # << >>
      /\ (client'[t] # "idle" => f.at = "DoIO" /\ f.fn.device = "virtio_blk.device")
  BY <1>2
<1> HIDE DEF f, g, d
<1>4. WellFormed(f) /\ IsOpen(f) /\ IsOpen(g)
  BY <1>1, <1>2, <1>3 DEF WellFormed, IsOpen
<1>5. Holds(d, f) = Holds(d, g)
  BY <1>2, <1>3, <1>4 DEF Holds
<1>6. Holds(d, g) \subseteq live[t]
  BY <1>1 DEF Holds
<1>7. live'[t] = (live[t] \ Holds(d, g)) \cup Holds(d, f)
  BY <1>5, <1>6
<1>8. Accounts(t, f)
  BY <1>1, <1>2, <1>3, <1>4, <1>7 DEF Accounts, d, g
<1> QED
  BY <1>3, <1>8, AccountsSuffices

LEMMA SameTurn ==
  ASSUME NEW g \in Calls, NEW a
  PROVE  g.i \in Nat /\ [g EXCEPT !.at = a] = [g EXCEPT !.i = g.i, !.at = a]
BY DEF Calls

LEMMA SendKeeps ==
  ASSUME BootInvariant, U!UnitInvariant, NEW t \in Tasks, SendRead(t) \/ SendTimer(t)
  PROVE  BootInvariant'
<1> DEFINE g == Head(stack[t])
<1>1. stack[t] # << >> /\ g.at = "loop"
  BY DEF SendRead, SendTimer, InLoop, At
<1>2. g \in Calls /\ client[t] = "idle" /\ fault \in BOOLEAN
  BY <1>1, LiveHere, NotWaiting DEF BootInvariant
<1>3. CASE /\ U!BeginIO(t, "DoIO", "CMD_READ") /\ Becomes(t, [g EXCEPT !.at = "DoIO"])
           /\ UNCHANGED <<live, lib_OpenCnt, fault>> /\ g.fn.device = "virtio_blk.device"
  <2>1. \A u \in Tasks \ {t} : client'[u] = client[u]
    BY <1>3 DEF U!UnitInvariant, U!TypeOK, U!BeginIO, U!EndCommand, U!QueueCommand
  <2>2. g.i \in Nat /\ Becomes(t, [g EXCEPT !.i = g.i, !.at = "DoIO"])
    BY <1>2, <1>3, SameTurn
  <2> QED
    BY <1>1, <1>2, <1>3, <2>1, <2>2, MoveKeeps
<1>4. CASE fault' = TRUE /\ UNCHANGED <<stack, live, lib_OpenCnt, unit>>
  <2>1. UNCHANGED <<stack, live, lib_OpenCnt, client>> /\ fault' \in BOOLEAN
    BY <1>4 DEF unit
  <2> QED
    BY <2>1, UnmovedKeeps
<1>5. CASE SendTimer(t)
  <2>1. g.i \in Nat /\ Becomes(t, [g EXCEPT !.i = g.i, !.at = "DoIO"])
    BY <1>2, <1>5, SameTurn DEF SendTimer
  <2>2. UNCHANGED <<client, live, lib_OpenCnt, fault>>
    BY <1>5 DEF SendTimer, unit
  <2> QED
    BY <1>1, <1>2, <2>1, <2>2, MoveKeeps
<1> QED
  BY <1>3, <1>4, <1>5 DEF SendRead

LEMMA DoIOReturnsKeeps ==
  ASSUME BootInvariant, U!UnitInvariant, NEW t \in Tasks, DoIOReturns(t)
  PROVE  BootInvariant'
<1> DEFINE g == Head(stack[t])
<1>1. stack[t] # << >> /\ g.at = "DoIO"
  BY DEF DoIOReturns, At
<1>2. g \in Calls /\ fault \in BOOLEAN
  BY <1>1, LiveHere DEF BootInvariant
<1>3. client'[t] = "idle" /\ \A u \in Tasks \ {t} : client'[u] = client[u]
  <2>1. CASE g.fn.device = "timer.device" /\ UNCHANGED unit
    BY <2>1 DEF unit, BootInvariant, WaitsInDoIO
  <2>2. CASE client[t] = "idle" /\ UNCHANGED unit
    BY <2>2 DEF unit
  <2>3. CASE U!WaitIO(t)
    BY <2>3 DEF U!WaitIO, U!UnitInvariant, U!TypeOK
  <2> QED
    BY <2>1, <2>2, <2>3 DEF DoIOReturns
<1>4. g.i \in Nat /\ Becomes(t, [g EXCEPT !.i = g.i, !.at = "after DoIO"])
  BY <1>2, SameTurn DEF DoIOReturns
<1>5. UNCHANGED <<live, lib_OpenCnt, fault>>
  BY DEF DoIOReturns
<1> QED
  BY <1>1, <1>2, <1>3, <1>4, <1>5, MoveKeeps

Closed(g, a) == [g EXCEPT !.mp = FALSE, !.io = FALSE, !.round = 2, !.i = 0, !.at = a]

LEMMA ClosedCall ==
  ASSUME NEW g \in Calls, NEW a \in {"port", "end"}
  PROVE  /\ Closed(g, a) \in Calls /\ Closed(g, a).fn = g.fn /\ Closed(g, a).at = a
         /\ Closed(g, a).io = FALSE /\ Closed(g, a).mp = FALSE
         /\ Closed(g, a).buf = g.buf /\ Closed(g, a).round = 2
<1>1. 2 \in 1 .. 3 /\ 0 \in Nat
  OBVIOUS
<1>2. a \in Places
  BY DEF Places
<1> QED
  BY <1>1, <1>2 DEF Calls, Closed

LEMMA CloseDeviceKeeps ==
  ASSUME BootInvariant, NEW t \in Tasks, CloseDevice(t)
  PROVE  BootInvariant'
<1> DEFINE g == Head(stack[t])
           d == Depth(t)
<1>1. stack[t] # << >> /\ g.at = "loop"
  BY DEF CloseDevice, At
<1>2. /\ g \in Calls /\ WellFormed(g) /\ d \in 1 .. 2 /\ client[t] = "idle"
      /\ DOMAIN live = Tasks /\ \A n : <<d, n>> \in live[t] <=> <<d, n>> \in Holds(d, g)
  BY <1>1, LiveHere, NotWaiting DEF BootInvariant
<1>3. UNCHANGED <<fault, client>> /\ lib_OpenCnt' = [lib_OpenCnt EXCEPT ![g.fn.device] = @ - 1]
  BY DEF CloseDevice, unit
<1>4. /\ g.fn.buffer => Len(g.fn.rounds) = 1
      /\ Len(g.fn.rounds) \in 1 .. 2
  BY <1>2, FunctionFacts DEF Calls
<1>5. ASSUME g.round = 1, NEW a \in {"port", "end"}, a = "end" <=> g.round = Len(g.fn.rounds),
             Becomes(t, Closed(g, a)),
             Frees(t, {"buf", "io", "mp"})
      PROVE  BootInvariant'
  <2> DEFINE f == Closed(g, a)
  <2>1. /\ f \in Calls /\ f.fn = g.fn /\ f.at = a /\ f.io = FALSE /\ f.mp = FALSE
        /\ f.buf = g.buf /\ f.round = 2
    BY <1>2, ClosedCall
  <2>2. Becomes(t, f)
    BY <1>5
  <2> HIDE DEF f, g, d
  <2>3. WellFormed(f) /\ ~IsOpen(f) /\ IsOpen(g)
    <3>1. a = "port" => ~g.buf /\ 2 \in 1 .. Len(g.fn.rounds)
      BY <1>1, <1>2, <1>4, <1>5 DEF WellFormed
    <3> QED
      BY <1>1, <1>2, <1>5, <2>1, <3>1 DEF WellFormed, IsOpen
  <2>4. /\ Holds(d, g) = IF g.buf THEN {<<d, "mp">>, <<d, "io">>, <<d, "buf">>}
                                  ELSE {<<d, "mp">>, <<d, "io">>}
        /\ Holds(d, f) = {}
    BY <1>1, <1>2, <2>1, <2>3 DEF WellFormed, Holds
  <2>5. /\ live'[t] = (live[t] \ Holds(d, g)) \cup Holds(d, f) /\ DOMAIN live' = Tasks
        /\ \A u \in Tasks \ {t} : live'[u] = live[u]
    BY <1>2, <1>5, <2>4 DEF Frees, d
  <2>6. Accounts(t, f)
    BY <1>3, <2>1, <2>2, <2>3, <2>5 DEF Accounts, d, g
  <2> QED
    BY <1>1, <1>2, <1>3, <2>6, AccountsSuffices DEF BootInvariant
<1>6. ASSUME Becomes(t, [g EXCEPT !.at = "end"]), Frees(t, {"buf"})
      PROVE  BootInvariant'
  <2> DEFINE f == [g EXCEPT !.at = "end"]
  <2>1. /\ f \in Calls /\ f.fn = g.fn /\ f.at = "end" /\ f.io = g.io /\ f.mp = g.mp
        /\ f.buf = g.buf /\ f.round = g.round
    BY <1>2 DEF Calls, Places
  <2>2. Becomes(t, f)
    BY <1>6
  <2> HIDE DEF f, g, d
  <2>3. WellFormed(f) /\ ~IsOpen(f) /\ IsOpen(g)
    BY <1>1, <1>2, <2>1 DEF WellFormed, IsOpen
  <2>4. /\ Holds(d, g) = IF g.buf THEN {<<d, "mp">>, <<d, "io">>, <<d, "buf">>}
                                  ELSE {<<d, "mp">>, <<d, "io">>}
        /\ Holds(d, f) = {<<d, "mp">>, <<d, "io">>}
    BY <1>1, <1>2, <2>1, <2>3 DEF WellFormed, Holds
  <2>5. /\ live'[t] = (live[t] \ Holds(d, g)) \cup Holds(d, f) /\ DOMAIN live' = Tasks
        /\ \A u \in Tasks \ {t} : live'[u] = live[u]
    BY <1>2, <1>6, <2>4 DEF Frees, d
  <2>6. Accounts(t, f)
    BY <1>3, <2>1, <2>2, <2>3, <2>5 DEF Accounts, d, g
  <2> QED
    BY <1>1, <1>2, <1>3, <2>6, AccountsSuffices DEF BootInvariant
<1>7. ASSUME NEW a, g.round = 1
      PROVE  [g EXCEPT !.mp = FALSE, !.io = FALSE, !.round = @ + 1, !.i = 0, !.at = a]
               = Closed(g, a)
  <2>1. g.round + 1 = 2
    BY <1>7
  <2> HIDE DEF g
  <2> QED
    BY <2>1 DEF Closed
<1>8. CASE g.round = 1
  BY <1>5, <1>7, <1>8 DEF CloseDevice
<1>9. CASE g.round # 1
  BY <1>6, <1>9 DEF CloseDevice
<1> QED
  BY <1>8, <1>9

\* What is live, and what is open, when a call starts another or returns.
LEMMA SameOpenCalls ==
  ASSUME NEW dev \in Devices,
         \A u \in Tasks, e \in 1 .. 2 : <<u, e>> \in OpenCalls(dev)' <=> <<u, e>> \in OpenCalls(dev)
  PROVE  OpenCalls(dev)' = OpenCalls(dev)
<1>1. OpenCalls(dev) \subseteq Tasks \X (1 .. 2) /\ OpenCalls(dev)' \subseteq Tasks \X (1 .. 2)
  BY DEF OpenCalls
<1>2. \A y \in Tasks \X (1 .. 2) : y \in OpenCalls(dev)' <=> y \in OpenCalls(dev)
  <2> SUFFICES ASSUME NEW y \in Tasks \X (1 .. 2)
               PROVE  y \in OpenCalls(dev)' <=> y \in OpenCalls(dev)
    OBVIOUS
  <2>1. PICK u \in Tasks, e \in 1 .. 2 : y = <<u, e>>
    OBVIOUS
  <2> QED
    BY <2>1
<1> QED
  BY <1>1, <1>2

LEMMA OpenMember ==
  ASSUME NEW dev \in Devices, NEW u \in Tasks, NEW e \in 1 .. 2
  PROVE  /\ <<u, e>> \in OpenCalls(dev) <=>
              e <= Depth(u) /\ IsOpen(CallAt(u, e)) /\ CallAt(u, e).fn.device = dev
         /\ <<u, e>> \in OpenCalls(dev)' <=>
              e <= Depth(u)' /\ IsOpen(CallAt(u, e)') /\ (CallAt(u, e)').fn.device = dev
BY DEF OpenCalls

\* A task that is not in DoIO has another stack and its own memory; the
\* devices are open for the same calls.
LEMMA RestackSuffices ==
  ASSUME BootInvariant, NEW t \in Tasks, DOMAIN stack' = Tasks, DOMAIN live' = Tasks,
         \A u \in Tasks \ {t} : stack'[u] = stack[u] /\ live'[u] = live[u],
         UNCHANGED <<lib_OpenCnt, fault, client>>, client[t] = "idle",
         StackOK(t)', live'[t] = HeldBy(stack'[t]),
         \A dev \in Devices : \A e \in 1 .. 2 :
           <<t, e>> \in OpenCalls(dev)' <=> <<t, e>> \in OpenCalls(dev)
  PROVE  BootInvariant'
<1>1. ASSUME NEW u \in Tasks PROVE StackOK(u)' /\ WaitsInDoIO(u)'
  <2>1. CASE u = t
    BY <2>1 DEF WaitsInDoIO
  <2>2. CASE u # t
    <3>1. stack'[u] = stack[u] /\ client'[u] = client[u] /\ StackOK(u) /\ WaitsInDoIO(u)
      BY <2>2 DEF BootInvariant
    <3> QED
      BY <3>1 DEF StackOK, WaitsInDoIO, Depth
  <2> QED
    BY <2>1, <2>2
<1>2. ASSUME NEW dev \in Devices PROVE lib_OpenCnt'[dev] = Cardinality(OpenCalls(dev)')
  <2>1. ASSUME NEW u \in Tasks, NEW e \in 1 .. 2
        PROVE  <<u, e>> \in OpenCalls(dev)' <=> <<u, e>> \in OpenCalls(dev)
    <3>1. CASE u # t
      <4>1. stack'[u] = stack[u]
        BY <3>1
      <4> QED
        BY <4>1, OpenMember DEF CallAt, Depth
    <3> QED
      BY <3>1
  <2>2. OpenCalls(dev)' = OpenCalls(dev)
    BY <2>1, SameOpenCalls
  <2> QED
    BY <2>2, LiveParts DEF BootInvariant
<1>3. \A u \in Tasks : live'[u] = HeldBy(stack'[u])
  BY LiveParts DEF BootInvariant
<1>4. LiveIsHeld'
  BY <1>2, <1>3, LivePartsNext
<1> QED
  BY <1>1, <1>4 DEF BootInvariant

LEMMA NextCall ==
  ASSUME NEW g \in Calls
  PROVE  LET f == [g EXCEPT !.i = @ + 1, !.at = "loop"]
         IN  /\ f \in Calls /\ f.fn = g.fn /\ f.at = "loop" /\ f.io = g.io /\ f.mp = g.mp
             /\ f.buf = g.buf /\ f.round = g.round
             /\ g.i + 1 \in Nat /\ f = [g EXCEPT !.i = g.i + 1, !.at = "loop"]
<1>1. g.i \in Nat
  BY DEF Calls
<1>2. g.i + 1 \in Nat
  BY <1>1
<1>3. "loop" \in Places
  BY DEF Places
<1> HIDE DEF Places
<1> QED
  BY <1>2, <1>3 DEF Calls

LEMMA NextTurnKeeps ==
  ASSUME BootInvariant, NEW t \in Tasks, NextTurn(t)
  PROVE  BootInvariant'
<1> DEFINE g == Head(stack[t])
           f == [g EXCEPT !.i = @ + 1, !.at = "loop"]
<1>1. stack[t] # << >> /\ g.at = "after DoIO" /\ UNCHANGED <<live, lib_OpenCnt, fault, client>>
  BY DEF NextTurn, At, unit
<1>2. /\ g \in Calls /\ WellFormed(g) /\ client[t] = "idle" /\ fault \in BOOLEAN
      /\ g = stack[t][1] /\ Depth(t) \in 1 .. 2
  BY <1>1, LiveHere, NotWaiting DEF BootInvariant
<1>3. CASE g.fn.calls = Nothing
  <2>1. g.i + 1 \in Nat /\ Becomes(t, [g EXCEPT !.i = g.i + 1, !.at = "loop"])
    BY <1>2, <1>3, NextCall DEF NextTurn
  <2> QED
    BY <1>1, <1>2, <2>1, MoveKeeps
<1>4. CASE g.fn.calls # Nothing
  <2> DEFINE c == Call(g.fn.calls)
  <2>1. /\ stack' = [stack EXCEPT ![t] = <<c, f>> \o Tail(@)]
        /\ stack[t] \in Seq(Calls) /\ DOMAIN stack = Tasks
        /\ Depth(t) = 2 => stack[t][1].fn.calls = Nothing
        /\ DOMAIN live = Tasks
    <3>1. /\ stack[t] \in Seq(Calls) /\ DOMAIN stack = Tasks /\ DOMAIN live = Tasks
          /\ Depth(t) = 2 => stack[t][1].fn.calls = Nothing
      BY DEF BootInvariant, StackOK
    <3>2. /\ f.fn = g.fn
          /\ IF f.fn.calls = Nothing THEN Becomes(t, f)
             ELSE stack' = [stack EXCEPT ![t] = <<Call(f.fn.calls), f>> \o Tail(@)]
      BY <1>2, NextCall DEF NextTurn
    <3> HIDE DEF f, g
    <3> QED
      BY <1>4, <3>1, <3>2
  <2>2. Len(stack[t]) = 1
    BY <1>2, <1>4, <2>1 DEF Depth
  <2>3. g.fn \in Functions /\ g.fn.calls \in Functions /\ g.fn.calls.calls = Nothing
    BY <1>2, <1>4, FunctionFacts DEF Calls
  <2>4. /\ f \in Calls /\ f.fn = g.fn /\ f.at = "loop" /\ f.io = g.io /\ f.mp = g.mp
        /\ f.buf = g.buf /\ f.round = g.round
    BY <1>2, NextCall
  <2>5. /\ c \in Calls /\ WellFormed(c) /\ c.fn = g.fn.calls /\ ~IsOpen(c)
        /\ \A d : Holds(d, c) = {}
    BY <2>3, CallFacts DEF WellFormed
  <2> HIDE DEF f, c
  <2>6. WellFormed(f) /\ IsOpen(f) /\ IsOpen(g)
    BY <1>1, <1>2, <2>4 DEF WellFormed, IsOpen
  <2>7. Holds(1, f) = Holds(1, g)
    BY <2>4, <2>6 DEF Holds
  <2>8. /\ stack'[t] \in Seq(Calls) /\ Len(stack'[t]) = 2
        /\ stack'[t][1] = c /\ stack'[t][2] = f
        /\ DOMAIN stack' = Tasks /\ \A u \in Tasks \ {t} : stack'[u] = stack[u]
    <3>1. stack'[t] = Pushed(stack[t], c, f)
      BY <2>1 DEF Pushed
    <3>2. /\ stack'[t] \in Seq(Calls) /\ Len(stack'[t]) = Len(stack[t]) + 1
          /\ stack'[t][1] = c /\ stack'[t][2] = f
      <4>1. stack[t] \in Seq(Calls) /\ stack[t] # << >> /\ f \in Calls /\ c \in Calls
        BY <1>1, <2>1, <2>4, <2>5
      <4>2. /\ Pushed(stack[t], c, f) \in Seq(Calls)
            /\ Len(Pushed(stack[t], c, f)) = Len(stack[t]) + 1
        BY <4>1, PushCall
      <4>3. Pushed(stack[t], c, f)[1] = c
        BY <4>1, PushCall
      <4>4. Pushed(stack[t], c, f)[2] = f
        BY <4>1, PushCall
      <4> QED
        BY <3>1, <4>2, <4>3, <4>4, Zenon
    <3>3. Len(stack'[t]) = 2
      BY <2>2, <3>2
    <3>4. DOMAIN stack' = Tasks /\ \A u \in Tasks \ {t} : stack'[u] = stack[u]
      BY <2>1
    <3> QED
      BY <3>2, <3>3, <3>4
  <2>9. StackOK(t)'
    <3>1. \A k \in 1 .. Len(stack'[t]) : k = 1 \/ k = 2
      BY <2>8
    <3>2. \A k \in 1 .. Len(stack'[t]) : WellFormed(stack'[t][k])
      BY <2>5, <2>6, <2>8, <3>1
    <3> QED
      BY <2>3, <2>4, <2>5, <2>8, <3>2 DEF StackOK, Depth
  <2>10. live'[t] = HeldBy(stack'[t])
    <3>1. live[t] = Holds(1, g)
      BY <1>2, <2>1, <2>2, HeldByStack, LiveParts DEF BootInvariant
    <3>2. HeldBy(stack'[t]) = Holds(1, f) \cup Holds(2, c)
      BY <2>8, HeldByStack
    <3> QED
      BY <1>1, <2>5, <2>7, <3>1, <3>2
  <2>11. ASSUME NEW dev \in Devices, NEW e \in 1 .. 2
         PROVE  <<t, e>> \in OpenCalls(dev)' <=> <<t, e>> \in OpenCalls(dev)
    <3>1. CASE e = 1
      <4>1. e <= Depth(t) /\ e <= Depth(t)' /\ CallAt(t, e) = g /\ CallAt(t, e)' = f
        <5>1. Len(stack[t]) - 1 + 1 = 1 /\ Len(stack'[t]) - 1 + 1 = 2 /\ 1 <= 2
          BY <2>2, <2>8
        <5>2. CallAt(t, 1) = g
          BY <1>2, <5>1 DEF CallAt, Depth
        <5>3. CallAt(t, 1)' = f
          BY <2>8, <5>1 DEF CallAt, Depth
        <5> QED
          BY <2>2, <2>8, <3>1, <5>2, <5>3 DEF Depth
      <4>2. IsOpen(f) /\ IsOpen(g) /\ f.fn = g.fn
        BY <2>4, <2>6
      <4> HIDE DEF g
      <4> QED
        <5>1. <<t, e>> \in OpenCalls(dev) <=> g.fn.device = dev
          BY <4>1, <4>2, OpenMember
        <5>2. <<t, e>> \in OpenCalls(dev)' <=> f.fn.device = dev
          BY <4>1, <4>2, OpenMember
        <5> QED
          BY <4>2, <5>1, <5>2
    <3>2. CASE e = 2
      <4>1. ~(e <= Depth(t)) /\ CallAt(t, e)' = c
        BY <2>2, <2>8, <3>2 DEF CallAt, Depth
      <4> QED
        BY <2>5, <4>1, OpenMember
    <3> QED
      BY <3>1, <3>2
  <2> QED
    BY <1>1, <1>2, <2>1, <2>8, <2>9, <2>10, <2>11, RestackSuffices
<1> QED
  BY <1>3, <1>4

LEMMA PopCall ==
  ASSUME NEW s \in Seq(Calls), s # << >>
  PROVE  /\ Tail(s) \in Seq(Calls) /\ Len(Tail(s)) = Len(s) - 1
         /\ Len(s) = 2 => Tail(s)[1] = s[2]
BY EmptySeq

LEMMA EndKeeps ==
  ASSUME BootInvariant, NEW t \in Tasks, End(t)
  PROVE  BootInvariant'
<1> DEFINE g == Head(stack[t])
           d == Depth(t)
<1>1. stack[t] # << >> /\ g.at = "end" /\ UNCHANGED <<lib_OpenCnt, fault, client>>
  BY DEF End, At, unit
<1>2. /\ g \in Calls /\ WellFormed(g) /\ client[t] = "idle" /\ g = stack[t][1] /\ d \in 1 .. 2
      /\ stack[t] \in Seq(Calls) /\ DOMAIN stack = Tasks /\ DOMAIN live = Tasks
  BY <1>1, LiveHere, NotWaiting DEF BootInvariant, StackOK
<1>3. /\ stack'[t] = Tail(stack[t]) /\ DOMAIN stack' = Tasks /\ DOMAIN live' = Tasks
      /\ \A u \in Tasks \ {t} : stack'[u] = stack[u] /\ live'[u] = live[u]
      /\ live'[t] = live[t] \ {<<d, n>> : n \in (IF g.io THEN {"io"} ELSE {})
                                                \cup (IF g.mp THEN {"mp"} ELSE {})}
  BY <1>2 DEF End, Frees
<1>4. Tail(stack[t]) \in Seq(Calls) /\ Len(Tail(stack[t])) = Len(stack[t]) - 1
      /\ (Len(stack[t]) = 2 => Tail(stack[t])[1] = stack[t][2])
  BY <1>1, <1>2, PopCall
<1>5. ~IsOpen(g) /\ Holds(d, g) = {<<d, n>> : n \in (IF g.io THEN {"io"} ELSE {})
                                                      \cup (IF g.mp THEN {"mp"} ELSE {})}
  BY <1>1 DEF Holds, IsOpen
<1>6. live'[t] = live[t] \ Holds(d, g)
  BY <1>3, <1>5, Zenon
<1> HIDE DEF g
<1>7. CASE Len(stack[t]) = 1
  <2>1. Len(stack'[t]) = 0
    BY <1>3, <1>4, <1>7
  <2>2. StackOK(t)'
    BY <1>3, <1>4, <2>1 DEF StackOK, Depth
  <2>3. live'[t] = HeldBy(stack'[t])
    <3>1. live[t] = Holds(1, g)
      BY <1>2, <1>7, HeldByStack, LiveParts DEF BootInvariant
    <3>2. HeldBy(stack'[t]) = {}
      BY <1>3, <1>4, <2>1, HeldByStack
    <3> QED
      BY <1>6, <1>7, <3>1, <3>2 DEF Depth
  <2>4. ASSUME NEW dev \in Devices, NEW e \in 1 .. 2
        PROVE  <<t, e>> \in OpenCalls(dev)' <=> <<t, e>> \in OpenCalls(dev)
    <3>1. <<t, e>> \notin OpenCalls(dev)'
      <4>1. ~(e <= Depth(t)')
        BY <2>1 DEF Depth
      <4> QED
        BY <4>1, OpenMember
    <3>2. <<t, e>> \notin OpenCalls(dev)
      <4>1. e <= Depth(t) => CallAt(t, e) = g
        BY <1>2, <1>7 DEF CallAt, Depth
      <4>2. ~IsOpen(g)
        BY <1>5
      <4> QED
        BY <4>1, <4>2, OpenMember, Zenon
    <3> QED
      BY <3>1, <3>2
  <2> QED
    BY <1>1, <1>2, <1>3, <2>2, <2>3, <2>4, RestackSuffices
<1>8. CASE Len(stack[t]) = 2
  <2>1. Len(stack'[t]) = 1 /\ stack'[t][1] = stack[t][2]
    BY <1>3, <1>4, <1>8
  <2>2. StackOK(t)'
    <3>1. WellFormed(stack[t][2])
      BY <1>8 DEF BootInvariant, StackOK, Depth
    <3>2. \A k \in 1 .. Len(stack'[t]) : k = 1
      BY <2>1
    <3>3. \A k \in 1 .. Len(stack'[t]) : WellFormed(stack'[t][k])
      BY <2>1, <3>1, <3>2
    <3> QED
      <4>1. stack'[t] \in Seq(Calls)
        BY <1>3, <1>4, Zenon
      <4>2. Len(stack'[t]) <= 2 /\ ~(Len(stack'[t]) = 2)
        <5>1. \A n : n = 1 => n <= 2 /\ ~(n = 2)
          OBVIOUS
        <5> QED
          BY <2>1, <5>1, Zenon
      <4> QED
        BY <3>3, <4>1, <4>2 DEF StackOK, Depth
  <2>3. live'[t] = HeldBy(stack'[t])
    <3>1. live[t] = Holds(1, stack[t][2]) \cup Holds(2, g)
      BY <1>2, <1>8, HeldByStack, LiveParts DEF BootInvariant
    <3>2. HeldBy(stack'[t]) = Holds(1, stack[t][2])
      BY <1>3, <1>4, <2>1, HeldByStack
    <3>3. Holds(1, stack[t][2]) \cap Holds(2, g) = {}
      BY DepthsApart
    <3> QED
      BY <1>6, <1>8, <3>1, <3>2, <3>3 DEF Depth
  <2>4. ASSUME NEW dev \in Devices, NEW e \in 1 .. 2
        PROVE  <<t, e>> \in OpenCalls(dev)' <=> <<t, e>> \in OpenCalls(dev)
    <3>1. CASE e = 1
      <4>1. e <= Depth(t) /\ e <= Depth(t)' /\ CallAt(t, e)' = CallAt(t, e)
        <5>1. Len(stack[t]) - 1 + 1 = 2 /\ Len(stack'[t]) - 1 + 1 = 1
          BY <1>8, <2>1
        <5>2. CallAt(t, 1) = stack[t][2]
          BY <5>1 DEF CallAt, Depth
        <5>3. CallAt(t, 1)' = stack[t][2]
          BY <2>1, <5>1 DEF CallAt, Depth
        <5> QED
          BY <1>8, <2>1, <3>1, <5>2, <5>3 DEF Depth
      <4> QED
        BY <4>1, OpenMember
    <3>2. CASE e = 2
      <4>1. ~(e <= Depth(t)')
        BY <2>1, <3>2 DEF Depth
      <4>2. CallAt(t, e) = g
        <5>1. Len(stack[t]) - 2 + 1 = 1
          BY <1>8
        <5> QED
          BY <1>2, <3>2, <5>1 DEF CallAt, Depth
      <4> QED
        BY <1>5, <4>1, <4>2, OpenMember
    <3> QED
      BY <3>1, <3>2
  <2> QED
    BY <1>1, <1>2, <1>3, <2>2, <2>3, <2>4, RestackSuffices
<1> QED
  BY <1>2, <1>7, <1>8 DEF Depth

-----------------------------------------------------------------------------
(* The theorems.                                                           *)

LEMMA InitHolds == Init => BootInvariant
<1> SUFFICES ASSUME Init PROVE BootInvariant
  OBVIOUS
<1>1. PICK s \in Suites : stack = [t \in Tasks |-> <<Call(s[t])>>]
  BY DEF Init
<1>2. /\ live = [t \in Tasks |-> {}] /\ lib_OpenCnt = [x \in Devices |-> 0] /\ fault = FALSE
      /\ client = [t \in Tasks |-> "idle"]
  BY DEF Init, U!Init
<1>3. ASSUME NEW t \in Tasks
      PROVE  /\ stack[t] \in Seq(Calls) /\ Len(stack[t]) = 1
             /\ WellFormed(stack[t][1]) /\ ~IsOpen(stack[t][1])
             /\ Holds(1, stack[t][1]) = {}
  <2>1. s[t] \in Functions
    BY SuitesAssumption
  <2>2. /\ Call(s[t]) \in Calls /\ WellFormed(Call(s[t])) /\ ~IsOpen(Call(s[t]))
        /\ Holds(1, Call(s[t])) = {}
    BY <2>1, CallFacts DEF WellFormed
  <2>3. stack[t] = <<Call(s[t])>>
    BY <1>1
  <2> QED
    BY <2>2, <2>3
<1>4. ASSUME NEW t \in Tasks PROVE StackOK(t) /\ WaitsInDoIO(t)
  <2>1. \A k \in 1 .. Len(stack[t]) : k = 1
    <3>1. Len(stack[t]) = 1
      BY <1>3
    <3> QED
      BY <3>1
  <2>2. \A k \in 1 .. Len(stack[t]) : WellFormed(stack[t][k])
    BY <1>3, <2>1
  <2>3. StackOK(t)
    BY <1>3, <2>2 DEF StackOK, Depth
  <2> QED
    BY <1>2, <2>3 DEF WaitsInDoIO
<1>5. ASSUME NEW t \in Tasks PROVE live[t] = HeldBy(stack[t])
  BY <1>2, <1>3, HeldByStack
<1>6. ASSUME NEW dev \in Devices PROVE lib_OpenCnt[dev] = Cardinality(OpenCalls(dev))
  <2>1. ASSUME NEW u \in Tasks, NEW e \in 1 .. 2 PROVE <<u, e>> \notin OpenCalls(dev)
    <3>1. e <= Depth(u) => CallAt(u, e) = stack[u][1]
      BY <1>3 DEF CallAt, Depth
    <3> QED
      BY <1>3, <3>1, OpenMember
  <2>2. OpenCalls(dev) = {}
    BY <2>1 DEF OpenCalls
  <2> QED
    BY <1>2, <2>2, FS_EmptySet
<1>7. LiveIsHeld
  BY <1>5, <1>6, LiveParts
<1> QED
  BY <1>1, <1>2, <1>4, <1>7 DEF BootInvariant

LEMMA StepKeeps ==
  ASSUME U!UnitInvariant, BootInvariant, [Next]_vars
  PROVE  BootInvariant'
<1>1. CASE UNCHANGED vars
  <2>1. UNCHANGED <<stack, live, lib_OpenCnt, fault, client>>
    BY <1>1 DEF vars, test, unit
  <2> QED
    BY <2>1, UnmovedKeeps DEF BootInvariant
<1>2. ASSUME NEW t \in Tasks, Task(t) PROVE BootInvariant'
  BY <1>2, CreateMsgPortKeeps, CreateIORequestKeeps, OpenDeviceKeeps, AllocBufferKeeps,
     SendKeeps, DoIOReturnsKeeps, NextTurnKeeps, CloseDeviceKeeps, EndKeeps DEF Task
<1>3. CASE Unit(U!Worker) \/ Unit(U!DeviceCompletes) \/ Unit(U!IRQServer)
  <2>1. /\ UNCHANGED <<stack, live, lib_OpenCnt, fault>>
        /\ U!Worker \/ U!DeviceCompletes \/ U!IRQServer
    BY <1>3 DEF Unit, test
  <2> QED
    BY <2>1, UnitKeepsWaiting, UnmovedKeeps DEF BootInvariant
<1> QED
  BY <1>1, <1>2, <1>3 DEF Next

THEOREM BootInvariance == Spec => [](U!UnitInvariant /\ BootInvariant)
<1>1. Init => BootInvariant
  BY InitHolds
<1>2. U!UnitInvariant /\ BootInvariant /\ [Next]_vars => BootInvariant'
  BY StepKeeps
<1> QED
  BY <1>1, <1>2, UnitInvariance, PTL DEF Spec

\* The variables are functions on the tasks and the devices.
AreFunctions ==
  /\ stack = [t \in Tasks |-> stack[t]]
  /\ live = [t \in Tasks |-> live[t]]
  /\ lib_OpenCnt = [x \in Devices |-> lib_OpenCnt[x]]

LEMMA FunctionsInvariance == Spec => []AreFunctions
<1>1. Init => AreFunctions
  <2> SUFFICES ASSUME Init PROVE AreFunctions
    OBVIOUS
  <2>1. PICK s \in Suites : stack = [t \in Tasks |-> <<Call(s[t])>>]
    BY DEF Init
  <2>2. live = [t \in Tasks |-> {}] /\ lib_OpenCnt = [x \in Devices |-> 0]
    BY DEF Init
  <2> HIDE DEF Devices
  <2> QED
    BY <2>1, <2>2 DEF AreFunctions
<1>2. AreFunctions /\ [Next]_vars => AreFunctions'
  <2> SUFFICES ASSUME AreFunctions, [Next]_vars PROVE AreFunctions'
    OBVIOUS
  <2>1. CASE UNCHANGED <<stack, live, lib_OpenCnt>>
    BY <2>1 DEF AreFunctions
  <2>2. ASSUME NEW t \in Tasks, Task(t) PROVE AreFunctions'
    <3>1. \/ UNCHANGED stack
          \/ \E s : stack' = [stack EXCEPT ![t] = s]
      BY <2>2 DEF Task, CreateMsgPort, CreateIORequest, OpenDevice, AllocBuffer, SendRead,
                  SendTimer, DoIOReturns, NextTurn, CloseDevice, End, Becomes
    <3>2. \/ UNCHANGED live
          \/ \E l : live' = [live EXCEPT ![t] = l]
      BY <2>2 DEF Task, CreateMsgPort, CreateIORequest, OpenDevice, AllocBuffer, SendRead,
                  SendTimer, DoIOReturns, NextTurn, CloseDevice, End, Allocates, Frees
    <3>3. \/ UNCHANGED lib_OpenCnt
          \/ \E x, n : lib_OpenCnt' = [lib_OpenCnt EXCEPT ![x] = n]
      BY <2>2 DEF Task, CreateMsgPort, CreateIORequest, OpenDevice, AllocBuffer, SendRead,
                  SendTimer, DoIOReturns, NextTurn, CloseDevice, End
    <3> QED
      BY <3>1, <3>2, <3>3 DEF AreFunctions
  <2> QED
    BY <2>1, <2>2 DEF Next, Unit, test, vars
<1> QED
  BY <1>1, <1>2, PTL DEF Spec

LEMMA HeadOfStack ==
  ASSUME BootInvariant, NEW t \in Tasks, stack[t] # << >>
  PROVE  CallAt(t, Depth(t)) = Head(stack[t]) /\ Depth(t) \in 1 .. 2
<1>1. Depth(t) \in 1 .. 2 /\ Head(stack[t]) = stack[t][1]
  BY LiveHere
<1>2. Depth(t) - Depth(t) + 1 = 1
  BY <1>1
<1> QED
  BY <1>1, <1>2 DEF CallAt

(* Every variable has its type in every reachable state of any number of   *)
(* test tasks: no device is closed more often than it was opened, and the  *)
(* unit the tests use is in a state of VirtioBlkUnit.                      *)
THEOREM TypeCorrectness == Spec => []TypeOK
<1>1. U!UnitInvariant /\ BootInvariant /\ AreFunctions => TypeOK
  <2> SUFFICES ASSUME U!UnitInvariant, BootInvariant, AreFunctions PROVE TypeOK
    OBVIOUS
  <2>1. ASSUME NEW t \in Tasks
        PROVE  live[t] \in SUBSET ((1 .. 2) \X {"mp", "io", "buf"})
    <3>1. live[t] = UNION {Holds(d, CallAt(t, d)) : d \in 1 .. Depth(t)}
      BY DEF BootInvariant, LiveIsHeld
    <3>2. ASSUME NEW d \in 1 .. Depth(t)
          PROVE  Holds(d, CallAt(t, d)) \subseteq (1 .. 2) \X {"mp", "io", "buf"}
      <4>1. Depth(t) \in Nat /\ Depth(t) <= 2
        BY EmptySeq DEF BootInvariant, StackOK, Depth
      <4>2. d \in 1 .. 2
        BY <4>1
      <4> QED
        BY <4>2 DEF Holds
    <3> QED
      BY <3>1, <3>2
  <2>2. ASSUME NEW dev \in Devices PROVE lib_OpenCnt[dev] \in Nat
    <3>1. OpenCalls(dev) \in SUBSET (Tasks \X (1 .. 2))
      BY DEF OpenCalls
    <3> QED
      BY <3>1, OpenCallsFinite DEF BootInvariant, LiveIsHeld
  <2>3. DOMAIN stack = Tasks /\ \A t \in Tasks : stack[t] \in Seq(Calls) /\ Depth(t) <= 2
    BY DEF BootInvariant, StackOK
  <2>4. /\ stack \in [Tasks -> Seq(Calls)] /\ lib_OpenCnt \in [Devices -> Nat]
        /\ live \in [Tasks -> SUBSET ((1 .. 2) \X {"mp", "io", "buf"})]
    BY <2>1, <2>2, <2>3 DEF AreFunctions
  <2> QED
    BY <2>3, <2>4 DEF TypeOK, BootInvariant, U!UnitInvariant
<1> QED
  BY <1>1, BootInvariance, FunctionsInvariance, PTL

(* Whichever calls fail, and however the tasks are interleaved: what a     *)
(* task has allocated and not freed is exactly what its calls still point  *)
(* to, and the open counts are the calls that have the device open.        *)
THEOREM MemoryIsHeld == Spec => []LiveIsHeld
<1>1. BootInvariant => LiveIsHeld
  BY DEF BootInvariant
<1> QED
  BY <1>1, BootInvariance, PTL

(* While the unit holds the request of a test task, or its reply waits to  *)
(* be taken, the task is in DoIO, its port and its request are alive and   *)
(* the device is open.                                                     *)
THEOREM RequestsStayAlive == Spec => []RequestStaysAlive
<1>1. U!UnitInvariant /\ BootInvariant => RequestStaysAlive
  <2> SUFFICES ASSUME U!UnitInvariant, BootInvariant, NEW t \in Tasks,
                      U!Held(t) \/ client[t] # "idle"
               PROVE  /\ stack[t] # << >> /\ Head(stack[t]).at = "DoIO"
                      /\ Head(stack[t]).fn.device = "virtio_blk.device"
                      /\ {<<Depth(t), "io">>, <<Depth(t), "mp">>} \subseteq live[t]
                      /\ lib_OpenCnt["virtio_blk.device"] > 0
    BY DEF RequestStaysAlive
  <2> DEFINE g == Head(stack[t])
             dev == "virtio_blk.device"
  <2>1. client[t] # "idle"
    BY HeldIsWaitedFor
  <2>2. stack[t] # << >> /\ g.at = "DoIO" /\ g.fn.device = dev
    BY <2>1 DEF BootInvariant, WaitsInDoIO
  <2>3. CallAt(t, Depth(t)) = g /\ Depth(t) \in 1 .. 2 /\ WellFormed(g)
    BY <2>2, HeadOfStack, LiveHere
  <2>4. g.mp /\ g.io /\ IsOpen(g)
    BY <2>2, <2>3 DEF WellFormed, IsOpen
  <2>5. {<<Depth(t), "io">>, <<Depth(t), "mp">>} \subseteq live[t]
    <3>1. {<<Depth(t), "io">>, <<Depth(t), "mp">>} \subseteq Holds(Depth(t), g)
      BY <2>4 DEF Holds
    <3> QED
      BY <2>2, <3>1, LiveHere
  <2>6. lib_OpenCnt[dev] > 0
    <3>1. dev \in Devices /\ OpenCalls(dev) \in SUBSET (Tasks \X (1 .. 2))
      BY DEF Devices, OpenCalls
    <3>2. <<t, Depth(t)>> \in OpenCalls(dev)
      <4> HIDE DEF g, dev
      <4>1. Depth(t) <= Depth(t)
        BY <2>3
      <4> QED
        BY <2>2, <2>3, <2>4, <3>1, <4>1, OpenMember
    <3>3. IsFiniteSet(OpenCalls(dev)) /\ Cardinality(OpenCalls(dev)) \in Nat
      BY <3>1, OpenCallsFinite
    <3>4. Cardinality(OpenCalls(dev)) # 0
      BY <3>2, <3>3, FS_EmptySet
    <3>5. lib_OpenCnt[dev] = Cardinality(OpenCalls(dev))
      BY <3>1 DEF BootInvariant, LiveIsHeld
    <3> HIDE DEF dev
    <3> QED
      BY <3>3, <3>4, <3>5
  <2> QED
    BY <2>2, <2>5, <2>6
<1> QED
  BY <1>1, BootInvariance, PTL

-----------------------------------------------------------------------------
(* What the tests see of the unit.                                         *)

(* The tests, whatever fails for them, drive the unit as clients of        *)
(* VirtioBlkUnit do, and no other way.                                     *)
THEOREM UnitRefinement == Spec => U!Spec
<1>1. Init => U!Init
  BY DEF Init
<1>2. [Next]_vars => [U!Next]_(U!vars)
  BY UnitStep
<1> QED
  BY <1>1, <1>2, PTL DEF Spec, U!Spec

LEMMA SameHeld == U!HeldQueue = UP!HeldQueue /\ U!HeadState = UP!HeadState
  BY DEF U!HeldQueue, UP!HeldQueue, U!HeadState, UP!HeadState

LEMMA SamePromise == U!Queueable = UP!Queueable /\ U!MustServe = UP!MustServe
  BY DEF U!Queueable, UP!Queueable, U!Transferring, UP!Transferring, U!MustServe, UP!MustServe

LEMMA SameQueue ==
  /\ U!Queue!Init <=> UP!Queue!Init
  /\ U!Queue!Next <=> UP!Queue!Next
  /\ (UNCHANGED U!Queue!vars <=> UNCHANGED UP!Queue!vars)
<1>1. U!HeldQueue = UP!HeldQueue /\ U!HeadState = UP!HeadState
  BY SameHeld
<1>2. U!HeldQueue' = UP!HeldQueue' /\ U!HeadState' = UP!HeadState'
  BY DEF U!HeldQueue, UP!HeldQueue, U!HeadState, UP!HeadState
<1>3. U!Queue!Init <=> UP!Queue!Init
  BY <1>1 DEF U!Queue!Init, UP!Queue!Init
<1>4. UNCHANGED U!Queue!vars <=> UNCHANGED UP!Queue!vars
  BY <1>1, <1>2 DEF U!Queue!vars, UP!Queue!vars
<1>5. U!Queue!Next <=> UP!Queue!Next
  BY <1>1, <1>2, SamePromise
     DEF U!Queue!Sends, UP!Queue!Sends, U!Queue!EndAtOnce, UP!Queue!EndAtOnce, U!Queue!Enqueue,
         UP!Queue!Enqueue, U!Queue!Abort, UP!Queue!Abort, U!Queue!Collect, UP!Queue!Collect,
         U!Queue!Take, UP!Queue!Take, U!Queue!Serve, UP!Queue!Serve, U!Queue!Finish,
         UP!Queue!Finish, U!Queue!PassOver, UP!Queue!PassOver, U!Queue!Reply, UP!Queue!Reply,
         U!Queue!Next, UP!Queue!Next
<1> QED
  BY <1>3, <1>4, <1>5

(* The reads of the tests, one of each task at most, are served in the     *)
(* order they were sent, and each is replied to once.                      *)
THEOREM QueueRefinement == Spec => U!ImplementsQueue
<1>1. Init => UP!Init
  BY SameUnit DEF Init
<1>2. [Next]_vars => [UP!Next]_(UP!vars)
  BY UnitStep, SameUnit
<1>3. UP!Spec => UP!ImplementsQueue
  BY UnitAssumptions, UP!QueueRefinement
     DEF UP!CommandsAssumption, UP!BoundsAssumption, UP!InterruptAssumption
<1>4. UP!Queue!Init => U!Queue!Init
  BY SameQueue
<1>5. [UP!Queue!Next]_(UP!Queue!vars) => [U!Queue!Next]_(U!Queue!vars)
  BY SameQueue
<1> QED
  BY <1>1, <1>2, <1>3, <1>4, <1>5, PTL
     DEF Spec, UP!Spec, U!ImplementsQueue, UP!ImplementsQueue, U!Queue!Spec, UP!Queue!Spec
=============================================================================
