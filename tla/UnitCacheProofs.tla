-------------------------- MODULE UnitCacheProofs --------------------------
(***************************************************************************)
(* Proofs about UnitCache: the composition is a behaviour of the unit and  *)
(* a behaviour of the cache, so that everything proved about each of them  *)
(* holds of the two together.                                              *)
(***************************************************************************)
EXTENDS UnitCache, SequenceTheorems, TLAPS

\* The unit and the cache with what is proved about them. UP is U, and CP is C.
UP == INSTANCE VirtioBlkUnitProofs WITH pc <- upc, Commands <- UNION {Uses[r] : r \in Requests},
                                        MaxChains <- 3, OneInterrupt <- TRUE

CP == INSTANCE CacheProofs WITH pc <- cpc, req <- creq

-----------------------------------------------------------------------------
(* Each step is a step of the unit, or none of its variables changes.      *)

LEMMA UnitInit == Init => U!Init
  BY DEF Init

LEMMA ReadOrWriteIsBeginIO ==
  ASSUME NEW r \in Requests, NEW call \in Calls, NEW c \in {"CMD_READ", "CMD_WRITE"},
         NEW offset, NEW n, NEW d,
         ReadOrWrite(r, call, c, offset, n, d)
  PROVE  U!Next
<1>1. c \in UNION {Uses[x] : x \in Requests} /\ call \in {"DoIO", "SendIO"}
  BY CallsAssumption DEF ReadOrWrite, Begin
<1>2. U!Results(c) = {"0", "BLK_ERR_NotEnoughSectors"}
  BY DEF U!Results, U!Transferring
<1>3. \/ \E error \in U!Results(c) : U!EndCommand(r, call, c, error)
      \/ c \in U!Queueable /\ U!QueueCommand(r, call)
  BY <1>2 DEF ReadOrWrite, Reject, ServeAtOnce, ServeLater, U!Queueable, U!Transferring
<1>4. U!BeginIO(r, call, c)
  BY <1>3 DEF ReadOrWrite, Begin, U!BeginIO, worker, device, U!worker, U!device
<1> QED
  BY <1>1, <1>4 DEF U!Client, U!Next

LEMMA UpdateOrClearIsBeginIO ==
  ASSUME NEW r \in Requests, NEW call \in Calls, Update(r, call) \/ Clear(r, call)
  PROVE  U!Next
<1> DEFINE Served(c) == /\ Begin(r, call, c)
                       /\ \/ c = "CMD_UPDATE" /\ U!QueueCommand(r, call)
                          \/ U!EndCommand(r, call, c, "0")
<1>1. PICK c \in {"CMD_UPDATE", "CMD_CLEAR"} : Served(c)
  BY DEF Update, Clear
<1>2. c \in UNION {Uses[x] : x \in Requests} /\ call \in {"DoIO", "SendIO"}
  BY <1>1, CallsAssumption DEF Begin
<1>3. U!Results(c) = {"0"} /\ "CMD_UPDATE" \in U!Queueable
  BY DEF U!Results, U!Transferring, U!Queueable
<1>4. U!BeginIO(r, call, c)
  BY <1>1, <1>3 DEF Begin, U!BeginIO, worker, device, U!worker, U!device
<1> QED
  BY <1>2, <1>4 DEF U!Client, U!Next

LEMMA UnitStep == [Next]_vars => [U!Next]_(U!vars)
<1> SUFFICES ASSUME [Next]_vars PROVE [U!Next]_(U!vars)
  OBVIOUS
<1>0. UNCHANGED unit => UNCHANGED U!vars
  BY DEF unit, worker, device, U!vars, U!request, U!worker, U!device
<1>1. CASE Writes \/ Reads
  BY <1>1, ReadOrWriteIsBeginIO DEF Writes, Reads
<1>2. ASSUME NEW r \in Requests, NEW call \in Calls, Update(r, call) \/ Clear(r, call)
      PROVE  U!Next
  BY <1>2, UpdateOrClearIsBeginIO
<1>3. ASSUME NEW r \in Requests, Abort(r) \/ Collect(r)
      PROVE  U!Next
  BY <1>3 DEF Abort, Collect, U!Client, U!Next
<1>4. CASE CheckPort
  BY <1>4 DEF CheckPort, U!Worker, U!Next
<1>5. CASE CallCache \/ CopyLoop
  BY <1>0, <1>5 DEF CallCache, CopyLoop
<1>6. CASE CallSync
  BY <1>0, <1>6 DEF CallSync, U!Worker, U!Next
<1>7. CASE StartCallback \/ EndCallback \/ CacheReturns
  BY <1>7 DEF StartCallback, EndCallback, CacheReturns, U!Worker, U!Next
<1>8. CASE Sector
  BY <1>0, <1>8 DEF Sector, TransfersSector
<1>9. CASE Completes \/ Interrupt
  BY <1>9 DEF Completes, Interrupt, U!Next
<1>10. CASE UNCHANGED vars
  BY <1>0, <1>10 DEF vars
<1> QED
  BY <1>1, <1>2, <1>3, <1>4, <1>5, <1>6, <1>7, <1>8, <1>9, <1>10 DEF Next, Client, Worker

(* Whatever the cache makes of a request, the unit's list, flags, replies  *)
(* and aborts behave as VirtioBlkUnit says.                                *)
THEOREM UnitRefinement == Spec => ImplementsUnit
<1>1. Init => U!Init
  BY UnitInit
<1>2. [Next]_vars => [U!Next]_(U!vars)
  BY UnitStep
<1> QED
  BY <1>1, <1>2, PTL DEF Spec, ImplementsUnit, U!Spec

-----------------------------------------------------------------------------
(* The invariants of the unit.                                             *)

LEMMA SameUnit ==
  (U!Init <=> UP!Init) /\ (U!Next <=> UP!Next) /\ (UNCHANGED U!vars <=> UNCHANGED UP!vars)
  BY DEF U!Transferring, UP!Transferring, U!Queueable, UP!Queueable, U!Immediate, UP!Immediate,
         U!IdxStep, UP!IdxStep, U!request, UP!request, U!device, UP!device, U!worker, UP!worker,
         U!vars, UP!vars, U!None, UP!None, U!Queued, UP!Queued, U!NT_REPLYMSG, UP!NT_REPLYMSG,
         U!ClientRuns, UP!ClientRuns, U!Init, UP!Init, U!Results, UP!Results, U!EndCommand,
         UP!EndCommand, U!QueueCommand, UP!QueueCommand, U!BeginIO, UP!BeginIO, U!AbortIO,
         UP!AbortIO, U!WaitIO, UP!WaitIO, U!Client, UP!Client, U!TakeHead, UP!TakeHead, U!Serves,
         UP!Serves, U!ProcessRequest, UP!ProcessRequest, U!StartTransfer, UP!StartTransfer,
         U!CallbackReturns, UP!CallbackReturns, U!CacheReturns, UP!CacheReturns, U!RemoveRequest,
         UP!RemoveRequest, U!FinishRequest, UP!FinishRequest, U!DropAborted, UP!DropAborted,
         U!ReplyMsg, UP!ReplyMsg, U!Worker, UP!Worker, U!DeviceCompletes, UP!DeviceCompletes,
         U!IRQServer, UP!IRQServer, U!Next, UP!Next, U!RemoveAt, UP!RemoveAt

LEMMA SameUnitInvariant == UP!OneInterruptInvariant <=> U!OneInterruptInvariant
  BY DEF U!OneInterruptInvariant, UP!OneInterruptInvariant, U!UnitInvariant, UP!UnitInvariant,
         U!TypeOK, UP!TypeOK, U!Flags, UP!Flags, U!HeadIsCurrent, UP!HeadIsCurrent, U!HeadReady,
         UP!HeadReady, U!ReplyOwed, UP!ReplyOwed, U!NoLostWakeup, UP!NoLostWakeup,
         U!AbortedIsDone, UP!AbortedIsDone, U!WorkerTurn, UP!WorkerTurn, U!OneTransfer,
         UP!OneTransfer, U!ServiceProgress, UP!ServiceProgress, U!ServedBeforeReply,
         UP!ServedBeforeReply, U!HasBranch, UP!HasBranch, U!Serving, UP!Serving, U!Held, UP!Held,
         U!Queued, UP!Queued, U!NT_REPLYMSG, UP!NT_REPLYMSG, U!None, UP!None

LEMMA UnitAssumptions == UP!CommandsAssumption /\ UP!BoundsAssumption /\ UP!InterruptAssumption
<1>1. UNION {Uses[r] : r \in Requests} \subseteq {"CMD_READ", "CMD_WRITE", "CMD_UPDATE", "CMD_CLEAR"}
  BY UsesAssumption
<1> QED
  BY <1>1 DEF UP!CommandsAssumption, UP!BoundsAssumption, UP!InterruptAssumption, UP!IdxStep,
              UP!Queueable, UP!Transferring, UP!Immediate

LEMMA UnitInvariance == Spec => []U!OneInterruptInvariant
<1>1. Init => UP!Init
  BY UnitInit, SameUnit
<1>2. [Next]_vars => [UP!Next]_(UP!vars)
  BY UnitStep, SameUnit
<1>3. UP!Spec => []UP!OneInterruptInvariant
  BY UnitAssumptions, UP!OneInterruptInvariance
     DEF UP!CommandsAssumption, UP!BoundsAssumption, UP!InterruptAssumption
<1>4. UP!OneInterruptInvariant => U!OneInterruptInvariant
  BY SameUnitInvariant
<1> QED
  BY <1>1, <1>2, <1>3, <1>4, PTL DEF Spec, UP!Spec

\* While the worker serves, the request at the head is one of the clients'.
LEMMA HeadIsRequest ==
  ASSUME U!OneInterruptInvariant, upc = "service"
  PROVE  Head(MsgList) \in Requests
<1>1. Head(MsgList) = curr_req
  BY DEF U!OneInterruptInvariant, U!UnitInvariant, U!HeadIsCurrent, U!Serving
<1>2. curr_req \in Requests
  BY DEF U!OneInterruptInvariant, U!UnitInvariant, U!TypeOK
<1> QED
  BY <1>1, <1>2

-----------------------------------------------------------------------------
(* The queue of the unit.                                                  *)

LEMMA SameHeld == U!HeldQueue = UP!HeldQueue /\ U!HeadState = UP!HeadState
  BY DEF U!HeldQueue, UP!HeldQueue, U!HeadState, UP!HeadState

LEMMA SamePromise == U!Queueable = UP!Queueable /\ U!MustServe = UP!MustServe
  BY DEF U!Queueable, UP!Queueable, U!Transferring, UP!Transferring, U!MustServe, UP!MustServe

LEMMA SameQueue ==
  /\ U!Queue!Init <=> UP!Queue!Init
  /\ U!Queue!Next <=> UP!Queue!Next
  /\ (UNCHANGED U!Queue!vars <=> UNCHANGED UP!Queue!vars)
<1>1. U!HeldQueue = UP!HeldQueue /\ U!HeadState = UP!HeadState
  BY SameHeld
<1>2. U!HeldQueue' = UP!HeldQueue' /\ U!HeadState' = UP!HeadState'
  BY DEF U!HeldQueue, UP!HeldQueue, U!HeadState, UP!HeadState
<1>3. U!Queue!Init <=> UP!Queue!Init
  BY <1>1 DEF U!Queue!Init, UP!Queue!Init
<1>4. UNCHANGED U!Queue!vars <=> UNCHANGED UP!Queue!vars
  BY <1>1, <1>2 DEF U!Queue!vars, UP!Queue!vars
<1>5. U!Queue!Next <=> UP!Queue!Next
  BY <1>1, <1>2, SamePromise
     DEF U!Queue!Sends, UP!Queue!Sends, U!Queue!EndAtOnce, UP!Queue!EndAtOnce, U!Queue!Enqueue,
         UP!Queue!Enqueue, U!Queue!Abort, UP!Queue!Abort, U!Queue!Collect, UP!Queue!Collect,
         U!Queue!Take, UP!Queue!Take, U!Queue!Serve, UP!Queue!Serve, U!Queue!Finish,
         UP!Queue!Finish, U!Queue!PassOver, UP!Queue!PassOver, U!Queue!Reply, UP!Queue!Reply,
         U!Queue!Next, UP!Queue!Next
<1> QED
  BY <1>3, <1>4, <1>5

(* The owners of the requests see a queue: the cache, its callbacks and     *)
(* the commands that end at once keep the promise of RequestQueue.         *)
THEOREM QueueRefinement == Spec => U!ImplementsQueue
<1>1. Init => UP!Init
  BY UnitInit, SameUnit
<1>2. [Next]_vars => [UP!Next]_(UP!vars)
  BY UnitStep, SameUnit
<1>3. UP!Spec => UP!ImplementsQueue
  BY UnitAssumptions, UP!QueueRefinement
     DEF UP!CommandsAssumption, UP!BoundsAssumption, UP!InterruptAssumption
<1>4. UP!Queue!Init => U!Queue!Init
  BY SameQueue
<1>5. [UP!Queue!Next]_(UP!Queue!vars) => [U!Queue!Next]_(U!Queue!vars)
  BY SameQueue
<1> QED
  BY <1>1, <1>2, <1>3, <1>4, <1>5, PTL
     DEF Spec, UP!Spec, U!ImplementsQueue, UP!ImplementsQueue, U!Queue!Spec, UP!Queue!Spec

-----------------------------------------------------------------------------
(* What the worker finds in a request is what its client asked for, and    *)
(* the range check let it through.                                         *)

\* The buffer of a read is cleared.
Fits(x, c) ==
  /\ x = [offset |-> x.offset, sectors |-> x.sectors, data |-> x.data]
  /\ x.offset \in C!Block /\ x.sectors \in C!Block
  /\ x.data \in [0 .. x.sectors - 1 -> Data]
  /\ c = "CMD_READ" => x.data = [i \in 0 .. x.sectors - 1 |-> Zero]
  /\ x.sectors = 0 \/ ~NotEnoughSectors(x.offset, x.sectors)

RequestsFit ==
  /\ io = [r \in Requests |-> io[r]]
  /\ DOMAIN io_Command = Requests /\ DOMAIN client = Requests
  /\ \A r \in Requests :
       /\ client[r] = "idle" => io[r] = NoIO
       /\ Fits(io[r], io_Command[r])

LEMMA Disk ==
  /\ C!NumBlocks \in Nat \ {0}
  /\ C!DiskBlocks \in Nat
  /\ C!Block = 0 .. C!NumBlocks - 1
<1>1. C!NumBlocks \in Nat \ {0} /\ C!DiskBlocks \in Nat
  BY GeometryAssumption DEF C!NumBlocks, C!DiskBlocks
<1> QED
  BY <1>1 DEF C!Block, C!Store!Block

LEMMA NothingFits == \A c : Fits(NoIO, c)
<1>1. [i \in {} |-> Zero] = [i \in 0 .. 0 - 1 |-> Zero]
  OBVIOUS
<1>2. [i \in 0 .. 0 - 1 |-> Zero] \in [0 .. 0 - 1 -> Data]
  OBVIOUS
<1> QED
  BY <1>1, <1>2, Disk DEF Fits, NoIO

LEMMA FitInit == Init => RequestsFit
<1> SUFFICES ASSUME Init PROVE RequestsFit
  OBVIOUS
<1>1. DOMAIN io_Command = Requests /\ DOMAIN client = Requests
  BY DEF Init, U!Init
<1>2. io = [r \in Requests |-> io[r]] /\ \A r \in Requests : io[r] = NoIO
  BY DEF Init
<1> QED
  BY <1>1, <1>2, NothingFits DEF RequestsFit

\* A command that begins leaves the others alone, and io of its request too
\* unless it is a read or a write that is queued.
LEMMA FitBegin ==
  ASSUME RequestsFit, NEW r \in Requests, NEW c, NEW call, Begin(r, call, c),
         client' = [client EXCEPT ![r] = client'[r]],
         \/ UNCHANGED io
         \/ /\ client'[r] # "idle"
            /\ \E x : io' = [io EXCEPT ![r] = x] /\ Fits(x, c)
  PROVE  RequestsFit'
<1>1. /\ DOMAIN io_Command' = Requests /\ DOMAIN client' = Requests
      /\ io' = [x \in Requests |-> io'[x]]
      /\ io_Command'[r] = c
      /\ \A x \in Requests \ {r} : /\ io_Command'[x] = io_Command[x] /\ client'[x] = client[x]
                                  /\ io'[x] = io[x]
  BY DEF RequestsFit, Begin
<1>2. client'[r] = "idle" => io'[r] = NoIO
  BY DEF RequestsFit, Begin
<1>3. Fits(io'[r], c)
  BY NothingFits DEF RequestsFit, Begin
<1>4. \A x \in Requests : client'[x] = "idle" => io'[x] = NoIO
  BY <1>1, <1>2 DEF RequestsFit
<1>5. \A x \in Requests : Fits(io'[x], io_Command'[x])
  BY <1>1, <1>3 DEF RequestsFit
<1>6. \A x \in Requests : Fits(io[x], io_Command[x])'
  BY <1>5 DEF Fits, NotEnoughSectors, C!Block, C!NumBlocks, C!DiskBlocks, C!Store!Block
<1> QED
  BY <1>1, <1>4, <1>6 DEF RequestsFit

LEMMA FitReadOrWrite ==
  ASSUME RequestsFit, NEW r \in Requests, NEW call \in Calls, NEW c \in {"CMD_READ", "CMD_WRITE"},
         NEW offset \in C!Block, NEW n \in C!Block, NEW d \in [0 .. n - 1 -> Data],
         c = "CMD_READ" => d = [i \in 0 .. n - 1 |-> Zero],
         ReadOrWrite(r, call, c, offset, n, d)
  PROVE  RequestsFit'
<1>1. Begin(r, call, c) /\ DOMAIN client = Requests
  BY DEF ReadOrWrite, RequestsFit
<1>2. CASE Reject(r, call, c, offset, n) \/ ServeAtOnce(r, call, c, offset, n, d)
  <2>1. UNCHANGED io /\ client' = [client EXCEPT ![r] = client'[r]]
    BY <1>1, <1>2 DEF Reject, ServeAtOnce, U!EndCommand
  <2> QED
    BY <1>1, <2>1, FitBegin
<1>3. CASE ServeLater(r, call, c, offset, n, d)
  <2> DEFINE x == [offset |-> offset, sectors |-> n, data |-> d]
  <2>1. Fits(x, c)
    BY <1>3 DEF ServeLater, Fits
  <2>2. client' = [client EXCEPT ![r] = client'[r]] /\ client'[r] # "idle"
    BY <1>1, <1>3, CallsAssumption DEF ServeLater, U!QueueCommand
  <2>3. io' = [io EXCEPT ![r] = x]
    BY <1>3 DEF ServeLater
  <2> QED
    BY <1>1, <2>1, <2>2, <2>3, FitBegin
<1> QED
  BY <1>2, <1>3 DEF ReadOrWrite

LEMMA FitUpdateOrClear ==
  ASSUME RequestsFit, NEW r \in Requests, NEW call \in Calls, Update(r, call) \/ Clear(r, call)
  PROVE  RequestsFit'
<1>1. /\ DOMAIN client = Requests
      /\ \E c : Begin(r, call, c)
      /\ UNCHANGED io
  BY DEF Update, Clear, RequestsFit
<1>2. client' = [client EXCEPT ![r] = client'[r]]
  BY <1>1 DEF Update, Clear, U!QueueCommand, U!EndCommand
<1> QED
  BY <1>1, <1>2, FitBegin

LEMMA FitStep == RequestsFit /\ [Next]_vars => RequestsFit'
<1> SUFFICES ASSUME RequestsFit, [Next]_vars PROVE RequestsFit'
  OBVIOUS
<1>0. ASSUME UNCHANGED <<io_Command, io>>, DOMAIN client' = Requests,
             \A r \in Requests : client'[r] = "idle" => client[r] = "idle"
      PROVE  RequestsFit'
  BY <1>0 DEF RequestsFit, Fits, NotEnoughSectors, C!Block, C!NumBlocks, C!DiskBlocks, C!Store!Block
<1>1. CASE Writes
  <2>1. PICK r \in Requests, call \in Calls, offset \in C!Block, n \in C!Block,
             v \in Data : ReadOrWrite(r, call, "CMD_WRITE", offset, n, [i \in 0 .. n - 1 |-> v])
    BY <1>1 DEF Writes
  <2>2. [i \in 0 .. n - 1 |-> v] \in [0 .. n - 1 -> Data]
    OBVIOUS
  <2> QED
    BY <2>1, <2>2, FitReadOrWrite
<1>2. CASE Reads
  <2>1. PICK r \in Requests, call \in Calls, offset \in C!Block, n \in C!Block :
             ReadOrWrite(r, call, "CMD_READ", offset, n, [i \in 0 .. n - 1 |-> Zero])
    BY <1>2 DEF Reads
  <2>2. [i \in 0 .. n - 1 |-> Zero] \in [0 .. n - 1 -> Data]
    BY GeometryAssumption
  <2> QED
    BY <2>1, <2>2, FitReadOrWrite
<1>3. ASSUME NEW r \in Requests, NEW call \in Calls, Update(r, call) \/ Clear(r, call)
      PROVE  RequestsFit'
  BY <1>3, FitUpdateOrClear
<1>4. ASSUME NEW r \in Requests, Abort(r) PROVE RequestsFit'
  BY <1>0, <1>4 DEF Abort, U!AbortIO, RequestsFit
<1>5. ASSUME NEW r \in Requests, Collect(r) PROVE RequestsFit'
  <2>1. /\ UNCHANGED io_Command
        /\ client' = [client EXCEPT ![r] = "idle"] /\ io' = [io EXCEPT ![r] = NoIO]
    BY <1>5 DEF Collect, U!WaitIO, U!request
  <2>2. \A x \in Requests : /\ client'[x] = "idle" => io'[x] = NoIO
                           /\ Fits(io'[x], io_Command'[x])
    BY <2>1, NothingFits DEF RequestsFit
  <2> QED
    BY <2>1, <2>2 DEF RequestsFit, Fits, NotEnoughSectors, C!Block, C!NumBlocks, C!DiskBlocks, C!Store!Block
<1>6. CASE CheckPort
  <2>1. UNCHANGED <<io_Command, io>>
    BY <1>6 DEF CheckPort, U!TakeHead, U!ProcessRequest, U!FinishRequest, U!DropAborted, U!ReplyMsg,
                U!request
  <2>2. UNCHANGED client \/ client' = [client EXCEPT ![curr_req] = "replied"]
    BY <1>6 DEF CheckPort, U!TakeHead, U!ProcessRequest, U!FinishRequest, U!DropAborted, U!ReplyMsg
  <2> QED
    BY <1>0, <2>1, <2>2 DEF RequestsFit
<1>7. CASE Worker /\ ~CheckPort
  <2>1. UNCHANGED <<io_Command, client, io>>
    BY <1>7 DEF Worker, CallCache, CallSync, CopyLoop, StartCallback, EndCallback, CacheReturns, unit,
                U!StartTransfer, U!CallbackReturns, U!CacheReturns, U!request
  <2> QED
    BY <1>0, <2>1 DEF RequestsFit
<1>8. CASE Sector \/ Completes \/ Interrupt \/ UNCHANGED vars
  <2>1. UNCHANGED <<io_Command, client, io>>
    BY <1>8 DEF Sector, TransfersSector, Completes, Interrupt, vars, unit, U!DeviceCompletes,
                U!IRQServer, U!request
  <2> QED
    BY <1>0, <2>1 DEF RequestsFit
<1> QED
  BY <1>1, <1>2, <1>3, <1>4, <1>5, <1>6, <1>7, <1>8 DEF Next, Client

-----------------------------------------------------------------------------
(* Each step is a step of the cache, or none of its variables changes.     *)

LEMMA CacheInit == Init => C!Init
  BY DEF Init

\* A hit that is written is one of the writes the cache expects of clients.
LEMMA HitIsClientWrite ==
  ASSUME NEW offset \in C!Block, NEW n \in C!Block, NEW d \in [0 .. n - 1 -> Data],
         C!QuickWrite(offset, n, d)
  PROVE  C!Next
BY DEF C!QuickWrite, C!ClientWrites, C!Next

\* The request the worker serves is one the cache expects.
LEMMA CallIsStart ==
  ASSUME U!OneInterruptInvariant, RequestsFit, CallCache
  PROVE  C!Next
<1> DEFINE r == Head(MsgList)
<1>1. Fits(io[r], io_Command[r])
  BY HeadIsRequest DEF CallCache, RequestsFit
<1>2. CASE io_Command[r] = "CMD_READ"
  <2>1. C!StartTransfer("read", io[r].offset, io[r].sectors, [i \in 0 .. io[r].sectors - 1 |-> Zero])
    BY <1>1, <1>2 DEF CallCache, Fits
  <2> QED
    BY <1>1, <2>1 DEF Fits, C!StartTransfer, C!Start, C!Next
<1>3. CASE io_Command[r] # "CMD_READ"
  <2>1. C!StartTransfer("write", io[r].offset, io[r].sectors, io[r].data)
    BY <1>3 DEF CallCache
  <2> QED
    BY <1>1, <2>1 DEF Fits, C!StartTransfer, C!Start, C!Next
<1> QED
  BY <1>2, <1>3

LEMMA CacheStep ==
  U!OneInterruptInvariant /\ RequestsFit /\ [Next]_vars => [C!Next]_(C!vars)
<1> SUFFICES ASSUME U!OneInterruptInvariant, RequestsFit, [Next]_vars PROVE [C!Next]_(C!vars)
  OBVIOUS
<1>0. UNCHANGED cache => UNCHANGED C!vars
  BY DEF cache, C!vars, C!cacheVars, C!loopVars
<1>1. ASSUME NEW r \in Requests, NEW call \in Calls, NEW c, NEW offset \in C!Block,
             NEW n \in C!Block, NEW d \in [0 .. n - 1 -> Data],
             ReadOrWrite(r, call, c, offset, n, d)
      PROVE  C!Next \/ UNCHANGED C!vars
  BY <1>0, <1>1, HitIsClientWrite DEF ReadOrWrite, Reject, ServeAtOnce, ServeLater
<1>2. CASE Writes
  <2>1. PICK r \in Requests, call \in Calls, offset \in C!Block, n \in C!Block,
             v \in Data : ReadOrWrite(r, call, "CMD_WRITE", offset, n, [i \in 0 .. n - 1 |-> v])
    BY <1>2 DEF Writes
  <2>2. [i \in 0 .. n - 1 |-> v] \in [0 .. n - 1 -> Data]
    OBVIOUS
  <2> QED
    BY <1>1, <2>1, <2>2
<1>3. CASE Reads
  <2>1. PICK r \in Requests, call \in Calls, offset \in C!Block, n \in C!Block :
             ReadOrWrite(r, call, "CMD_READ", offset, n, [i \in 0 .. n - 1 |-> Zero])
    BY <1>3 DEF Reads
  <2>2. [i \in 0 .. n - 1 |-> Zero] \in [0 .. n - 1 -> Data]
    BY GeometryAssumption
  <2> QED
    BY <1>1, <2>1, <2>2
<1>4. ASSUME NEW r \in Requests,
             (\E call \in Calls : Update(r, call) \/ Clear(r, call)) \/ Abort(r) \/ Collect(r)
      PROVE  C!Next \/ UNCHANGED C!vars
  BY <1>0, <1>4 DEF Update, Clear, Abort, Collect, C!Next
<1>5. CASE CheckPort
  BY <1>0, <1>5 DEF CheckPort
<1>6. CASE CallCache
  BY <1>6, CallIsStart
<1>7. CASE CallSync \/ CopyLoop \/ StartCallback \/ EndCallback \/ CacheReturns
  BY <1>7 DEF CallSync, CopyLoop, StartCallback, EndCallback, CacheReturns, C!StartSync, C!Start,
              C!Loop, C!Next
<1>8. CASE Sector
  <2>1. PICK s \in C!Slot : C!SourceReads(s, chains > 1) \/ C!SourceWrites(s, chains > 1)
    BY <1>8 DEF Sector, TransfersSector
  <2>2. CASE chains > 1
    <3>1. C!SourceReads(s, TRUE) \/ C!SourceWrites(s, TRUE)
      BY <2>1, <2>2 DEF C!SourceReads, C!SourceWrites
    <3> QED
      BY <3>1 DEF C!Source, C!Next
  <2>3. CASE ~(chains > 1)
    <3>1. C!SourceReads(s, FALSE) \/ C!SourceWrites(s, FALSE)
      BY <2>1, <2>3 DEF C!SourceReads, C!SourceWrites
    <3> QED
      BY <3>1 DEF C!Source, C!Next
  <2> QED
    BY <2>2, <2>3
<1>9. CASE Completes \/ Interrupt
  BY <1>0, <1>9 DEF Completes, Interrupt
<1>10. CASE UNCHANGED vars
  BY <1>0, <1>10 DEF vars
<1> QED
  BY <1>2, <1>3, <1>4, <1>5, <1>6, <1>7, <1>8, <1>9, <1>10 DEF Next, Client, Worker

(* The requests the unit queues and the moments at which it lets clients   *)
(* run are those the cache expects, whatever the geometry of the disk.     *)
THEOREM CacheRefinement == Spec => ImplementsCache
<1>1. Init => C!Init
  BY CacheInit
<1>2. RequestsFit /\ [Next]_vars => RequestsFit'
  BY FitStep
<1>3. U!OneInterruptInvariant /\ RequestsFit /\ [Next]_vars => [C!Next]_(C!vars)
  BY CacheStep
<1>4. Init => RequestsFit
  BY FitInit
<1> QED
  BY <1>1, <1>2, <1>3, <1>4, UnitInvariance, PTL DEF Spec, ImplementsCache, C!Spec

-----------------------------------------------------------------------------
(* The invariant of the cache.                                             *)

LEMMA SameCache ==
  (C!Init <=> CP!Init) /\ (C!Next <=> CP!Next) /\ (UNCHANGED C!vars <=> UNCHANGED CP!vars)
  BY DEF C!cacheVars, CP!cacheVars, C!loopVars, CP!loopVars, C!vars, CP!vars, C!NumBlocks,
         CP!NumBlocks, C!DiskBlocks, CP!DiskBlocks, C!Fetched, CP!Fetched, C!Track, CP!Track, C!Slot, CP!Slot, C!Block, CP!Block, C!TrackOf,
         CP!TrackOf, C!SectorOf, CP!SectorOf, C!BlockAt, CP!BlockAt, C!NoXfer, CP!NoXfer, C!Idle,
         CP!Idle, C!Preempted, CP!Preempted, C!WritingBack, CP!WritingBack, C!Init, CP!Init,
         C!CacheHit, CP!CacheHit, C!CacheDirty, CP!CacheDirty, C!Copied, CP!Copied,
         C!StartTransfer, CP!StartTransfer, C!InCache, CP!InCache, C!ToTrackEnd, CP!ToTrackEnd,
         C!CopyOut, CP!CopyOut, C!CopyIn, CP!CopyIn, C!Finish, CP!Finish, C!NextTrack,
         CP!NextTrack, C!Copy, CP!Copy, C!CopyWithinTrack, CP!CopyWithinTrack, C!CopyToTrackEnd,
         CP!CopyToTrackEnd, C!WriteBack, CP!WriteBack, C!CoversTrack, CP!CoversTrack,
         C!FillWholeTrack, CP!FillWholeTrack, C!ReadTrack, CP!ReadTrack, C!ReadCallbackReturns,
         CP!ReadCallbackReturns, C!WriteCallbackReturns, CP!WriteCallbackReturns, C!StartSync,
         CP!StartSync, C!SyncCallbackReturns, CP!SyncCallbackReturns, C!Return, CP!Return,
         C!SourceReads, CP!SourceReads, C!SourceWrites, CP!SourceWrites, C!QuickWrite,
         CP!QuickWrite, C!Cached, CP!Cached, C!InFlight, CP!InFlight, C!Discard, CP!Discard,
         C!Loop, CP!Loop, C!CallbackReturns, CP!CallbackReturns, C!Source, CP!Source,
         C!SourceDone, CP!SourceDone, C!Start, CP!Start, C!ClientWrites, CP!ClientWrites, C!Next,
         CP!Next, C!Store!Block, CP!Store!Block, C!Store!NoRequest, CP!Store!NoRequest,
         C!Store!Put, CP!Store!Put, C!Store!At, CP!Store!At, C!Store!After, CP!Store!After,
         C!Store!Run, CP!Store!Run

LEMMA SameCacheInvariant == CP!CacheInvariant <=> C!CacheInvariant
  BY DEF C!CacheInvariant, CP!CacheInvariant, C!TypeOK, CP!TypeOK, C!Coherence, CP!Coherence,
         C!RequestProgress, CP!RequestProgress, C!CallbackProgress, CP!CallbackProgress, C!Idle,
         CP!Idle, C!WritingBack, CP!WritingBack, C!InFlight, CP!InFlight, C!Cached, CP!Cached,
         C!TrackOf, CP!TrackOf, C!SectorOf, CP!SectorOf, C!BlockAt, CP!BlockAt, C!Track,
         CP!Track, C!Slot, CP!Slot, C!Block, CP!Block, C!NumBlocks, CP!NumBlocks, C!Store!Block,
         CP!Store!Block, C!Store!NoRequest, CP!Store!NoRequest, C!Store!Request,
         CP!Store!Request, C!Store!At, CP!Store!At

LEMMA SameCacheStep == [C!Next]_(C!vars) => [CP!Next]_(CP!vars)
  BY SameCache

LEMMA CacheInvariance == Spec => []C!CacheInvariant
<1>1. Spec => C!Spec
  BY CacheRefinement DEF ImplementsCache
<1>2. C!Init => CP!Init
  BY SameCache
<1>3. [C!Next]_(C!vars) => [CP!Next]_(CP!vars)
  BY SameCacheStep
<1>4. CP!Spec => []CP!CacheInvariant
  BY GeometryAssumption, CP!Invariance DEF CP!GeometryAssumption, CP!ZeroAssumption
<1>5. CP!CacheInvariant => C!CacheInvariant
  BY SameCacheInvariant
<1> QED
  BY <1>1, <1>2, <1>3, <1>4, <1>5, PTL DEF C!Spec, CP!Spec

-----------------------------------------------------------------------------
(* The block store.                                                        *)

LEMMA SameStore ==
  /\ C!Store!Init <=> CP!Store!Init
  /\ C!Store!Next <=> CP!Store!Next
  /\ (UNCHANGED C!Store!vars <=> UNCHANGED CP!Store!vars)
  BY DEF C!NumBlocks, CP!NumBlocks, C!Store!vars, CP!Store!vars, C!Store!Block, CP!Store!Block,
         C!Store!NoRequest, CP!Store!NoRequest, C!Store!Request, CP!Store!Request, C!Store!Put,
         CP!Store!Put, C!Store!Init, CP!Store!Init, C!Store!Begin, CP!Store!Begin, C!Store!ReadSome,
         CP!Store!ReadSome, C!Store!WriteSome, CP!Store!WriteSome, C!Store!End, CP!Store!End,
         C!Store!ClientWrite, CP!Store!ClientWrite, C!Store!ClientDiscard, CP!Store!ClientDiscard,
         C!Store!Save, CP!Store!Save, C!Store!Next, CP!Store!Next, C!Store!At, CP!Store!At,
         C!Store!After, CP!Store!After, C!Store!Run, CP!Store!Run, C!Store!Astray,
         CP!Store!Astray, C!DiskBlocks, CP!DiskBlocks

(* Under the commands of any number of clients, queued, aborted or served  *)
(* at once, the cache is the block store of its specification.             *)
THEOREM StoreRefinement == Spec => C!ImplementsStore
<1>1. Spec => C!Spec
  BY CacheRefinement DEF ImplementsCache
<1>2. C!Init => CP!Init
  BY SameCache
<1>3. [C!Next]_(C!vars) => [CP!Next]_(CP!vars)
  BY SameCacheStep
<1>4. CP!Spec => CP!ImplementsStore
  BY GeometryAssumption, CP!Refinement DEF CP!GeometryAssumption, CP!ZeroAssumption
<1>5. CP!Store!Init => C!Store!Init
  BY SameStore
<1>6. [CP!Store!Next]_(CP!Store!vars) => [C!Store!Next]_(C!Store!vars)
  BY SameStore
<1> QED
  BY <1>1, <1>2, <1>3, <1>4, <1>5, <1>6, PTL
     DEF C!Spec, CP!Spec, C!ImplementsStore, CP!ImplementsStore, C!Store!Spec, CP!Store!Spec

-----------------------------------------------------------------------------
(* The worker and the cache.                                               *)

\* With the types of the unit, and one transfer with the device at a time.
LEMMA InStepStep == U!OneInterruptInvariant /\ InStep /\ [Next]_vars => InStep'
<1> SUFFICES ASSUME U!OneInterruptInvariant, InStep, [Next]_vars PROVE InStep'
  OBVIOUS
<1>1. /\ upc \in {"check", "process", "service", "wait", "finish", "reply"}
      /\ upc # "wait" => ~isr /\ ~wakeup
      /\ chains > 0 => ~isr /\ ~wakeup
  BY DEF U!OneInterruptInvariant, U!UnitInvariant, U!TypeOK, U!OneTransfer
<1> USE DEF InStep, U!ClientRuns, C!Preempted
<1>2. ASSUME UNCHANGED <<upc, cpc, xfer, isr, wakeup>> PROVE InStep'
  BY <1>2
<1>3. CASE Client
  <2>1. ASSUME NEW r, NEW call, NEW c, NEW offset, NEW n, NEW d, ReadOrWrite(r, call, c, offset, n, d)
        PROVE  UNCHANGED <<upc, cpc, xfer, isr, wakeup>>
    BY <2>1 DEF ReadOrWrite, Begin, Reject, ServeAtOnce, ServeLater, worker, device, cache, C!QuickWrite
  <2>2. ASSUME NEW r, NEW call, Update(r, call) \/ Clear(r, call)
        PROVE  UNCHANGED <<upc, cpc, xfer, isr, wakeup>>
    BY <2>2 DEF Update, Clear, Begin, worker, device, cache, C!Discard
  <2>3. ASSUME NEW r, Abort(r) \/ Collect(r)
        PROVE  UNCHANGED <<upc, cpc, xfer, isr, wakeup>>
    BY <2>3 DEF Abort, Collect, U!AbortIO, U!WaitIO, U!worker, U!device, cache
  <2> QED
    BY <1>2, <1>3, <2>1, <2>2, <2>3 DEF Client, Writes, Reads
<1>4. CASE CheckPort
  <2>1. UNCHANGED <<cpc, xfer, isr, wakeup>>
    BY <1>4 DEF CheckPort, cache, U!TakeHead, U!ProcessRequest, U!FinishRequest, U!DropAborted,
                U!ReplyMsg, U!device
  <2>2. upc \notin {"service", "wait"} /\ upc' # "wait"
    BY <1>4 DEF CheckPort, U!TakeHead, U!ProcessRequest, U!FinishRequest, U!DropAborted, U!ReplyMsg
  <2> QED
    BY <2>1, <2>2
<1>5. CASE CallCache
  <2>1. upc = "service" /\ UNCHANGED <<upc, isr, wakeup, xfer>> /\ cpc' = "loop"
    BY <1>5 DEF CallCache, unit, worker, device, C!StartTransfer
  <2> QED
    BY <1>1, <2>1
<1>6. CASE CallSync
  <2>1. upc = "service" /\ UNCHANGED <<isr, wakeup>>
    BY <1>6 DEF CallSync, unit, device, U!StartTransfer
  <2>2. \/ cpc' = "syncing" /\ upc' = "wait"
        \/ cpc' = "done" /\ upc' = "service"
    BY <1>6, <2>1 DEF CallSync, C!StartSync, U!StartTransfer, unit, worker
  <2> QED
    BY <1>1, <2>1, <2>2
<1>7. CASE CopyLoop
  <2>1. upc = "service" /\ UNCHANGED <<upc, isr, wakeup, xfer>>
    BY <1>7 DEF CopyLoop, unit, worker, device, C!CopyWithinTrack, C!CopyToTrackEnd, C!FillWholeTrack
  <2>2. cpc' \in {"loop", "done"}
    BY <1>7 DEF CopyLoop, C!CopyWithinTrack, C!CopyToTrackEnd, C!FillWholeTrack, C!Finish, C!NextTrack
  <2> QED
    BY <1>1, <2>1, <2>2
<1>8. CASE StartCallback
  <2>1. upc = "service" /\ upc' = "wait" /\ UNCHANGED <<isr, wakeup>>
    BY <1>8 DEF StartCallback, U!StartTransfer
  <2>2. cpc' \in {"reading", "writing"}
    BY <1>8 DEF StartCallback, C!WriteBack, C!ReadTrack
  <2> QED
    BY <1>1, <2>1, <2>2
<1>9. CASE EndCallback
  <2>1. upc' = "service" /\ cpc' \in {"loop", "done"} /\ xfer'.left = {}
    BY <1>9 DEF EndCallback, U!CallbackReturns, C!CallbackReturns, C!ReadCallbackReturns,
                C!WriteCallbackReturns, C!SyncCallbackReturns, C!NoXfer
  <2> QED
    BY <2>1
<1>10. CASE CacheReturns
  <2>1. upc = "service" /\ upc' = "finish" /\ cpc' = "idle" /\ UNCHANGED <<isr, wakeup, xfer>>
    BY <1>10 DEF CacheReturns, U!CacheReturns, U!device, C!Return
  <2> QED
    BY <1>1, <2>1
<1>11. CASE Sector
  <2>1. chains > 0 /\ UNCHANGED <<upc, cpc, isr, wakeup>>
    BY <1>11 DEF Sector, TransfersSector, unit, worker, device, C!SourceReads, C!SourceWrites
  <2> QED
    BY <1>1, <2>1
<1>12. CASE Completes
  <2>1. UNCHANGED <<upc, cpc, xfer, wakeup>>
    BY <1>12 DEF Completes, cache, U!DeviceCompletes, U!worker
  <2>2. isr' => isr \/ xfer.left = {}
    BY <1>12 DEF Completes, U!DeviceCompletes
  <2> QED
    BY <2>1, <2>2
<1>13. CASE Interrupt
  <2>1. UNCHANGED <<upc, cpc, xfer>> /\ isr
    BY <1>13 DEF Interrupt, cache, U!IRQServer, U!worker
  <2> QED
    BY <2>1
<1>14. CASE UNCHANGED vars
  BY <1>2, <1>14 DEF vars, unit, cache, worker, device
<1> QED
  BY <1>3, <1>4, <1>5, <1>6, <1>7, <1>8, <1>9, <1>10, <1>11, <1>12, <1>13, <1>14 DEF Next, Worker

(* Clients run when the cache may be called, and only then, and the        *)
(* signal comes when the track has been transferred.                       *)
THEOREM WorkerInStep == Spec => []InStep
<1>1. Init => InStep
  BY DEF Init, InStep, U!Init, U!ClientRuns, C!Init, C!NoXfer, C!Preempted
<1>2. U!OneInterruptInvariant /\ InStep /\ [Next]_vars => InStep'
  BY InStepStep
<1> QED
  BY <1>1, <1>2, UnitInvariance, PTL DEF Spec

-----------------------------------------------------------------------------
(* The range check.                                                        *)

\* The request in the cache passed the check, if it asks for anything.
RequestChecked ==
  creq.op \in {"read", "write"} =>
    /\ creq.offset \in C!Block /\ creq.sectors \in C!Block
    /\ creq.sectors = 0 \/ ~NotEnoughSectors(creq.offset, creq.sectors)

LEMMA CheckedStep == U!OneInterruptInvariant /\ RequestsFit /\ RequestChecked /\ [Next]_vars => RequestChecked'
<1> SUFFICES ASSUME U!OneInterruptInvariant, RequestsFit, RequestChecked, [Next]_vars
             PROVE  RequestChecked'
  OBVIOUS
<1>1. CASE UNCHANGED creq
  BY <1>1 DEF RequestChecked, NotEnoughSectors, C!Block, C!NumBlocks, C!DiskBlocks, C!Store!Block
<1>2. CASE CallCache
  <2> DEFINE x == io[Head(MsgList)]
  <2>1. Fits(x, io_Command[Head(MsgList)])
    BY <1>2, HeadIsRequest DEF CallCache, RequestsFit
  <2>2. creq'.offset = x.offset /\ creq'.sectors = x.sectors
    BY <1>2 DEF CallCache, C!StartTransfer
  <2> QED
    BY <2>1, <2>2 DEF Fits, RequestChecked, NotEnoughSectors, C!Block, C!NumBlocks, C!DiskBlocks,
                      C!Store!Block
<1>3. CASE CallSync \/ CacheReturns
  <2>1. creq'.op \in {"sync", "none"}
    BY <1>3 DEF CallSync, CacheReturns, C!StartSync, C!Return, C!Store!NoRequest
  <2> QED
    BY <2>1 DEF RequestChecked
<1>4. CASE Client
  <2>1. ASSUME NEW r, NEW call, NEW c, NEW offset, NEW n, NEW d, ReadOrWrite(r, call, c, offset, n, d)
        PROVE  UNCHANGED creq
    BY <2>1 DEF ReadOrWrite, Reject, ServeAtOnce, ServeLater, cache, C!QuickWrite, C!loopVars
  <2>2. ASSUME NEW r, NEW call, Update(r, call) \/ Clear(r, call) PROVE UNCHANGED creq
    BY <2>2 DEF Update, Clear, cache, C!Discard, C!loopVars
  <2>3. ASSUME NEW r, Abort(r) \/ Collect(r) PROVE UNCHANGED creq
    BY <2>3 DEF Abort, Collect, cache
  <2> QED
    BY <1>1, <1>4, <2>1, <2>2, <2>3 DEF Client, Writes, Reads
<1>5. CASE Worker /\ ~(CallCache \/ CallSync \/ CacheReturns)
  BY <1>1, <1>5 DEF Worker, CheckPort, CopyLoop, StartCallback, EndCallback, cache, C!CopyWithinTrack,
     C!CopyToTrackEnd, C!FillWholeTrack, C!WriteBack, C!ReadTrack, C!CallbackReturns,
     C!ReadCallbackReturns, C!WriteCallbackReturns, C!SyncCallbackReturns, C!loopVars
<1>6. CASE Sector \/ Completes \/ Interrupt \/ UNCHANGED vars
  BY <1>1, <1>6 DEF Sector, TransfersSector, Completes, Interrupt, vars, cache, C!SourceReads,
     C!SourceWrites, C!loopVars
<1> QED
  BY <1>2, <1>3, <1>4, <1>5, <1>6 DEF Next

\* A block before the end of the disk is in a track before it.
LEMMA TrackOnDisk ==
  ASSUME NEW b \in Nat, b < C!DiskBlocks
  PROVE  C!TrackOf(b) < DiskTracks
<1>1. /\ C!TrackOf(b) \in Nat
      /\ C!TrackOf(b) * CacheNumBlocks <= b
  BY GeometryAssumption DEF C!TrackOf
<1>2. DiskTracks \in Nat /\ CacheNumBlocks \in Nat
  BY GeometryAssumption
<1>3. \A m, n, k \in Nat : m <= n => m * k <= n * k
  OBVIOUS
<1> SUFFICES ASSUME DiskTracks <= C!TrackOf(b) PROVE FALSE
  BY <1>1, <1>2
<1>4. DiskTracks * CacheNumBlocks <= C!TrackOf(b) * CacheNumBlocks
  BY <1>1, <1>2, <1>3
<1>5. DiskTracks * CacheNumBlocks \in Nat /\ C!TrackOf(b) * CacheNumBlocks \in Nat
  BY <1>1, <1>2
<1> QED
  BY <1>1, <1>4, <1>5 DEF C!DiskBlocks

\* What is left of a request that passed the check starts on the disk.
LEMMA FillOnDisk ==
  ASSUME C!CacheInvariant, CP!FillsItsTrack, CP!SomethingRemains, RequestChecked
  PROVE  FillsFromDisk
<1> SUFFICES ASSUME cpc = "reading", ~Slips(creq.offset, creq.sectors)
             PROVE  xfer.track < DiskTracks
  BY DEF FillsFromDisk
<1>1. /\ creq.op \in {"read", "write"} /\ actual \in Nat /\ remain \in Nat
      /\ block_offset = C!Store!At(creq.offset, actual) /\ remain = creq.sectors - actual
      /\ xfer.track = CacheNum
  BY DEF C!CacheInvariant, C!TypeOK, C!RequestProgress, C!CallbackProgress
<1>2. xfer.track = C!TrackOf(block_offset)
  BY <1>1 DEF CP!FillsItsTrack, CP!TrackOf, C!TrackOf
<1>3. /\ creq.offset \in 0 .. C!NumBlocks - 1 /\ creq.sectors \in 0 .. C!NumBlocks - 1
      /\ creq.sectors # 0
      /\ ~((creq.offset + creq.sectors - 1) % C!NumBlocks >= C!DiskBlocks)
  BY <1>1, Disk DEF RequestChecked, Slips, NotEnoughSectors
<1>4. remain > 0
  BY <1>1, <1>3 DEF CP!SomethingRemains
<1> DEFINE last == creq.offset + creq.sectors - 1
<1>5. last \in 0 .. C!NumBlocks - 1
  <2>1. ~(creq.offset + creq.sectors > C!NumBlocks) /\ creq.sectors # 0
    BY DEF Slips
  <2>2. creq.offset \in Nat /\ creq.sectors \in Nat /\ C!NumBlocks \in Nat
    BY <1>3, Disk
  <2> QED
    BY <2>1, <2>2
<1>6. (creq.offset + creq.sectors - 1) % C!NumBlocks = creq.offset + creq.sectors - 1
  <2> HIDE DEF last
  <2>1. last % C!NumBlocks = last
    BY <1>5, Disk
  <2> QED
    BY <2>1 DEF last
<1>7. creq.offset + actual < C!DiskBlocks /\ creq.offset + actual < C!NumBlocks
      /\ creq.offset + actual \in Nat
  <2>1. creq.offset + creq.sectors - 1 < C!DiskBlocks
    BY <1>3, <1>6, Disk
  <2>2. creq.offset \in Nat /\ creq.sectors \in Nat /\ actual <= creq.sectors - 1
    BY <1>1, <1>3, <1>4, Disk
  <2>3. actual \in Nat /\ C!NumBlocks \in Nat /\ C!DiskBlocks \in Nat
    BY <1>1, Disk
  <2>4. creq.offset + actual <= last
    BY <2>2, <2>3
  <2> QED
    BY <1>5, <2>1, <2>2, <2>3, <2>4
<1>8. block_offset = creq.offset + actual
  BY <1>1, <1>7 DEF C!Store!At
<1> QED
  BY <1>2, <1>7, <1>8, TrackOnDisk

(* The range check holds what it lets through on the disk, for any offset  *)
(* and length a client asks for but the two kinds that slip through it.    *)
THEOREM RangeChecked == Spec => []FillsFromDisk
<1>1. Init => RequestChecked
  BY DEF Init, C!Init, RequestChecked, C!Store!NoRequest
<1>2. U!OneInterruptInvariant /\ RequestsFit /\ RequestChecked /\ [Next]_vars => RequestChecked'
  BY CheckedStep
<1>3. Init => RequestsFit
  BY FitInit
<1>4. RequestsFit /\ [Next]_vars => RequestsFit'
  BY FitStep
<1>5. Spec => C!Spec
  BY CacheRefinement DEF ImplementsCache
<1>6. C!Init => CP!Init
  BY SameCache
<1>7. [C!Next]_(C!vars) => [CP!Next]_(CP!vars)
  BY SameCacheStep
<1>8. CP!Spec => [](CP!FillsItsTrack /\ CP!SomethingRemains)
  BY GeometryAssumption, CP!LoopInvariance DEF CP!GeometryAssumption, CP!ZeroAssumption
<1>9. C!CacheInvariant /\ CP!FillsItsTrack /\ CP!SomethingRemains /\ RequestChecked => FillsFromDisk
  BY FillOnDisk
<1> QED
  BY <1>1, <1>2, <1>3, <1>4, <1>5, <1>6, <1>7, <1>8, <1>9, UnitInvariance, CacheInvariance, PTL
     DEF Spec, C!Spec, CP!Spec

-----------------------------------------------------------------------------
(* CMD_UPDATE.                                                             *)

\* Every block owed to a request is one that a running write-back will save.
Saved(r) == \A b \in owed[r] : C!InFlight(b)

\* The blocks owed are unsaved; when the cache has served an update, what is
\* still owed to it is being saved.
OwedInvariant ==
  /\ owed = [r \in Requests |-> owed[r]]
  /\ \A r \in Requests : \A b \in owed[r] : b \in C!Block /\ content[b] # disk[b]
  /\ UpdateSaves
  /\ upc = "finish" \/ (upc = "reply" /\ io_Error[curr_req] = "0")
       => (io_Command[curr_req] = "CMD_UPDATE" => Saved(curr_req))
  /\ upc \in {"service", "wait"} /\ cpc # "idle"
       => (io_Command[curr_req] = "CMD_UPDATE" => cpc \in {"syncing", "done"} /\ Saved(curr_req))

\* A block in flight stays in flight until it is saved.
LEMMA SavedStaysSaved ==
  ASSUME C!CacheInvariant, OwedInvariant, StillOwed, [C!Next]_(C!vars),
         NEW r \in Requests, Saved(r)
  PROVE  Saved(r)'
<1> SUFFICES ASSUME NEW b \in owed'[r] PROVE C!InFlight(b)'
  BY DEF Saved
<1>1. b \in owed[r] /\ content'[b] = content[b] /\ disk'[b] # content'[b]
  BY DEF StillOwed
<1>2. b \in C!Block /\ C!InFlight(b) /\ C!WritingBack /\ C!SectorOf(b) \in xfer.left
  BY <1>1 DEF OwedInvariant, Saved, C!InFlight
<1>3. ASSUME UNCHANGED <<cpc, xfer>> PROVE C!InFlight(b)'
  BY <1>2, <1>3 DEF C!InFlight, C!WritingBack, C!TrackOf, C!SectorOf
<1>4. CASE C!Start \/ C!Loop \/ C!CallbackReturns \/ C!Return
  BY <1>2, <1>4 DEF C!WritingBack, C!Start, C!StartTransfer, C!StartSync, C!Idle, C!Loop,
     C!CopyWithinTrack, C!CopyToTrackEnd, C!WriteBack, C!FillWholeTrack, C!ReadTrack, C!Return,
     C!CallbackReturns, C!ReadCallbackReturns, C!WriteCallbackReturns, C!SyncCallbackReturns
<1>5. CASE C!Source
  <2>1. PICK s \in C!Slot, again \in BOOLEAN : C!SourceWrites(s, again)
    BY <1>2, <1>5 DEF C!Source, C!SourceReads, C!WritingBack
  <2>2. CASE s = C!SectorOf(b)
    <3>1. C!BlockAt(xfer.track, s) = b
      <4>1. b \in CP!Block
        BY <1>2 DEF C!Block, CP!Block, C!Store!Block, CP!Store!Block, C!NumBlocks, CP!NumBlocks
      <4>2. CP!BlockAt(CP!TrackOf(b), CP!SectorOf(b)) = b
        BY <4>1, CP!TrackSector, GeometryAssumption DEF CP!GeometryAssumption, CP!ZeroAssumption
      <4>3. C!BlockAt(C!TrackOf(b), C!SectorOf(b)) = CP!BlockAt(CP!TrackOf(b), CP!SectorOf(b))
        BY DEF C!BlockAt, CP!BlockAt, C!TrackOf, CP!TrackOf, C!SectorOf, CP!SectorOf
      <4> QED
        BY <1>2, <2>2, <4>2, <4>3 DEF C!InFlight
    <3>2. disk'[b] = CacheBuffer[s]
      BY <1>2, <2>1, <3>1 DEF C!SourceWrites, C!CacheInvariant, C!TypeOK
    <3>3. CacheBuffer[s] = content[b]
      BY <1>2, <2>2 DEF C!CacheInvariant, C!Coherence
    <3> QED
      BY <1>1, <3>2, <3>3
  <2>3. CASE s # C!SectorOf(b)
    <3>1. xfer'.track = xfer.track /\ C!SectorOf(b) \in xfer'.left /\ UNCHANGED cpc
      BY <1>2, <2>1, <2>3 DEF C!SourceWrites, C!CacheInvariant, C!TypeOK
    <3> QED
      BY <1>2, <3>1 DEF C!InFlight, C!WritingBack, C!TrackOf, C!SectorOf
  <2> QED
    BY <2>2, <2>3
<1>6. CASE C!ClientWrites \/ C!Discard \/ UNCHANGED C!vars
  <2>1. UNCHANGED <<cpc, xfer>>
    BY <1>6 DEF C!ClientWrites, C!QuickWrite, C!Discard, C!vars
  <2> QED
    BY <1>3, <2>1
<1> QED
  BY <1>4, <1>5, <1>6 DEF C!Next

\* What every step but the beginning of an update keeps.
LEMMA OwedKept ==
  ASSUME C!CacheInvariant, OwedInvariant, StillOwed, [C!Next]_(C!vars)
  PROVE  /\ owed' = [r \in Requests |-> owed'[r]]
         /\ \A r \in Requests : \A b \in owed'[r] : b \in C!Block /\ content'[b] # disk'[b]
         /\ \A r \in Requests : Saved(r) => Saved(r)'
<1>1. owed' = [r \in Requests |-> owed'[r]]
  BY DEF StillOwed
<1>2. \A r \in Requests : \A b \in owed'[r] : b \in C!Block /\ content'[b] # disk'[b]
  BY DEF StillOwed, OwedInvariant
<1> QED
  BY <1>1, <1>2, SavedStaysSaved

\* Nothing is in flight when the worker is not inside the cache.
LEMMA NothingOwed ==
  ASSUME InStep, upc \notin {"service", "wait"}, NEW r, Saved(r)
  PROVE  owed[r] = {}
BY DEF InStep, Saved, C!InFlight, C!WritingBack

\* The others stay in the list when its head is removed.
LEMMA OthersStayQueued ==
  ASSUME U!OneInterruptInvariant, MsgList # << >>, U!RemoveRequest(Head(MsgList)),
         NEW r, r # Head(MsgList), U!Queued(r)
  PROVE  U!Queued(r)'
<1>1. UP!OneInterruptInvariant /\ UP!RemoveRequest(Head(MsgList))
  BY SameUnitInvariant DEF U!RemoveRequest, UP!RemoveRequest, U!RemoveAt, UP!RemoveAt
<1>2. /\ Len(MsgList') = Len(MsgList) - 1
      /\ \A i \in 1 .. Len(MsgList') : i + 1 \in 1 .. Len(MsgList) /\ MsgList'[i] = MsgList[i + 1]
  BY <1>1, UP!Removed, UnitAssumptions DEF UP!OneInterruptInvariant, UP!UnitInvariant,
     UP!CommandsAssumption, UP!BoundsAssumption, UP!InterruptAssumption
<1>3. Len(MsgList) \in Nat /\ Head(MsgList) = MsgList[1]
  BY <1>1, UP!Elements, UP!HeadIsFirst, UnitAssumptions DEF UP!OneInterruptInvariant, UP!UnitInvariant,
     UP!CommandsAssumption, UP!BoundsAssumption, UP!InterruptAssumption
<1>4. PICK i \in 1 .. Len(MsgList) : MsgList[i] = r
  BY DEF U!Queued
<1>5. i - 1 \in 1 .. Len(MsgList') /\ MsgList'[i - 1] = r
  BY <1>2, <1>3, <1>4
<1> QED
  BY <1>5 DEF U!Queued

\* Where the head and the current request are.
LEMMA Places ==
  ASSUME U!OneInterruptInvariant
  PROVE  /\ MsgList # << >> => U!Queued(Head(MsgList)) /\ Head(MsgList) \in Requests
         /\ U!Serving => curr_req = Head(MsgList) /\ MsgList # << >>
         /\ upc = "reply" => U!Held(curr_req)
         /\ upc # "check" => curr_req \in Requests /\ U!Held(curr_req) /\ client[curr_req] # "idle"
         /\ upc = "check" /\ MsgList # << >> /\ "QUEUED" \notin io_Flags[Head(MsgList)]
              => io_Error[Head(MsgList)] = "IOERR_ABORTED"
<1> USE DEF U!OneInterruptInvariant, U!UnitInvariant
<1>1. ASSUME MsgList # << >>
      PROVE  Head(MsgList) = MsgList[1] /\ 1 \in 1 .. Len(MsgList) /\ Head(MsgList) \in Requests
  <2>1. UP!TypeOK
    BY SameUnitInvariant DEF UP!OneInterruptInvariant, UP!UnitInvariant
  <2> QED
    BY <1>1, <2>1, UP!HeadIsFirst, UnitAssumptions
       DEF UP!CommandsAssumption, UP!BoundsAssumption, UP!InterruptAssumption
<1>2. MsgList # << >> => U!Queued(Head(MsgList)) /\ Head(MsgList) \in Requests
  BY <1>1 DEF U!Queued
<1>3. U!Serving => curr_req = Head(MsgList) /\ MsgList # << >>
  BY DEF U!HeadIsCurrent
<1>4. upc = "reply" => U!Held(curr_req)
  BY DEF U!Held
<1>5. upc # "check" => curr_req \in Requests /\ U!Held(curr_req)
  BY <1>2, <1>3, <1>4 DEF U!TypeOK, U!Serving, U!Held
<1>6. upc # "check" => client[curr_req] # "idle"
  BY <1>5 DEF U!ReplyOwed
<1>7. upc = "check" /\ MsgList # << >> /\ "QUEUED" \notin io_Flags[Head(MsgList)]
        => io_Error[Head(MsgList)] = "IOERR_ABORTED"
  BY <1>1 DEF U!HeadReady, U!Serving, U!ServiceProgress
<1> QED
  BY <1>2, <1>3, <1>4, <1>5, <1>6, <1>7

\* Clients: they run between two steps of the worker, and begin nothing with
\* the request it holds.
LEMMA OwedReadOrWrite ==
  ASSUME U!OneInterruptInvariant, C!CacheInvariant, RequestsFit, OwedInvariant, [C!Next]_(C!vars),
         NEW r \in Requests, NEW call, NEW c, c # "CMD_UPDATE", Begin(r, call, c), StillOwed,
         UNCHANGED cpc,
         io_Error' = [io_Error EXCEPT ![r] = io_Error'[r]],
         UNCHANGED MsgList \/ MsgList' = Append(MsgList, r)
  PROVE  OwedInvariant'
<1>1. UNCHANGED <<upc, curr_req>>
  BY DEF Begin, worker
<1>2. io_Command'[r] = c /\ \A x \in Requests \ {r} : io_Command'[x] = io_Command[x]
  BY DEF Begin, RequestsFit
<1>3. \A x \in Requests \ {r} : io_Error'[x] = io_Error[x]
  BY DEF U!OneInterruptInvariant, U!UnitInvariant, U!TypeOK
<1>4. \A x : U!Held(x) => U!Held(x)'
  <2>1. MsgList \in Seq(Requests)
    BY DEF U!OneInterruptInvariant, U!UnitInvariant, U!TypeOK
  <2>2. ASSUME NEW x, U!Queued(x) PROVE U!Queued(x)'
    BY <2>1, <2>2, AppendProperties DEF U!Queued
  <2> QED
    BY <1>1, <2>2 DEF U!Held
<1>5. UpdateSaves'
  BY <1>2, <1>3, <1>4, OwedKept DEF OwedInvariant, UpdateSaves, Saved
<1>6. upc # "check" => curr_req \in Requests \ {r}
  BY Places DEF Begin
<1>7. curr_req \in Requests \ {r} =>
        /\ io_Command'[curr_req] = io_Command[curr_req] /\ io_Error'[curr_req] = io_Error[curr_req]
        /\ Saved(curr_req) => Saved(curr_req)'
  BY <1>1, <1>2, <1>3, OwedKept DEF Saved
<1> QED
  BY <1>1, <1>5, <1>6, <1>7, OwedKept DEF OwedInvariant, Saved

\* An update that ends at once finds every unsaved block in flight.
LEMMA OwedUpdate ==
  ASSUME U!OneInterruptInvariant, C!CacheInvariant, RequestsFit, OwedInvariant,
         NEW r \in Requests, NEW call \in Calls, Update(r, call)
  PROVE  OwedInvariant'
<1>1. UNCHANGED <<upc, curr_req, cpc, content, disk, xfer>>
  BY DEF Update, Begin, worker, cache
<1>2. io_Command'[r] = "CMD_UPDATE" /\ \A x \in Requests \ {r} : io_Command'[x] = io_Command[x]
  BY DEF Update, Begin, RequestsFit
<1>3. \A x \in Requests \ {r} : io_Error'[x] = io_Error[x]
  BY DEF Update, U!EndCommand, U!QueueCommand, U!OneInterruptInvariant, U!UnitInvariant, U!TypeOK
<1>4. /\ owed' = [x \in Requests |-> owed'[x]]
      /\ owed'[r] = {b \in C!Block : disk[b] # content[b]}
      /\ \A x \in Requests \ {r} : owed'[x] = owed[x]
  BY DEF Update, OwedInvariant
<1>5. \A x \in Requests : \A b \in owed'[x] : b \in C!Block /\ content'[b] # disk'[b]
  BY <1>1, <1>4 DEF OwedInvariant
<1>6. \A b : C!InFlight(b)' <=> C!InFlight(b)
  BY <1>1 DEF C!InFlight, C!WritingBack, C!TrackOf, C!SectorOf
<1>7. MsgList \in Seq(Requests)
  BY DEF U!OneInterruptInvariant, U!UnitInvariant, U!TypeOK
<1>8. UNCHANGED MsgList \/ MsgList' = Append(MsgList, r)
  BY DEF Update, U!EndCommand, U!QueueCommand
<1>9. \A x : U!Held(x) => U!Held(x)'
  <2>1. ASSUME NEW x, U!Queued(x) PROVE U!Queued(x)'
    BY <1>7, <1>8, <2>1, AppendProperties DEF U!Queued
  <2> QED
    BY <1>1, <2>1 DEF U!Held
<1>10. ~U!Held(r)' => \A b \in owed'[r] : C!InFlight(b)
  <2>1. CASE C!CacheDirty
    <3>1. MsgList' = Append(MsgList, r)
      BY <2>1 DEF Update, U!QueueCommand
    <3>2. U!Queued(r)'
      BY <1>7, <3>1, AppendProperties, LenProperties DEF U!Queued
    <3> QED
      BY <3>2 DEF U!Held
  <2>2. CASE ~C!CacheDirty
    <3>1. \A b \in C!Block : ~C!InFlight(b) => disk[b] = content[b]
      BY <2>2 DEF C!CacheDirty, C!CacheInvariant, C!Coherence, C!TypeOK, C!Cached
    <3> QED
      BY <1>4, <3>1
  <2> QED
    BY <2>1, <2>2
<1>11. UpdateSaves'
  BY <1>2, <1>3, <1>4, <1>6, <1>9, <1>10 DEF OwedInvariant, UpdateSaves
<1>12. upc # "check" => curr_req \in Requests \ {r}
  BY Places DEF Update, Begin
<1>13. curr_req \in Requests \ {r} =>
         /\ io_Command'[curr_req] = io_Command[curr_req] /\ io_Error'[curr_req] = io_Error[curr_req]
         /\ Saved(curr_req) => Saved(curr_req)'
  BY <1>1, <1>2, <1>3, <1>4, <1>6 DEF Saved
<1> QED
  BY <1>1, <1>4, <1>5, <1>11, <1>12, <1>13 DEF OwedInvariant

\* A step that leaves commands, errors and the list alone.
LEMMA OwedElsewhere ==
  ASSUME C!CacheInvariant, OwedInvariant, StillOwed, [C!Next]_(C!vars),
         UNCHANGED <<io_Command, io_Error, MsgList, curr_req>>, upc # "reply", upc' # "reply"
  PROVE  UpdateSaves'
<1>1. \A x : U!Held(x) => U!Held(x)'
  BY DEF U!Held, U!Queued
<1> QED
  BY <1>1, OwedKept DEF OwedInvariant, UpdateSaves, Saved

\* The last two conjuncts of the invariant: what is owed to the request the
\* worker holds.
CurrentOwed ==
  /\ upc = "finish" \/ (upc = "reply" /\ io_Error[curr_req] = "0")
       => (io_Command[curr_req] = "CMD_UPDATE" => Saved(curr_req))
  /\ upc \in {"service", "wait"} /\ cpc # "idle"
       => (io_Command[curr_req] = "CMD_UPDATE" => cpc \in {"syncing", "done"} /\ Saved(curr_req))

LEMMA OwedCheckPort ==
  ASSUME U!OneInterruptInvariant, C!CacheInvariant, InStep, OwedInvariant, CheckPort
  PROVE  UpdateSaves' /\ CurrentOwed'
<1> DEFINE h == Head(MsgList)
<1>1. StillOwed /\ UNCHANGED cache /\ [C!Next]_(C!vars)
  BY DEF CheckPort, cache, C!vars, C!cacheVars, C!loopVars
<1>2. UNCHANGED io_Command /\ cpc' = cpc
  BY <1>1 DEF CheckPort, cache, U!TakeHead, U!ProcessRequest, U!FinishRequest, U!DropAborted,
              U!ReplyMsg, U!request
<1>3. \A x \in Requests : Saved(x) => Saved(x)'
  BY <1>1, OwedKept
<1>4. CASE U!TakeHead
  <2>1. UNCHANGED <<io_Error, MsgList>> /\ upc = "check" /\ upc' = "process"
    BY <1>4 DEF U!TakeHead
  <2>2. \A x : U!Held(x) => U!Held(x)'
    BY <2>1 DEF U!Held, U!Queued
  <2>3. UpdateSaves'
    BY <1>2, <1>3, <2>1, <2>2 DEF OwedInvariant, UpdateSaves, Saved
  <2> QED
    BY <2>1, <2>3 DEF CurrentOwed
<1>5. CASE U!ProcessRequest
  <2>1. UNCHANGED <<io_Error, MsgList, curr_req>> /\ upc = "process"
    BY <1>5 DEF U!ProcessRequest, U!request
  <2>2. cpc = "idle"
    BY <2>1 DEF InStep
  <2>3. upc' = "finish" => io_Command[curr_req] # "CMD_UPDATE"
    BY <1>5, <2>1 DEF U!ProcessRequest, U!Serves, U!OneInterruptInvariant, U!UnitInvariant,
       U!HeadIsCurrent, U!Serving, U!ServiceProgress
  <2>4. upc' \in {"service", "finish"}
    BY <1>5 DEF U!ProcessRequest
  <2>5. UpdateSaves'
    BY <1>1, <1>2, <2>1, <2>4, OwedElsewhere
  <2> QED
    BY <1>2, <2>1, <2>2, <2>3, <2>4, <2>5 DEF CurrentOwed
<1>6. CASE U!FinishRequest
  <2>1. /\ upc = "finish" /\ upc' = "reply" /\ UNCHANGED curr_req
        /\ io_Error' = [io_Error EXCEPT ![curr_req] = "0"]
        /\ U!RemoveRequest(curr_req)
    BY <1>6 DEF U!FinishRequest
  <2>2. curr_req = h /\ MsgList # << >> /\ curr_req \in Requests
    BY <2>1, Places DEF U!Serving
  <2>3. U!Held(curr_req)'
    BY <2>1 DEF U!Held
  <2>4. \A x \in Requests \ {curr_req} : U!Held(x) => U!Held(x)'
    BY <2>1, <2>2, OthersStayQueued DEF U!Held
  <2>5. \A x \in Requests \ {curr_req} : io_Error'[x] = io_Error[x]
    BY <2>1 DEF U!OneInterruptInvariant, U!UnitInvariant, U!TypeOK
  <2>6. UpdateSaves'
    BY <1>2, <1>3, <2>1, <2>3, <2>4, <2>5 DEF OwedInvariant, UpdateSaves, Saved
  <2>7. io_Command[curr_req] = "CMD_UPDATE" => Saved(curr_req)'
    BY <1>3, <2>1, <2>2 DEF OwedInvariant, Saved
  <2> QED
    BY <1>2, <2>1, <2>6, <2>7 DEF CurrentOwed
<1>7. CASE U!DropAborted
  <2>1. /\ upc = "check" /\ upc' = "reply" /\ curr_req' = h /\ UNCHANGED io_Error
        /\ MsgList # << >> /\ "QUEUED" \notin io_Flags[h] /\ U!RemoveRequest(h)
    BY <1>7 DEF U!DropAborted, U!request
  <2>2. io_Error[h] = "IOERR_ABORTED"
    BY <2>1, Places
  <2>3. \A x \in Requests \ {h} : U!Held(x) => U!Held(x)'
    BY <2>1, OthersStayQueued DEF U!Held
  <2>4. UpdateSaves'
    BY <1>2, <1>3, <2>1, <2>2, <2>3 DEF OwedInvariant, UpdateSaves, Saved
  <2> QED
    BY <2>1, <2>2, <2>4 DEF CurrentOwed
<1>8. CASE U!ReplyMsg
  <2>1. upc = "reply" /\ upc' = "check" /\ UNCHANGED <<io_Error, MsgList>>
    BY <1>8 DEF U!ReplyMsg, U!request
  <2>2. \A x \in Requests \ {curr_req} : U!Held(x) => U!Held(x)'
    BY <2>1 DEF U!Held, U!Queued
  <2>3. curr_req \in Requests
    BY <2>1, Places
  <2>4. io_Command[curr_req] = "CMD_UPDATE" /\ io_Error[curr_req] = "0" => Saved(curr_req)
    BY <2>1 DEF OwedInvariant
  <2>5. \A x \in Requests :
          io_Command[x] = "CMD_UPDATE" /\ io_Error[x] = "0" /\ ~U!Held(x)' => Saved(x)
    <3> SUFFICES ASSUME NEW x \in Requests, io_Command[x] = "CMD_UPDATE", io_Error[x] = "0", ~U!Held(x)'
                 PROVE  Saved(x)
      OBVIOUS
    <3>1. CASE x = curr_req
      BY <2>4, <3>1
    <3>2. CASE x # curr_req
      BY <2>2, <3>2 DEF OwedInvariant, UpdateSaves, Saved
    <3> QED
      BY <3>1, <3>2
  <2>6. UpdateSaves'
    BY <1>2, <1>3, <2>1, <2>5 DEF UpdateSaves, Saved
  <2> QED
    BY <2>1, <2>6 DEF CurrentOwed
<1> QED
  BY <1>4, <1>5, <1>6, <1>7, <1>8 DEF CheckPort

\* Inside the cache the worker keeps its request, and the list is its clients'.
LEMMA OwedServe ==
  ASSUME U!OneInterruptInvariant, C!CacheInvariant, C!CacheInvariant', RequestsFit, InStep, OwedInvariant,
         CallCache \/ CallSync \/ CopyLoop \/ StartCallback \/ EndCallback \/ CacheReturns
  PROVE  UpdateSaves' /\ CurrentOwed'
<1>1. StillOwed
  BY DEF CallCache, CallSync, CopyLoop, StartCallback, EndCallback, CacheReturns
<1>2. [C!Next]_(C!vars)
  BY CacheStep DEF Next, Worker
<1>3. UNCHANGED <<io_Command, io_Error, MsgList, curr_req>>
  BY DEF CallCache, CallSync, CopyLoop, StartCallback, EndCallback, CacheReturns, unit, worker,
         U!StartTransfer, U!CallbackReturns, U!CacheReturns, U!request
<1>4. upc \in {"service", "wait"} /\ upc' \in {"service", "wait", "finish"}
  BY DEF CallCache, CallSync, CopyLoop, StartCallback, EndCallback, CacheReturns, unit, worker,
         U!StartTransfer, U!CallbackReturns, U!CacheReturns
<1>5. UpdateSaves'
  BY <1>1, <1>2, <1>3, <1>4, OwedElsewhere
<1>6. curr_req \in Requests /\ curr_req = Head(MsgList)
  BY <1>4, Places DEF U!Serving
<1>7. Saved(curr_req) => Saved(curr_req)'
  BY <1>1, <1>2, <1>3, <1>6, OwedKept DEF Saved
<1>8. cpc # "idle" /\ io_Command[curr_req] = "CMD_UPDATE" => cpc \in {"syncing", "done"} /\ Saved(curr_req)
  BY <1>4 DEF OwedInvariant
<1>9. CASE CallCache
  <2>1. io_Command[curr_req] # "CMD_UPDATE"
    BY <1>6, <1>9 DEF CallCache
  <2> QED
    BY <1>3, <1>5, <2>1 DEF CurrentOwed
<1>10. CASE CallSync
  <2>1. cpc' \in {"syncing", "done"} /\ upc' # "finish"
    BY <1>10 DEF CallSync, C!StartSync, U!StartTransfer, unit, worker
  <2>2. ASSUME NEW b \in owed'[curr_req] PROVE C!InFlight(b)'
    <3>1. b \in unsynced'
      BY <1>6, <1>10, <2>2 DEF CallSync, StillOwed, OwedInvariant, C!StartSync
    <3> QED
      BY <3>1 DEF C!CacheInvariant, C!CallbackProgress
  <2>3. Saved(curr_req)'
    BY <1>3, <2>2 DEF Saved
  <2> QED
    BY <1>4, <1>5, <2>1, <2>3 DEF CurrentOwed
<1>11. CASE CopyLoop \/ StartCallback
  <2>1. cpc = "loop" /\ upc' # "finish"
    BY <1>11 DEF CopyLoop, StartCallback, unit, worker, U!StartTransfer, C!CopyWithinTrack,
                 C!CopyToTrackEnd, C!FillWholeTrack, C!WriteBack, C!ReadTrack
  <2> QED
    BY <1>3, <1>4, <1>5, <1>8, <2>1 DEF CurrentOwed
<1>12. CASE EndCallback
  <2>1. /\ cpc \in {"reading", "writing", "syncing"} /\ upc' = "service"
        /\ cpc = "syncing" => cpc' = "done"
    BY <1>12 DEF EndCallback, U!CallbackReturns, C!CallbackReturns, C!ReadCallbackReturns,
                 C!WriteCallbackReturns, C!SyncCallbackReturns
  <2> QED
    BY <1>3, <1>5, <1>7, <1>8, <2>1 DEF CurrentOwed
<1>13. CASE CacheReturns
  <2>1. cpc = "done" /\ upc' = "finish"
    BY <1>13 DEF CacheReturns, U!CacheReturns, C!Return
  <2> QED
    BY <1>3, <1>5, <1>7, <1>8, <2>1 DEF CurrentOwed
<1> QED
  BY <1>9, <1>10, <1>11, <1>12, <1>13

LEMMA OwedDevice ==
  ASSUME U!OneInterruptInvariant, C!CacheInvariant, RequestsFit, OwedInvariant,
         (\E r \in Requests : Abort(r) \/ Collect(r)) \/ Sector \/ Completes \/ Interrupt
  PROVE  UpdateSaves' /\ CurrentOwed'
<1>1. StillOwed
  BY DEF Abort, Collect, Sector, TransfersSector, Completes, Interrupt
<1>2. [C!Next]_(C!vars)
  BY CacheStep DEF Next, Client
<1>3. UNCHANGED <<io_Command, MsgList, upc, curr_req>>
  BY DEF Abort, Collect, Sector, TransfersSector, Completes, Interrupt, unit, worker, U!AbortIO, U!WaitIO,
         U!DeviceCompletes, U!IRQServer, U!request, U!worker
<1>4. UNCHANGED cpc
  BY DEF Abort, Collect, Sector, TransfersSector, Completes, Interrupt, cache, C!SourceReads, C!SourceWrites
<1>5. \A x \in Requests : io_Error'[x] = "0" => io_Error[x] = "0"
  BY DEF Abort, Collect, Sector, TransfersSector, Completes, Interrupt, unit, U!AbortIO, U!WaitIO,
         U!DeviceCompletes, U!IRQServer, U!request, U!OneInterruptInvariant, U!UnitInvariant, U!TypeOK
<1>6. \A x : U!Held(x) => U!Held(x)'
  BY <1>3 DEF U!Held, U!Queued
<1>7. \A x \in Requests : Saved(x) => Saved(x)'
  BY <1>1, <1>2, OwedKept
<1>8. UpdateSaves'
  BY <1>3, <1>5, <1>6, <1>7 DEF OwedInvariant, UpdateSaves, Saved
<1>9. upc # "check" => curr_req \in Requests
  BY Places
<1> QED
  BY <1>3, <1>4, <1>5, <1>7, <1>8, <1>9 DEF OwedInvariant, CurrentOwed, Saved

LEMMA OwedStep ==
  ASSUME U!OneInterruptInvariant, C!CacheInvariant, C!CacheInvariant', RequestsFit, InStep, OwedInvariant,
         [Next]_vars
  PROVE  OwedInvariant'
<1>1. [C!Next]_(C!vars)
  BY CacheStep
<1>2. ASSUME StillOwed, UpdateSaves', CurrentOwed' PROVE OwedInvariant'
  BY <1>1, <1>2, OwedKept DEF OwedInvariant, CurrentOwed
<1>3. ASSUME NEW r \in Requests, NEW call, NEW c, c # "CMD_UPDATE", NEW offset, NEW n, NEW d,
             ReadOrWrite(r, call, c, offset, n, d)
      PROVE  OwedInvariant'
  <2>1. Begin(r, call, c) /\ StillOwed
    BY <1>3 DEF ReadOrWrite
  <2>2. UNCHANGED cpc
    BY <1>3 DEF ReadOrWrite, Reject, ServeAtOnce, ServeLater, cache, C!QuickWrite
  <2>3. \E e : io_Error' = [io_Error EXCEPT ![r] = e]
    BY <1>3 DEF ReadOrWrite, Reject, ServeAtOnce, ServeLater, U!EndCommand, U!QueueCommand
  <2>4. io_Error' = [io_Error EXCEPT ![r] = io_Error'[r]]
    BY <2>3 DEF U!OneInterruptInvariant, U!UnitInvariant, U!TypeOK
  <2>5. UNCHANGED MsgList \/ MsgList' = Append(MsgList, r)
    BY <1>3 DEF ReadOrWrite, Reject, ServeAtOnce, ServeLater, U!EndCommand, U!QueueCommand
  <2> QED
    BY <1>1, <1>3, <2>1, <2>2, <2>4, <2>5, OwedReadOrWrite
<1>4. ASSUME NEW r \in Requests, NEW call, Clear(r, call) PROVE OwedInvariant'
  <2>1. Begin(r, call, "CMD_CLEAR") /\ StillOwed /\ UNCHANGED cpc /\ UNCHANGED MsgList
    BY <1>4 DEF Clear, U!EndCommand, C!Discard
  <2>2. io_Error' = [io_Error EXCEPT ![r] = io_Error'[r]]
    BY <1>4 DEF Clear, U!EndCommand, U!OneInterruptInvariant, U!UnitInvariant, U!TypeOK
  <2> QED
    BY <1>1, <2>1, <2>2, OwedReadOrWrite
<1>5. CASE Writes \/ Reads
  BY <1>3, <1>5 DEF Writes, Reads
<1>6. ASSUME NEW r \in Requests, NEW call \in Calls, Update(r, call) PROVE OwedInvariant'
  BY <1>6, OwedUpdate
<1>7. ASSUME NEW r \in Requests, Abort(r) \/ Collect(r) PROVE OwedInvariant'
  BY <1>2, <1>7, OwedDevice DEF Abort, Collect
<1>8. CASE CheckPort
  BY <1>2, <1>8, OwedCheckPort DEF CheckPort
<1>9. CASE Worker /\ ~CheckPort
  <2>1. StillOwed
    BY <1>9 DEF Worker, CallCache, CallSync, CopyLoop, StartCallback, EndCallback, CacheReturns
  <2> QED
    BY <1>2, <1>9, <2>1, OwedServe DEF Worker
<1>10. CASE Sector \/ Completes \/ Interrupt
  <2>1. StillOwed
    BY <1>10 DEF Sector, TransfersSector, Completes, Interrupt
  <2> QED
    BY <1>2, <1>10, <2>1, OwedDevice
<1>11. CASE UNCHANGED vars
  BY <1>11 DEF vars, unit, cache, worker, OwedInvariant, UpdateSaves, Saved, C!InFlight, C!WritingBack,
               C!TrackOf, C!SectorOf, U!Held, U!Queued
<1> QED
  BY <1>4, <1>5, <1>6, <1>7, <1>8, <1>9, <1>10, <1>11 DEF Next, Client

LEMMA FitInvariance == Spec => []RequestsFit
  BY FitInit, FitStep, PTL DEF Spec

LEMMA OwedInvariance == Spec => []OwedInvariant
<1>1. Init => OwedInvariant
  BY DEF Init, OwedInvariant, UpdateSaves, U!Init, C!Init
<1>2. /\ U!OneInterruptInvariant /\ C!CacheInvariant /\ C!CacheInvariant' /\ RequestsFit
      /\ InStep /\ OwedInvariant /\ [Next]_vars
      => OwedInvariant'
  BY OwedStep
<1> QED
  BY <1>1, <1>2, FitInvariance, UnitInvariance, CacheInvariance, WorkerInStep, PTL DEF Spec

(* CMD_UPDATE keeps its promise for any number of clients and any disk:    *)
(* when it has ended without an error, what it found unsaved is saved,     *)
(* overwritten, discarded, or in a write-back that runs.                   *)
THEOREM UpdatesSave == Spec => []UpdateSaves
<1>1. OwedInvariant => UpdateSaves
  BY DEF OwedInvariant
<1> QED
  BY <1>1, OwedInvariance, PTL

(* The variables of the unit, of the cache and of their composition keep   *)
(* their types.                                                            *)
THEOREM TypeCorrectness == Spec => []TypeOK
<1>1. ASSUME U!OneInterruptInvariant, C!CacheInvariant, RequestsFit, OwedInvariant
      PROVE  TypeOK
  <2>1. U!TypeOK /\ C!TypeOK
    BY <1>1 DEF U!OneInterruptInvariant, U!UnitInvariant, C!CacheInvariant
  <2>2. \A r \in Requests : io[r] \in [offset : C!Block, sectors : C!Block,
                                      data : UNION {[0 .. n - 1 -> Data] : n \in C!Block}]
    <3> SUFFICES ASSUME NEW r \in Requests
                 PROVE  io[r] \in [offset : C!Block, sectors : C!Block,
                                   data : UNION {[0 .. n - 1 -> Data] : n \in C!Block}]
      OBVIOUS
    <3>1. Fits(io[r], io_Command[r])
      BY <1>1 DEF RequestsFit
    <3>2. io[r].offset \in C!Block /\ io[r].sectors \in C!Block
      BY <3>1 DEF Fits
    <3>3. io[r].data \in UNION {[0 .. n - 1 -> Data] : n \in C!Block}
      BY <3>1, <3>2 DEF Fits
    <3> QED
      BY <3>1, <3>2, <3>3 DEF Fits
  <2>3. owed \in [Requests -> SUBSET C!Block]
    BY <1>1 DEF OwedInvariant
  <2>4. io = [r \in Requests |-> io[r]]
    BY <1>1 DEF RequestsFit
  <2> QED
    BY <2>1, <2>2, <2>3, <2>4 DEF TypeOK
<1> QED
  BY <1>1, UnitInvariance, CacheInvariance, FitInvariance, OwedInvariance, PTL
=============================================================================
