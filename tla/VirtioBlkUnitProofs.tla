------------------------ MODULE VirtioBlkUnitProofs ------------------------
(***************************************************************************)
(* Proofs about VirtioBlkUnit, for any set of requests and any bounds.     *)
(***************************************************************************)
EXTENDS VirtioBlkUnit, SequenceTheorems, TLAPS

-----------------------------------------------------------------------------
(* The list.                                                               *)

\* Removing the head leaves the others, each one place further to the front.
LEMMA RemoveHead ==
  ASSUME NEW s \in Seq(Requests), s # << >>
  PROVE  RemoveAt(s, 1) = Tail(s)
<1>1. RemoveAt(s, 1) = SubSeq(s, 1, 0) \o SubSeq(s, 2, Len(s))
  BY DEF RemoveAt
<1>2. SubSeq(s, 1, 0) = << >>
  BY SubSeqEmpty
<1>3. SubSeq(s, 2, Len(s)) = Tail(s)
  BY TailIsSubSeq
<1>4. Tail(s) \in Seq(Requests)
  BY HeadTailProperties
<1>5. << >> \o Tail(s) = Tail(s)
  BY <1>4, ConcatEmptySeq
<1> QED
  BY <1>1, <1>2, <1>3, <1>5

\* The head of a list that is not empty is its first element.
LEMMA HeadIsFirst ==
  ASSUME TypeOK, MsgList # << >>
  PROVE  /\ Head(MsgList) = MsgList[1]
         /\ 1 \in 1 .. Len(MsgList)
         /\ Head(MsgList) \in Requests
<1>1. MsgList \in Seq(Requests)
  BY DEF TypeOK
<1>2. Len(MsgList) \in Nat \ {0}
  BY <1>1, EmptySeq
<1> QED
  BY <1>1, <1>2, HeadTailProperties

\* The elements of the list are requests.
LEMMA Elements ==
  ASSUME TypeOK
  PROVE  /\ Len(MsgList) \in Nat
         /\ \A i \in 1 .. Len(MsgList) : MsgList[i] \in Requests
<1>1. MsgList \in Seq(Requests)
  BY DEF TypeOK
<1> QED
  BY <1>1, LenProperties, ElementOfSeq

\* A request that is removed was at the head: the rest moves up.
LEMMA Removed ==
  ASSUME TypeOK, ReplyOwed, MsgList # << >>, RemoveRequest(Head(MsgList))
  PROVE  /\ MsgList' \in Seq(Requests)
         /\ Len(MsgList') = Len(MsgList) - 1
         /\ \A i \in 1 .. Len(MsgList') : i + 1 \in 1 .. Len(MsgList) /\ MsgList'[i] = MsgList[i + 1]
<1>1. MsgList \in Seq(Requests) /\ Len(MsgList) \in Nat
  BY Elements DEF TypeOK
<1>2. PICK i \in 1 .. Len(MsgList) : MsgList[i] = Head(MsgList) /\ MsgList' = RemoveAt(MsgList, i)
  BY DEF RemoveRequest
<1>3. i = 1
  BY <1>2, HeadIsFirst DEF ReplyOwed
<1>4. MsgList' = Tail(MsgList)
  BY <1>1, <1>2, <1>3, RemoveHead
<1>5. /\ MsgList' \in Seq(Requests)
      /\ Len(MsgList') = Len(MsgList) - 1
      /\ \A j \in 1 .. Len(MsgList') : MsgList'[j] = MsgList[j + 1]
  BY <1>1, <1>4, HeadTailProperties
<1>6. \A j \in 1 .. Len(MsgList') : j + 1 \in 1 .. Len(MsgList)
  BY <1>1, <1>5
<1> QED
  BY <1>5, <1>6

-----------------------------------------------------------------------------
(* The inductive invariant.                                                *)

LEMMA InitInvariant == Init => UnitInvariant
<1> SUFFICES ASSUME Init PROVE UnitInvariant
  OBVIOUS
<1>1. MsgList = << >> /\ << >> \in Seq(Requests) /\ Len(<< >>) = 0
  BY EmptySeq DEF Init
<1>2. TypeOK
  BY <1>1, CommandsAssumption DEF Init, TypeOK, Flags
<1>3. \A r \in Requests : ~Held(r)
  BY <1>1 DEF Init, Held, Queued
<1> QED
  BY <1>1, <1>2, <1>3 DEF UnitInvariant, Init, HeadIsCurrent, HeadReady, ReplyOwed, NoLostWakeup,
     AbortedIsDone, WorkerTurn, Serving, Queued

USE DEF request, worker, device

\* A command that ends at once leaves the list alone, and its request was
\* not in it: its client was idle.
LEMMA EndCommandStep ==
  ASSUME UnitInvariant, NEW r \in Requests, NEW call \in {"DoIO", "SendIO"}, NEW c \in Commands,
         NEW error \in Results(c), client[r] = "idle", EndCommand(r, call, c, error),
         io_Command' = [io_Command EXCEPT ![r] = c],
         served' = [served EXCEPT ![r] = FALSE],
         UNCHANGED <<worker, device, wakeup>>
  PROVE  UnitInvariant'
<1> USE DEF UnitInvariant
<1>1. MsgList' = MsgList
  BY DEF EndCommand
<1>2. \A x \in Requests \ {r} : io_Flags'[x] = io_Flags[x] /\ io_Error'[x] = io_Error[x] /\ client'[x] = client[x]
  BY DEF TypeOK, EndCommand
<1>3. ~Held(r)
  BY DEF ReplyOwed
<1>4. \A x \in Requests : Held(x)' <=> Held(x)
  BY <1>1 DEF Held, Queued
<1>5. TypeOK'
  BY DEF TypeOK, Flags, EndCommand, Results, Transferring
<1>6. \A i \in 1 .. Len(MsgList) : MsgList[i] \in Requests \ {r}
  BY <1>3, Elements DEF Held, Queued
<1>7. HeadIsCurrent'
  BY <1>1, <1>2, <1>6, HeadIsFirst DEF HeadIsCurrent, Serving
<1>8. HeadReady'
  BY <1>1, <1>2, <1>6 DEF HeadReady, Serving
<1>9. ReplyOwed'
  <2>1. client'[r] # "DoIO"
    BY DEF TypeOK, EndCommand
  <2> QED
    BY <1>1, <1>2, <1>3, <1>4, <2>1 DEF ReplyOwed, Queued
<1>10. AbortedIsDone'
  BY <1>1, <1>2, <1>3, <1>4 DEF AbortedIsDone, Held, Queued
<1>11. WorkerTurn'
  <2>1. pc = "reply" => curr_req \in Requests \ {r}
    BY <1>3 DEF TypeOK, Held
  <2> QED
    BY <1>2, <2>1 DEF WorkerTurn
<1> QED
  BY <1>5, <1>7, <1>8, <1>9, <1>10, <1>11 DEF NoLostWakeup

\* A queued command adds its request behind the others.
LEMMA QueueCommandStep ==
  ASSUME UnitInvariant, NEW r \in Requests, NEW call \in {"DoIO", "SendIO"}, NEW c \in Commands,
         client[r] = "idle", QueueCommand(r, call),
         io_Command' = [io_Command EXCEPT ![r] = c],
         served' = [served EXCEPT ![r] = FALSE],
         UNCHANGED <<worker, device, wakeup>>
  PROVE  UnitInvariant'
<1> USE DEF UnitInvariant
<1>1. /\ MsgList \in Seq(Requests)
      /\ MsgList' = Append(MsgList, r)
  BY DEF QueueCommand, TypeOK
<1>2. /\ MsgList' \in Seq(Requests)
      /\ MsgList' # << >>
      /\ Len(MsgList') = Len(MsgList) + 1
      /\ \A i \in 1 .. Len(MsgList) : MsgList'[i] = MsgList[i]
      /\ MsgList'[Len(MsgList) + 1] = r
      /\ Len(MsgList) \in Nat
  BY <1>1, AppendProperties, LenProperties
<1>3. MsgList # << >> => Head(MsgList') = Head(MsgList)
  BY <1>1, HeadTailAppend
<1>4. \A x \in Requests \ {r} : io_Flags'[x] = io_Flags[x] /\ io_Error'[x] = io_Error[x] /\ client'[x] = client[x]
  BY DEF TypeOK, QueueCommand
<1>5. /\ io_Flags'[r] = {"QUEUED"}
      /\ io_Error'[r] = "0"
      /\ client'[r] = call
  BY DEF TypeOK, QueueCommand
<1>6. ~Held(r)
  BY DEF ReplyOwed
<1>7. \A x \in Requests : Held(x)' <=> Held(x) \/ x = r
  BY <1>2 DEF Held, Queued
<1>8. \A i \in 1 .. Len(MsgList) : MsgList[i] \in Requests \ {r}
  BY <1>6, Elements DEF Held, Queued
<1>9. TypeOK'
  BY <1>2 DEF TypeOK, Flags, QueueCommand
<1>10. HeadIsCurrent'
  BY <1>2, <1>3, <1>4, <1>8, HeadIsFirst DEF HeadIsCurrent, Serving
<1> DEFINE old == 1 .. Len(MsgList)
<1>o. \A i \in 1 .. Len(MsgList') : i \in old \/ i = Len(MsgList) + 1
  BY <1>2
<1>11. HeadReady'
  <2> SUFFICES ASSUME NEW i \in 1 .. Len(MsgList')
               PROVE  (Serving /\ i = 1)' \/ io_Flags'[MsgList'[i]] \in {{"QUEUED"}, {"DONE"}}
    BY DEF HeadReady
  <2>1. CASE i = Len(MsgList) + 1
    BY <2>1, <1>2, <1>5
  <2>2. CASE i \in old
    BY <2>2, <1>2, <1>4, <1>8 DEF HeadReady, Serving
  <2> QED
    BY <1>o, <2>1, <2>2
<1>12. ReplyOwed'
  <2>1. \A i, j \in 1 .. Len(MsgList') : MsgList'[i] = MsgList'[j] => i = j
    BY <1>o, <1>2, <1>8 DEF ReplyOwed
  <2>2. (pc = "reply" => ~Queued(curr_req))'
    BY <1>6, <1>2, <1>o DEF ReplyOwed, Held, Queued
  <2>3. ASSUME NEW x \in Requests
        PROVE  /\ Held(x)' => client'[x] \in {"DoIO", "SendIO"} /\ "QUICK" \notin io_Flags'[x]
               /\ client'[x] = "DoIO" => Held(x)'
    BY <1>4, <1>5, <1>7 DEF ReplyOwed
  <2> QED
    BY <2>1, <2>2, <2>3 DEF ReplyOwed
<1>13. AbortedIsDone'
  BY <1>2, <1>4, <1>5 DEF AbortedIsDone, Queued
<1>14. WorkerTurn'
  <2>1. pc = "reply" => curr_req \in Requests \ {r}
    BY <1>6 DEF TypeOK, Held
  <2> QED
    BY <1>4, <2>1 DEF WorkerTurn
<1> QED
  BY <1>9, <1>10, <1>11, <1>12, <1>13, <1>14 DEF NoLostWakeup

\* An abort turns a queued request into one that is done.
LEMMA AbortIOStep ==
  ASSUME UnitInvariant, NEW r \in Requests, AbortIO(r)
  PROVE  UnitInvariant'
<1> USE DEF UnitInvariant
<1>1. MsgList' = MsgList /\ pc' = pc /\ curr_req' = curr_req /\ client' = client
  BY DEF AbortIO
<1>2. \A x \in Requests \ {r} : io_Flags'[x] = io_Flags[x] /\ io_Error'[x] = io_Error[x]
  BY DEF TypeOK, AbortIO
<1>3. "QUEUED" \in io_Flags[r] /\ io_Flags'[r] = (io_Flags[r] \ {"QUEUED"}) \cup {"DONE"}
  BY DEF TypeOK, AbortIO
<1>4. \A x \in Requests : /\ Queued(x)' <=> Queued(x)
                          /\ Held(x)' <=> Held(x)
  BY <1>1 DEF Held, Queued
<1>5. TypeOK'
  BY DEF TypeOK, Flags, AbortIO
<1>6. \A i \in 1 .. Len(MsgList) : MsgList[i] \in Requests
  BY Elements
<1>7. HeadIsCurrent'
  BY <1>1, <1>2, <1>3, HeadIsFirst DEF HeadIsCurrent, Serving
<1>8. HeadReady'
  <2> SUFFICES ASSUME NEW i \in 1 .. Len(MsgList)
               PROVE  (Serving /\ i = 1) \/ io_Flags'[MsgList[i]] \in {{"QUEUED"}, {"DONE"}}
    BY <1>1 DEF HeadReady, Serving
  <2>1. CASE MsgList[i] = r
    BY <2>1, <1>3 DEF HeadReady
  <2>2. CASE MsgList[i] # r
    BY <2>2, <1>2, <1>6 DEF HeadReady
  <2> QED
    BY <2>1, <2>2
<1>9. ReplyOwed'
  <2>1. \A x \in Requests : "QUICK" \in io_Flags'[x] => "QUICK" \in io_Flags[x]
    BY <1>2, <1>3
  <2> QED
    BY <2>1, <1>1, <1>4 DEF ReplyOwed, Queued
<1>10. AbortedIsDone'
  <2> SUFFICES ASSUME NEW x \in Requests, io_Error'[x] = "IOERR_ABORTED", client[x] # "idle", Queued(x)
               PROVE  io_Flags'[x] = {"DONE"}
    BY <1>1, <1>4 DEF AbortedIsDone
  <2>1. CASE x # r
    BY <2>1, <1>2 DEF AbortedIsDone
  <2>2. CASE x = r
    <3>1. PICK i \in 1 .. Len(MsgList) : MsgList[i] = r
      BY <2>2 DEF Queued
    <3>2. io_Flags[r] \in {{"QUEUED"}, {"DONE"}, {"CURRENT"}, {"SERVICING"}}
      BY <3>1, HeadIsFirst, Elements DEF HeadReady, HeadIsCurrent
    <3> QED
      BY <2>2, <3>2, <1>3
  <2> QED
    BY <2>1, <2>2
<1>11. WorkerTurn'
  BY <1>1, <1>2, <1>3 DEF WorkerTurn, AbortIO
<1> QED
  BY <1>5, <1>7, <1>8, <1>9, <1>10, <1>11 DEF NoLostWakeup, AbortIO

\* Collecting a reply, and the steps of a callback, leave the list, the flags
\* and the place of each request alone.
LEMMA QuietStep ==
  ASSUME UnitInvariant, TypeOK', NoLostWakeup', WorkerTurn',
         UNCHANGED <<io_Flags, io_Error, MsgList, curr_req>>,
         Serving' <=> Serving, pc' = "reply" <=> pc = "reply",
         \A r \in Requests : \/ client'[r] = client[r]
                             \/ client[r] = "replied" /\ client'[r] = "idle"
  PROVE  UnitInvariant'
<1> USE DEF UnitInvariant
<1>1. \A x \in Requests : /\ Queued(x)' <=> Queued(x)
                          /\ Held(x)' <=> Held(x)
  BY DEF Held, Queued
<1>2. ReplyOwed'
  BY <1>1 DEF ReplyOwed, Queued
<1>3. AbortedIsDone'
  BY <1>1 DEF AbortedIsDone
<1>4. HeadIsCurrent'
  BY DEF HeadIsCurrent
<1>5. HeadReady'
  BY DEF HeadReady
<1> QED
  BY <1>2, <1>3, <1>4, <1>5

LEMMA WaitIOStep ==
  ASSUME UnitInvariant, NEW r \in Requests, WaitIO(r)
  PROVE  UnitInvariant'
<1>1. TypeOK'
  BY DEF UnitInvariant, TypeOK, WaitIO, Flags
<1>2. NoLostWakeup' /\ WorkerTurn'
  BY DEF UnitInvariant, NoLostWakeup, WorkerTurn, WaitIO
<1>3. \A x \in Requests : \/ client'[x] = client[x]
                          \/ client[x] = "replied" /\ client'[x] = "idle"
  BY DEF UnitInvariant, TypeOK, WaitIO, NT_REPLYMSG
<1>4. Serving' <=> Serving
  BY DEF Serving, WaitIO
<1> QED
  BY <1>1, <1>2, <1>3, <1>4, QuietStep DEF WaitIO

LEMMA CallbackStep ==
  ASSUME UnitInvariant, ProcessRequest \/ StartTransfer \/ CallbackReturns \/ CacheReturns \/ DeviceCompletes
  PROVE  UnitInvariant'
<1>1. UNCHANGED <<io_Flags, io_Error, MsgList, curr_req, client>>
  BY DEF ProcessRequest, StartTransfer, CallbackReturns, CacheReturns, DeviceCompletes
<1>2. Serving' <=> Serving
  BY DEF Serving, ProcessRequest, StartTransfer, CallbackReturns, CacheReturns, DeviceCompletes
<1>3. pc' = "reply" <=> pc = "reply"
  BY DEF ProcessRequest, StartTransfer, CallbackReturns, CacheReturns, DeviceCompletes
<1>4. TypeOK' /\ NoLostWakeup' /\ WorkerTurn'
  <2> USE DEF UnitInvariant, TypeOK, NoLostWakeup, WorkerTurn, Flags
  <2>1. CASE ProcessRequest
    BY <2>1 DEF ProcessRequest
  <2>2. CASE StartTransfer
    BY <2>2 DEF StartTransfer, IdxStep
  <2>3. CASE CallbackReturns
    BY <2>3 DEF CallbackReturns
  <2>4. CASE CacheReturns
    BY <2>4 DEF CacheReturns
  <2>5. CASE DeviceCompletes
    <3>1. chains' \in Nat /\ (chains > 1 => chains' > 0)
      BY <2>5 DEF DeviceCompletes
    <3>2. isr' \in BOOLEAN /\ (isr => isr') /\ (chains = 1 => isr')
      BY <2>5, InterruptAssumption DEF DeviceCompletes
    <3>3. UNCHANGED <<request, client, MsgList, worker, wakeup>>
      BY <2>5 DEF DeviceCompletes
    <3>4. TypeOK'
      BY <3>1, <3>2, <3>3
    <3>5. WorkerTurn'
      BY <3>3
    <3>6. NoLostWakeup'
      <4>1. CASE chains = 1
        BY <4>1, <3>2
      <4>2. CASE chains > 1
        BY <4>2, <3>1
      <4>3. chains = 1 \/ chains > 1
        BY <2>5 DEF DeviceCompletes
      <4> QED
        BY <4>1, <4>2, <4>3
    <3> QED
      BY <3>4, <3>5, <3>6
  <2> QED
    BY <2>1, <2>2, <2>3, <2>4, <2>5
<1> QED
  BY <1>1, <1>2, <1>3, <1>4, QuietStep

\* The worker takes the head, or an interrupt marks it: the other requests
\* in the list are not touched, for the head occurs once.
LEMMA HeadFlagsStep ==
  ASSUME UnitInvariant, TypeOK', NoLostWakeup', WorkerTurn', pc # "reply", Serving',
         MsgList # << >>, curr_req' = Head(MsgList),
         UNCHANGED <<io_Error, client, MsgList>>,
         io_Error[curr_req'] # "IOERR_ABORTED",
         io_Flags'[curr_req'] \in {{"CURRENT"}, {"SERVICING"}},
         \A r \in Requests \ {curr_req'} : io_Flags'[r] = io_Flags[r]
  PROVE  UnitInvariant'
<1> USE DEF UnitInvariant
<1>1. pc' # "reply"
  BY DEF Serving
<1>2. \A i \in 1 .. Len(MsgList) : /\ MsgList[i] \in Requests
                                   /\ i = 1 <=> MsgList[i] = curr_req'
  BY Elements, HeadIsFirst DEF ReplyOwed
<1>3. \A x \in Requests : Queued(x)' <=> Queued(x)
  BY DEF Queued
<1>4. curr_req' \in Requests /\ Queued(curr_req')
  BY HeadIsFirst DEF Queued
<1>5. HeadIsCurrent'
  BY DEF HeadIsCurrent
<1>6. HeadReady'
  BY <1>2 DEF HeadReady
<1>7. ReplyOwed'
  <2>1. \A x \in Requests : Held(x)' <=> Held(x)
    BY <1>1, <1>3 DEF Held
  <2> QED
    BY <1>1, <2>1 DEF ReplyOwed, Held
<1>8. AbortedIsDone'
  BY <1>3, <1>4 DEF AbortedIsDone
<1> QED
  BY <1>5, <1>6, <1>7, <1>8

LEMMA TakeHeadStep ==
  ASSUME UnitInvariant, TakeHead
  PROVE  UnitInvariant'
<1> USE DEF UnitInvariant
<1> DEFINE h == Head(MsgList)
<1>1. h \in Requests /\ MsgList # << >> /\ h = MsgList[1] /\ 1 \in 1 .. Len(MsgList)
  BY HeadIsFirst DEF TakeHead
<1>2. /\ io_Flags[h] = {"QUEUED"}
      /\ io_Flags'[h] = {"CURRENT"}
      /\ \A r \in Requests \ {h} : io_Flags'[r] = io_Flags[r]
  <2>1. "QUEUED" \in io_Flags[h] /\ ~Serving
    BY DEF TakeHead, Serving
  <2>2. io_Flags[h] \in {{"QUEUED"}, {"DONE"}}
    BY <1>1, <2>1 DEF HeadReady
  <2>3. io_Flags[h] = {"QUEUED"}
    BY <2>1, <2>2
  <2>4. io_Flags' = [io_Flags EXCEPT ![h] = (io_Flags[h] \ {"QUEUED"}) \cup {"CURRENT"}]
    BY DEF TakeHead
  <2>5. io_Flags'[h] = (io_Flags[h] \ {"QUEUED"}) \cup {"CURRENT"}
    BY <1>1, <2>4 DEF TypeOK
  <2>6. \A r \in Requests \ {h} : io_Flags'[r] = io_Flags[r]
    BY <2>4 DEF TypeOK
  <2> QED
    BY <2>3, <2>5, <2>6
<1>3. io_Error[h] # "IOERR_ABORTED"
  <2>1. Held(h)
    BY <1>1 DEF Held, Queued
  <2>2. client[h] # "idle"
    BY <1>1, <2>1 DEF ReplyOwed
  <2> QED
    BY <1>1, <1>2, <2>2 DEF AbortedIsDone, Queued
<1>4. TypeOK'
  BY <1>1 DEF TypeOK, Flags, TakeHead
<1>5. NoLostWakeup' /\ WorkerTurn' /\ Serving' /\ pc # "reply"
  BY DEF TakeHead, NoLostWakeup, WorkerTurn, Serving
<1>6. curr_req' = h /\ UNCHANGED <<io_Error, client, MsgList>>
  BY DEF TakeHead
<1> QED
  BY <1>1, <1>2, <1>3, <1>4, <1>5, <1>6, HeadFlagsStep

LEMMA IRQServerStep ==
  ASSUME UnitInvariant, IRQServer
  PROVE  UnitInvariant'
<1> USE DEF UnitInvariant
<1> DEFINE h == Head(MsgList)
<1>1. NoLostWakeup' /\ UNCHANGED <<io_Error, client, MsgList, worker>>
  BY DEF IRQServer, NoLostWakeup
<1>2. CASE MsgList # << >> /\ "CURRENT" \in io_Flags[h]
  <2>1. h \in Requests /\ h = MsgList[1] /\ 1 \in 1 .. Len(MsgList)
    BY <1>2, HeadIsFirst
  <2>2. Serving /\ curr_req = h
    BY <1>2, <2>1 DEF HeadReady, HeadIsCurrent
  <2>3. io_Flags[h] = {"CURRENT"}
    BY <1>2, <2>2 DEF HeadIsCurrent
  <2>4. io_Flags' = [io_Flags EXCEPT ![h] = (io_Flags[h] \ {"CURRENT"}) \cup {"SERVICING"}]
    BY <1>2 DEF IRQServer
  <2>5. io_Flags'[h] = (io_Flags[h] \ {"CURRENT"}) \cup {"SERVICING"}
    BY <2>1, <2>4 DEF TypeOK
  <2>6. io_Flags'[h] = {"SERVICING"}
    BY <2>3, <2>5
  <2>7. \A r \in Requests \ {h} : io_Flags'[r] = io_Flags[r]
    BY <2>4 DEF TypeOK
  <2>8. TypeOK'
    <3>1. io_Flags' \in [Requests -> SUBSET Flags]
      BY <2>1, <2>4 DEF TypeOK, Flags
    <3>2. isr' = FALSE /\ wakeup' = TRUE
      BY DEF IRQServer
    <3>3. UNCHANGED <<io_Command, io_Error, io_Actual, served, client, MsgList, worker, chains>>
      BY DEF IRQServer
    <3> QED
      BY <3>1, <3>2, <3>3 DEF TypeOK
  <2>9. io_Error[h] # "IOERR_ABORTED"
    <3>1. Queued(h) /\ client[h] # "idle"
      BY <2>1 DEF ReplyOwed, Held, Queued
    <3> QED
      BY <2>1, <2>3, <3>1 DEF AbortedIsDone
  <2>10. WorkerTurn' /\ Serving' /\ pc # "reply" /\ curr_req' = h
    BY <1>1, <2>2 DEF WorkerTurn, Serving
  <2> QED
    BY <1>1, <1>2, <2>2, <2>6, <2>7, <2>8, <2>9, <2>10, HeadFlagsStep
<1>3. CASE ~(MsgList # << >> /\ "CURRENT" \in io_Flags[h])
  <2>1. io_Flags' = io_Flags
    BY <1>3 DEF IRQServer
  <2>2. TypeOK'
    BY <2>1 DEF TypeOK, IRQServer
  <2>3. WorkerTurn' /\ (Serving' <=> Serving) /\ (pc' = "reply" <=> pc = "reply")
    BY <1>1, <2>1 DEF WorkerTurn, Serving
  <2> QED
    BY <1>1, <2>1, <2>2, <2>3, QuietStep
<1> QED
  BY <1>2, <1>3

\* The head is taken off the list to be replied: every other request keeps
\* its flags and moves one place to the front.
LEMMA RemovedStep ==
  ASSUME UnitInvariant, TypeOK', MsgList # << >>, pc # "reply",
         RemoveRequest(Head(MsgList)), curr_req' = Head(MsgList), pc' = "reply", client' = client,
         io_Flags'[curr_req'] \subseteq {"DONE", "SERVICING"},
         \A r \in Requests \ {curr_req'} : io_Flags'[r] = io_Flags[r] /\ io_Error'[r] = io_Error[r]
  PROVE  UnitInvariant'
<1> USE DEF UnitInvariant
<1> DEFINE h == Head(MsgList)
           n == Len(MsgList)
<1>1. /\ n \in Nat
      /\ \A i \in 1 .. n : MsgList[i] \in Requests
      /\ h = MsgList[1] /\ 1 \in 1 .. n /\ h \in Requests
  BY Elements, HeadIsFirst
<1>2. /\ Len(MsgList') = n - 1
      /\ \A i \in 1 .. Len(MsgList') : i + 1 \in 1 .. n /\ MsgList'[i] = MsgList[i + 1]
  BY Removed
<1>3. \A i \in 1 .. Len(MsgList') : MsgList'[i] \in Requests \ {h}
  <2> SUFFICES ASSUME NEW i \in 1 .. Len(MsgList') PROVE MsgList'[i] \in Requests \ {h}
    OBVIOUS
  <2>1. i + 1 \in 1 .. n /\ MsgList'[i] = MsgList[i + 1] /\ i + 1 # 1
    BY <1>1, <1>2
  <2>2. MsgList[i + 1] # MsgList[1]
    BY <1>1, <2>1 DEF ReplyOwed
  <2> QED
    BY <1>1, <2>1, <2>2
<1>4. \A x \in Requests : Queued(x)' <=> Queued(x) /\ x # h
  <2> SUFFICES ASSUME NEW x \in Requests PROVE Queued(x)' <=> Queued(x) /\ x # h
    OBVIOUS
  <2>1. ASSUME Queued(x)' PROVE Queued(x) /\ x # h
    BY <2>1, <1>2, <1>3 DEF Queued
  <2>2. ASSUME Queued(x), x # h PROVE Queued(x)'
    <3>1. PICK i \in 1 .. n : MsgList[i] = x
      BY <2>2 DEF Queued
    <3>2. i # 1
      BY <3>1, <2>2, <1>1
    <3>3. i - 1 \in 1 .. Len(MsgList') /\ (i - 1) + 1 = i
      BY <3>2, <1>1, <1>2
    <3>4. MsgList'[i - 1] = x
      BY <3>1, <3>3, <1>2
    <3> QED
      BY <3>3, <3>4 DEF Queued
  <2> QED
    BY <2>1, <2>2
<1>5. \A x \in Requests : Held(x)' <=> Held(x)
  <2>1. Queued(h)
    BY <1>1 DEF Queued
  <2> QED
    BY <1>4, <2>1 DEF Held
<1>6. HeadReady'
  <2> SUFFICES ASSUME NEW i \in 1 .. Len(MsgList') PROVE io_Flags'[MsgList'[i]] \in {{"QUEUED"}, {"DONE"}}
    BY DEF HeadReady
  <2>1. i + 1 \in 1 .. n /\ MsgList'[i] = MsgList[i + 1] /\ i + 1 # 1
    BY <1>1, <1>2
  <2> QED
    BY <2>1, <1>3 DEF HeadReady
<1>7. ReplyOwed'
  <2>1. \A i, j \in 1 .. Len(MsgList') : MsgList'[i] = MsgList'[j] => i = j
    <3> SUFFICES ASSUME NEW i \in 1 .. Len(MsgList'), NEW j \in 1 .. Len(MsgList'), MsgList'[i] = MsgList'[j]
                 PROVE  i = j
      OBVIOUS
    <3>1. i + 1 \in 1 .. n /\ j + 1 \in 1 .. n /\ MsgList[i + 1] = MsgList[j + 1]
      BY <1>2
    <3>2. i + 1 = j + 1
      BY <3>1 DEF ReplyOwed
    <3> QED
      BY <3>2, <1>1, <1>2
  <2>2. (~Queued(curr_req))'
    BY <1>3 DEF Queued
  <2>3. \A x \in Requests : "QUICK" \in io_Flags'[x] => "QUICK" \in io_Flags[x]
    OBVIOUS
  <2> QED
    BY <2>1, <2>2, <2>3, <1>5 DEF ReplyOwed, Queued
<1>8. AbortedIsDone'
  BY <1>4 DEF AbortedIsDone
<1>9. HeadIsCurrent' /\ NoLostWakeup' /\ WorkerTurn'
  BY <1>1 DEF HeadIsCurrent, NoLostWakeup, WorkerTurn, Serving
<1> QED
  BY <1>6, <1>7, <1>8, <1>9

LEMMA FinishRequestStep ==
  ASSUME UnitInvariant, FinishRequest
  PROVE  UnitInvariant'
<1> USE DEF UnitInvariant
<1>1. /\ MsgList # << >> /\ curr_req = Head(MsgList) /\ pc # "reply"
      /\ io_Flags[curr_req] \in {{"CURRENT"}, {"SERVICING"}}
  BY DEF FinishRequest, HeadIsCurrent, Serving
<1>2. curr_req \in Requests
  BY <1>1, HeadIsFirst
<1>3. io_Flags'[curr_req] = (io_Flags[curr_req] \ {"CURRENT"}) \cup {"DONE"}
  BY <1>2 DEF FinishRequest, TypeOK
<1>4. MsgList' \in Seq(Requests)
  BY <1>1, Removed DEF FinishRequest
<1>5. TypeOK'
  BY <1>2, <1>4 DEF TypeOK, Flags, FinishRequest
<1>6. \A r \in Requests \ {curr_req} : io_Flags'[r] = io_Flags[r] /\ io_Error'[r] = io_Error[r]
  BY DEF FinishRequest, TypeOK
<1>7. io_Flags'[curr_req] \subseteq {"DONE", "SERVICING"}
  BY <1>1, <1>3
<1> QED
  BY <1>1, <1>5, <1>6, <1>7, RemovedStep DEF FinishRequest

LEMMA DropAbortedStep ==
  ASSUME UnitInvariant, DropAborted
  PROVE  UnitInvariant'
<1> USE DEF UnitInvariant
<1> DEFINE h == Head(MsgList)
<1>1. MsgList # << >> /\ h \in Requests /\ h = MsgList[1] /\ 1 \in 1 .. Len(MsgList)
  BY HeadIsFirst DEF DropAborted
<1>2. io_Flags[h] = {"DONE"}
  <2>1. io_Flags[h] \in {{"QUEUED"}, {"DONE"}}
    BY <1>1 DEF HeadReady, DropAborted, Serving
  <2> QED
    BY <2>1 DEF DropAborted
<1>3. MsgList' \in Seq(Requests)
  BY <1>1, Removed DEF DropAborted
<1>4. TypeOK'
  BY <1>1, <1>3 DEF TypeOK, DropAborted
<1> QED
  BY <1>1, <1>2, <1>4, RemovedStep DEF DropAborted

\* The reply hands the request back: the worker no longer holds it.
LEMMA ReplyMsgStep ==
  ASSUME UnitInvariant, ReplyMsg
  PROVE  UnitInvariant'
<1> USE DEF UnitInvariant
<1>1. curr_req \in Requests /\ ~Queued(curr_req)
  BY DEF ReplyMsg, TypeOK, ReplyOwed
<1>2. /\ client'[curr_req] = "replied"
      /\ \A x \in Requests \ {curr_req} : client'[x] = client[x]
  BY <1>1 DEF ReplyMsg, TypeOK
<1>3. UNCHANGED <<request, MsgList, device, wakeup>> /\ pc = "reply" /\ pc' = "check"
  BY DEF ReplyMsg
<1>4. \A x \in Requests : /\ Queued(x)' <=> Queued(x)
                          /\ Held(x)' <=> Held(x) /\ x # curr_req
  BY <1>1, <1>3 DEF Held, Queued
<1>5. TypeOK'
  BY <1>1 DEF TypeOK, ReplyMsg
<1>6. HeadIsCurrent' /\ HeadReady' /\ NoLostWakeup' /\ WorkerTurn'
  BY <1>3 DEF HeadIsCurrent, HeadReady, NoLostWakeup, WorkerTurn, Serving
<1>7. ReplyOwed'
  BY <1>1, <1>2, <1>3, <1>4 DEF ReplyOwed
<1>8. AbortedIsDone'
  BY <1>1, <1>2, <1>3, <1>4 DEF AbortedIsDone
<1> QED
  BY <1>5, <1>6, <1>7, <1>8

LEMMA ClientStep ==
  ASSUME UnitInvariant, Client
  PROVE  UnitInvariant'
<1>1. PICK r \in Requests : \/ \E call \in {"DoIO", "SendIO"} : \E c \in Commands : BeginIO(r, call, c)
                            \/ AbortIO(r)
                            \/ WaitIO(r)
  BY DEF Client
<1>2. ASSUME NEW call \in {"DoIO", "SendIO"}, NEW c \in Commands, BeginIO(r, call, c)
      PROVE  UnitInvariant'
  <2>1. CASE \E error \in Results(c) : EndCommand(r, call, c, error)
    BY <1>2, <2>1, EndCommandStep DEF BeginIO
  <2>2. CASE QueueCommand(r, call)
    BY <1>2, <2>2, QueueCommandStep DEF BeginIO
  <2> QED
    BY <1>2, <2>1, <2>2 DEF BeginIO
<1> QED
  BY <1>1, <1>2, AbortIOStep, WaitIOStep

LEMMA UnitStep ==
  ASSUME UnitInvariant, [Next]_vars
  PROVE  UnitInvariant'
<1>1. CASE Client
  BY <1>1, ClientStep
<1>2. CASE Worker
  BY <1>2, TakeHeadStep, CallbackStep, FinishRequestStep, DropAbortedStep, ReplyMsgStep DEF Worker
<1>3. CASE DeviceCompletes
  BY <1>3, CallbackStep
<1>4. CASE IRQServer
  BY <1>4, IRQServerStep
<1>5. CASE UNCHANGED vars
  BY <1>5 DEF vars, UnitInvariant, TypeOK, HeadIsCurrent, HeadReady, ReplyOwed, NoLostWakeup,
     AbortedIsDone, WorkerTurn, Serving, Held, Queued
<1> QED
  BY <1>1, <1>2, <1>3, <1>4, <1>5 DEF Next

(* The unit invariant holds whatever the device's interrupts do.           *)
THEOREM UnitInvariance == Spec => []UnitInvariant
<1>1. UnitInvariant /\ [Next]_vars => UnitInvariant'
  BY UnitStep
<1> QED
  BY InitInvariant, <1>1, PTL DEF Spec

(* The variables keep their types.                                         *)
THEOREM TypeCorrectness == Spec => []TypeOK
<1>1. UnitInvariant => TypeOK
  BY DEF UnitInvariant
<1> QED
  BY UnitInvariance, <1>1, PTL

(* The worker, process_request and the interrupt server agree on the       *)
(* request being served, for any number of clients.                        *)
THEOREM HeadStaysCurrent == Spec => []HeadIsCurrent
<1>1. UnitInvariant => HeadIsCurrent
  BY DEF UnitInvariant
<1> QED
  BY UnitInvariance, <1>1, PTL

(* The worker never spins on a head that is neither queued nor done.       *)
THEOREM HeadAlwaysReady == Spec => []HeadReady
<1>1. UnitInvariant => HeadReady
  BY DEF UnitInvariant
<1> QED
  BY UnitInvariance, <1>1, PTL

(* The device holds exactly the requests it owes a reply for.              *)
THEOREM RepliesOwed == Spec => []ReplyOwed
<1>1. UnitInvariant => ReplyOwed
  BY DEF UnitInvariant
<1> QED
  BY UnitInvariance, <1>1, PTL

(* The worker is woken for every transfer it waits for.                    *)
THEOREM WakeupsArrive == Spec => []NoLostWakeup
<1>1. UnitInvariant => NoLostWakeup
  BY DEF UnitInvariant
<1> QED
  BY UnitInvariance, <1>1, PTL

-----------------------------------------------------------------------------
(* Aborts.                                                                 *)

AbortKept ==
  \A r \in Requests :
    io_Error[r] = "IOERR_ABORTED" /\ client[r] # "idle" =>
      io_Error'[r] = "IOERR_ABORTED" /\ served'[r] = served[r]

\* No step takes an aborted request for one to be served.
LEMMA AbortStep ==
  ASSUME UnitInvariant, [Next]_vars
  PROVE  AbortKept
<1> USE DEF UnitInvariant
<1> SUFFICES ASSUME NEW r \in Requests, io_Error[r] = "IOERR_ABORTED", client[r] # "idle"
             PROVE  io_Error'[r] = "IOERR_ABORTED" /\ served'[r] = served[r]
  BY DEF AbortKept
<1>1. Serving => r # curr_req
  <2> SUFFICES ASSUME Serving, r = curr_req PROVE FALSE
    OBVIOUS
  <2>1. Queued(r)
    BY HeadIsFirst DEF HeadIsCurrent, Queued
  <2>2. io_Flags[r] = {"DONE"}
    BY <2>1 DEF AbortedIsDone
  <2> QED
    BY <2>2 DEF HeadIsCurrent
<1>2. CASE Client
  <2>1. PICK x \in Requests : \/ \E call \in {"DoIO", "SendIO"} : \E c \in Commands : BeginIO(x, call, c)
                              \/ AbortIO(x)
                              \/ WaitIO(x)
    BY <1>2 DEF Client
  <2>2. ASSUME NEW call \in {"DoIO", "SendIO"}, NEW c \in Commands, BeginIO(x, call, c)
        PROVE  io_Error'[r] = "IOERR_ABORTED" /\ served'[r] = served[r]
    BY <2>2 DEF BeginIO, EndCommand, QueueCommand, TypeOK
  <2>3. CASE AbortIO(x)
    BY <2>3 DEF AbortIO, TypeOK
  <2>4. CASE WaitIO(x)
    BY <2>4 DEF WaitIO
  <2> QED
    BY <2>1, <2>2, <2>3, <2>4
<1>3. CASE CacheReturns
  BY <1>1, <1>3 DEF CacheReturns, TypeOK, HeadIsCurrent, Serving
<1>4. CASE FinishRequest
  BY <1>1, <1>4 DEF FinishRequest, TypeOK, Serving
<1>5. CASE TakeHead \/ ProcessRequest \/ StartTransfer \/ CallbackReturns \/ DropAborted \/ ReplyMsg
  BY <1>5 DEF TakeHead, ProcessRequest, StartTransfer, CallbackReturns, DropAborted, ReplyMsg
<1>6. CASE DeviceCompletes \/ IRQServer
  BY <1>6 DEF DeviceCompletes, IRQServer
<1>7. CASE UNCHANGED vars
  BY <1>7 DEF vars
<1> QED
  BY <1>2, <1>3, <1>4, <1>5, <1>6, <1>7 DEF Next, Worker

(* An aborted request is not served, and its client finds IOERR_ABORTED.   *)
THEOREM AbortsHonoured == Spec => AbortHonoured
<1>1. UnitInvariant /\ [Next]_vars => [AbortKept]_vars
  BY AbortStep
<1>2. Spec => [][AbortKept]_vars
  BY UnitInvariance, <1>1, PTL DEF Spec
<1> QED
  BY <1>2 DEF AbortHonoured, AbortKept

-----------------------------------------------------------------------------
(* A device that interrupts once for all the executions of a transfer.     *)

LEMMA OneTransferStep ==
  ASSUME OneInterrupt, UnitInvariant, OneTransfer, [Next]_vars
  PROVE  OneTransfer'
<1> USE DEF UnitInvariant, TypeOK, OneTransfer
<1>1. CASE Client
  <2>1. UNCHANGED <<worker, device, wakeup>>
    BY <1>1 DEF Client, BeginIO, AbortIO, WaitIO
  <2> QED
    BY <2>1
<1>2. CASE Worker
  <2>1. CASE TakeHead \/ ProcessRequest \/ CacheReturns \/ FinishRequest \/ DropAborted \/ ReplyMsg
    <3>1. pc # "wait" /\ pc' # "wait" /\ UNCHANGED <<device, wakeup>>
      BY <2>1 DEF TakeHead, ProcessRequest, CacheReturns, FinishRequest, DropAborted, ReplyMsg
    <3> QED
      BY <3>1
  <2>2. CASE StartTransfer
    <3>1. pc # "wait" /\ pc' = "wait" /\ chains' = chains + 3 /\ UNCHANGED <<isr, wakeup>>
      BY <2>2 DEF StartTransfer, IdxStep
    <3> QED
      BY <3>1
  <2>3. CASE CallbackReturns
    <3>1. pc = "wait" /\ pc' = "service" /\ wakeup /\ wakeup' = FALSE /\ UNCHANGED device
      BY <2>3 DEF CallbackReturns
    <3> QED
      BY <3>1
  <2> QED
    BY <1>2, <2>1, <2>2, <2>3 DEF Worker
<1>3. CASE DeviceCompletes
  <2>1. chains > 0 /\ chains' = chains - 1 /\ UNCHANGED <<worker, wakeup>>
    BY <1>3 DEF DeviceCompletes
  <2>2. pc = "wait" /\ pc' = "wait" /\ ~isr /\ ~wakeup /\ ~wakeup'
    BY <2>1
  <2>3. isr' <=> chains = 1
    BY <1>3, <2>2 DEF DeviceCompletes
  <2> QED
    BY <2>1, <2>2, <2>3
<1>4. CASE IRQServer
  <2>1. isr /\ isr' = FALSE /\ wakeup' = TRUE /\ UNCHANGED <<worker, chains>>
    BY <1>4 DEF IRQServer
  <2> QED
    BY <2>1
<1>5. CASE UNCHANGED vars
  BY <1>5 DEF vars
<1> QED
  BY <1>1, <1>2, <1>3, <1>4, <1>5 DEF Next

\* The head of the list while it is looked at: the others differ from it.
LEMMA OthersInList ==
  ASSUME UnitInvariant, MsgList # << >>, RemoveRequest(Head(MsgList))
  PROVE  \A i \in 1 .. Len(MsgList') :
           \E j \in 1 .. Len(MsgList) :
             MsgList'[i] = MsgList[j] /\ MsgList[j] \in Requests \ {Head(MsgList)}
<1> USE DEF UnitInvariant
<1> SUFFICES ASSUME NEW i \in 1 .. Len(MsgList')
             PROVE  \E j \in 1 .. Len(MsgList) :
                      MsgList'[i] = MsgList[j] /\ MsgList[j] \in Requests \ {Head(MsgList)}
  OBVIOUS
<1>1. i + 1 \in 1 .. Len(MsgList) /\ MsgList'[i] = MsgList[i + 1] /\ i + 1 # 1
  BY Removed
<1>2. MsgList[i + 1] # MsgList[1] /\ Head(MsgList) = MsgList[1]
  BY <1>1, HeadIsFirst DEF ReplyOwed
<1> QED
  BY <1>1, <1>2, Elements

\* Client steps let no request through to its reply.
LEMMA ClientServiceStep ==
  ASSUME OneInterruptInvariant, Client
  PROVE  ServiceProgress' /\ ServedBeforeReply'
<1> USE DEF OneInterruptInvariant, UnitInvariant
<1>1. PICK r \in Requests : \/ \E call \in {"DoIO", "SendIO"} : \E c \in Commands : BeginIO(r, call, c)
                            \/ AbortIO(r)
                            \/ WaitIO(r)
  BY DEF Client
<1>2. CASE WaitIO(r)
  <2>1. UNCHANGED <<request, MsgList, worker>>
    BY <1>2 DEF WaitIO
  <2>2. \A x \in Requests : client'[x] = "replied" => client[x] = "replied"
    BY <1>2 DEF WaitIO, TypeOK
  <2>3. ServiceProgress'
    BY <2>1 DEF ServiceProgress, HasBranch
  <2>4. ServedBeforeReply'
    BY <2>1, <2>2 DEF ServedBeforeReply, HasBranch, NT_REPLYMSG
  <2> QED
    BY <2>3, <2>4
<1>3. CASE AbortIO(r)
  <2>1. UNCHANGED <<io_Command, served, client, MsgList, worker>> /\ pc \in {"check", "wait", "reply"}
    BY <1>3 DEF AbortIO, ClientRuns
  <2>2. /\ io_Error'[r] = "IOERR_ABORTED"
        /\ \A x \in Requests \ {r} : io_Error'[x] = io_Error[x] /\ io_Flags'[x] = io_Flags[x]
    BY <1>3 DEF AbortIO, TypeOK
  <2>3. \A i \in 1 .. Len(MsgList) :
          io_Flags'[MsgList[i]] = {"DONE"} => io_Error'[MsgList[i]] = "IOERR_ABORTED"
    BY <2>2, Elements DEF ServiceProgress
  <2>4. pc = "reply" /\ HasBranch(curr_req) /\ io_Error'[curr_req] = "0" => served[curr_req]
    <3>1. pc = "reply" => curr_req \in Requests
      BY DEF TypeOK
    <3> QED
      BY <2>2, <3>1 DEF ServiceProgress
  <2>5. ServiceProgress'
    BY <2>1, <2>3, <2>4 DEF ServiceProgress, HasBranch
  <2>6. ServedBeforeReply'
    BY <2>1, <2>2 DEF ServedBeforeReply, HasBranch, NT_REPLYMSG
  <2> QED
    BY <2>5, <2>6
<1>4. ASSUME NEW call \in {"DoIO", "SendIO"}, NEW c \in Commands, BeginIO(r, call, c)
      PROVE  ServiceProgress' /\ ServedBeforeReply'
  <2>1. UNCHANGED worker /\ pc \in {"check", "wait", "reply"} /\ client[r] = "idle"
    BY <1>4 DEF BeginIO, ClientRuns
  <2>2. \A x \in Requests \ {r} : /\ io_Command'[x] = io_Command[x] /\ served'[x] = served[x]
                                  /\ io_Error'[x] = io_Error[x] /\ io_Flags'[x] = io_Flags[x]
                                  /\ client'[x] = client[x]
    BY <1>4 DEF BeginIO, EndCommand, QueueCommand, TypeOK
  <2>3. client'[r] # "replied"
    BY <1>4 DEF BeginIO, EndCommand, QueueCommand, TypeOK
  <2>4. ~Held(r)
    BY <2>1 DEF ReplyOwed
  <2>5. \A i \in 1 .. Len(MsgList) : MsgList[i] \in Requests \ {r}
    BY <2>4, Elements DEF Held, Queued
  <2>6. \A i \in 1 .. Len(MsgList') :
          io_Flags'[MsgList'[i]] = {"DONE"} => io_Error'[MsgList'[i]] = "IOERR_ABORTED"
    <3>1. CASE MsgList' = MsgList
      BY <3>1, <2>2, <2>5 DEF ServiceProgress
    <3>2. CASE QueueCommand(r, call)
      <4>1. MsgList \in Seq(Requests) /\ MsgList' = Append(MsgList, r) /\ io_Flags'[r] = {"QUEUED"}
        BY <3>2 DEF QueueCommand, TypeOK
      <4>2. /\ \A i \in 1 .. Len(MsgList) : MsgList'[i] = MsgList[i]
            /\ MsgList'[Len(MsgList) + 1] = r
            /\ \A i \in 1 .. Len(MsgList') : i \in 1 .. Len(MsgList) \/ i = Len(MsgList) + 1
        BY <4>1, AppendProperties, LenProperties
      <4>3. ASSUME NEW i \in 1 .. Len(MsgList), io_Flags'[MsgList'[i]] = {"DONE"}
            PROVE  io_Error'[MsgList'[i]] = "IOERR_ABORTED"
        BY <4>2, <4>3, <2>2, <2>5 DEF ServiceProgress
      <4> QED
        BY <4>1, <4>2, <4>3
    <3> QED
      BY <1>4, <3>1, <3>2 DEF BeginIO, EndCommand
  <2>7. pc = "reply" => curr_req \in Requests \ {r}
    BY <2>4 DEF Held, TypeOK
  <2>8. ServiceProgress'
    BY <2>1, <2>2, <2>6, <2>7 DEF ServiceProgress, HasBranch
  <2>9. ServedBeforeReply'
    BY <2>2, <2>3 DEF ServedBeforeReply, HasBranch, NT_REPLYMSG
  <2> QED
    BY <2>8, <2>9
<1> QED
  BY <1>1, <1>2, <1>3, <1>4

\* With no interrupt but the one it waits for, the worker serves its request
\* before it finishes it.
LEMMA WorkerServiceStep ==
  ASSUME OneInterruptInvariant, Worker
  PROVE  ServiceProgress' /\ ServedBeforeReply'
<1> USE DEF OneInterruptInvariant, UnitInvariant
<1> DEFINE h == Head(MsgList)
<1>1. MsgList # << >> => h \in Requests /\ h = MsgList[1] /\ 1 \in 1 .. Len(MsgList)
  BY HeadIsFirst
<1>2. CASE TakeHead
  <2>1. UNCHANGED <<io_Command, io_Error, served, client, MsgList>> /\ MsgList # << >> /\ pc' = "process" /\ curr_req' = h
    BY <1>2 DEF TakeHead
  <2>2. io_Flags'[h] = {"CURRENT"}
    <3>1. "QUEUED" \in io_Flags[h] /\ ~Serving
      BY <1>2 DEF TakeHead, Serving
    <3>2. io_Flags[h] = {"QUEUED"}
      BY <1>1, <2>1, <3>1 DEF HeadReady
    <3>3. io_Flags' = [io_Flags EXCEPT ![h] = (io_Flags[h] \ {"QUEUED"}) \cup {"CURRENT"}]
      BY <1>2 DEF TakeHead
    <3>4. io_Flags'[h] = (io_Flags[h] \ {"QUEUED"}) \cup {"CURRENT"}
      BY <1>1, <2>1, <3>3 DEF TypeOK
    <3> QED
      BY <3>2, <3>4
  <2>3. \A x \in Requests \ {h} : io_Flags'[x] = io_Flags[x]
    BY <1>2 DEF TakeHead, TypeOK
  <2>4. ServiceProgress'
    BY <2>1, <2>2, <2>3, Elements DEF ServiceProgress
  <2>5. ServedBeforeReply'
    BY <2>1 DEF ServedBeforeReply, HasBranch, NT_REPLYMSG
  <2> QED
    BY <2>4, <2>5
<1>3. CASE ProcessRequest
  <2>1. UNCHANGED <<request, client, MsgList, curr_req>> /\ pc = "process" /\ pc' \in {"service", "finish"}
    BY <1>3 DEF ProcessRequest
  <2>2. pc' = "finish" => ~HasBranch(curr_req)
    BY <1>3, <2>1 DEF ProcessRequest, Serves, HasBranch, ServiceProgress, HeadIsCurrent, Serving
  <2>3. ServiceProgress'
    BY <2>1, <2>2 DEF ServiceProgress, HasBranch
  <2>4. ServedBeforeReply'
    BY <2>1 DEF ServedBeforeReply, HasBranch, NT_REPLYMSG
  <2> QED
    BY <2>3, <2>4
<1>4. CASE StartTransfer \/ CallbackReturns
  BY <1>4 DEF StartTransfer, CallbackReturns, ServiceProgress, ServedBeforeReply, HasBranch, NT_REPLYMSG
<1>5. CASE CacheReturns
  <2>1. UNCHANGED <<io_Command, io_Error, io_Flags, client, MsgList, curr_req>> /\ pc' = "finish"
    BY <1>5 DEF CacheReturns
  <2>2. curr_req = h /\ MsgList # << >>
    BY <1>5 DEF CacheReturns, HeadIsCurrent, Serving
  <2>3. served'[curr_req] /\ \A x \in Requests : served[x] => served'[x]
    BY <1>1, <1>5, <2>2 DEF CacheReturns, TypeOK
  <2>4. ServiceProgress'
    BY <2>1, <2>3 DEF ServiceProgress
  <2>5. ServedBeforeReply'
    BY <2>1, <2>3 DEF ServedBeforeReply, HasBranch, NT_REPLYMSG
  <2> QED
    BY <2>4, <2>5
<1>6. CASE FinishRequest
  <2>1. UNCHANGED <<io_Command, served, client, curr_req>> /\ pc = "finish" /\ pc' = "reply"
    BY <1>6 DEF FinishRequest
  <2>2. curr_req = h /\ MsgList # << >> /\ RemoveRequest(h)
    BY <1>6 DEF FinishRequest, HeadIsCurrent, Serving
  <2>3. \A x \in Requests \ {h} : io_Flags'[x] = io_Flags[x] /\ io_Error'[x] = io_Error[x]
    BY <1>6, <2>2 DEF FinishRequest, TypeOK
  <2>4. \A i \in 1 .. Len(MsgList') :
          io_Flags'[MsgList'[i]] = {"DONE"} => io_Error'[MsgList'[i]] = "IOERR_ABORTED"
    BY <2>2, <2>3, OthersInList DEF ServiceProgress
  <2>5. ServiceProgress'
    BY <2>1, <2>4 DEF ServiceProgress, HasBranch
  <2>6. client[h] # "replied"
    BY <1>1, <2>2 DEF ReplyOwed, Held, Queued
  <2>7. ServedBeforeReply'
    BY <2>1, <2>3, <2>6 DEF ServedBeforeReply, HasBranch, NT_REPLYMSG
  <2> QED
    BY <2>5, <2>7
<1>7. CASE DropAborted
  <2>1. UNCHANGED <<request, client>> /\ pc' = "reply" /\ curr_req' = h /\ MsgList # << >> /\ RemoveRequest(h)
    BY <1>7 DEF DropAborted
  <2>2. io_Flags[h] = {"DONE"}
    BY <1>1, <1>7 DEF DropAborted, HeadReady, Serving
  <2>3. io_Error[h] = "IOERR_ABORTED"
    BY <1>1, <2>1, <2>2 DEF ServiceProgress
  <2>4. \A i \in 1 .. Len(MsgList') :
          io_Flags'[MsgList'[i]] = {"DONE"} => io_Error'[MsgList'[i]] = "IOERR_ABORTED"
    BY <2>1, OthersInList DEF ServiceProgress
  <2>5. ServiceProgress'
    BY <2>1, <2>3, <2>4 DEF ServiceProgress
  <2>6. ServedBeforeReply'
    BY <2>1 DEF ServedBeforeReply, HasBranch, NT_REPLYMSG
  <2> QED
    BY <2>5, <2>6
<1>8. CASE ReplyMsg
  <2>1. UNCHANGED <<request, MsgList>> /\ pc = "reply" /\ pc' = "check"
    BY <1>8 DEF ReplyMsg
  <2>2. \A x \in Requests \ {curr_req} : client'[x] = client[x]
    BY <1>8 DEF ReplyMsg, TypeOK
  <2>3. ServiceProgress'
    BY <2>1 DEF ServiceProgress
  <2>4. ServedBeforeReply'
    BY <2>1, <2>2 DEF ServedBeforeReply, ServiceProgress, HasBranch, NT_REPLYMSG
  <2> QED
    BY <2>3, <2>4
<1> QED
  BY <1>2, <1>3, <1>4, <1>5, <1>6, <1>7, <1>8 DEF Worker

\* The interrupt comes while the worker waits, when CURRENT was tested already.
LEMMA IRQServiceStep ==
  ASSUME OneInterruptInvariant, IRQServer
  PROVE  ServiceProgress' /\ ServedBeforeReply'
<1> USE DEF OneInterruptInvariant, UnitInvariant
<1>1. UNCHANGED <<io_Command, io_Error, served, client, MsgList, worker>>
  BY DEF IRQServer
<1>2. pc = "wait"
  BY DEF IRQServer, OneTransfer
<1>3. \A x \in Requests : io_Flags'[x] = io_Flags[x] \/ "SERVICING" \in io_Flags'[x]
  BY DEF IRQServer, TypeOK
<1>4. ServiceProgress'
  BY <1>1, <1>2, <1>3, Elements DEF ServiceProgress
<1>5. ServedBeforeReply'
  BY <1>1 DEF ServedBeforeReply, HasBranch, NT_REPLYMSG
<1> QED
  BY <1>4, <1>5

LEMMA OneInterruptStep ==
  ASSUME OneInterrupt, OneInterruptInvariant, [Next]_vars
  PROVE  OneInterruptInvariant'
<1>1. UnitInvariant'
  BY UnitStep DEF OneInterruptInvariant
<1>2. OneTransfer'
  BY OneTransferStep DEF OneInterruptInvariant
<1>3. ServiceProgress' /\ ServedBeforeReply'
  <2>1. CASE DeviceCompletes
    BY <2>1 DEF DeviceCompletes, OneInterruptInvariant, ServiceProgress, ServedBeforeReply, HasBranch, NT_REPLYMSG
  <2>2. CASE UNCHANGED vars
    BY <2>2 DEF vars, OneInterruptInvariant, ServiceProgress, ServedBeforeReply, HasBranch, NT_REPLYMSG
  <2> QED
    BY <2>1, <2>2, ClientServiceStep, WorkerServiceStep, IRQServiceStep DEF Next
<1> QED
  BY <1>1, <1>2, <1>3 DEF OneInterruptInvariant

LEMMA OneInterruptInit == Init => OneInterruptInvariant
<1> SUFFICES ASSUME Init PROVE OneInterruptInvariant
  OBVIOUS
<1>1. Len(MsgList) = 0
  BY EmptySeq DEF Init
<1> QED
  BY <1>1, InitInvariant DEF Init, OneInterruptInvariant, OneTransfer, ServiceProgress, ServedBeforeReply, NT_REPLYMSG

(* With one interrupt per notification, a transfer is in one place, and the *)
(* service of a request comes to its end before its reply.                 *)
THEOREM OneInterruptInvariance ==
  ASSUME OneInterrupt
  PROVE  Spec => []OneInterruptInvariant
<1>1. OneInterruptInvariant /\ [Next]_vars => OneInterruptInvariant'
  BY OneInterruptStep
<1> QED
  BY OneInterruptInit, <1>1, PTL DEF Spec

(* If the device interrupts once per transfer, a source callback returns   *)
(* when its transfer is done.                                              *)
THEOREM CallbacksWait ==
  ASSUME OneInterrupt
  PROVE  Spec => []CallbackWaits
<1>1. OneInterruptInvariant => CallbackWaits
  BY DEF OneInterruptInvariant, OneTransfer, CallbackWaits
<1> QED
  BY OneInterruptInvariance, <1>1, PTL

(* If the device interrupts once per transfer, every queued read, write or *)
(* update is served before it is replied to.                               *)
THEOREM ServedFirst ==
  ASSUME OneInterrupt
  PROVE  Spec => []ServedBeforeReply
<1>1. OneInterruptInvariant => ServedBeforeReply
  BY DEF OneInterruptInvariant
<1> QED
  BY OneInterruptInvariance, <1>1, PTL

(* If the device interrupts once per transfer, the interrupt server finds  *)
(* the request it is for at the head of the list.                          *)
THEOREM InterruptsExpected ==
  ASSUME OneInterrupt
  PROVE  Spec => []InterruptExpected
<1>1. OneInterruptInvariant => InterruptExpected
  BY DEF OneInterruptInvariant, UnitInvariant, OneTransfer, InterruptExpected, HeadIsCurrent, Serving
<1> QED
  BY OneInterruptInvariance, <1>1, PTL

-----------------------------------------------------------------------------
(* The queue that the unit's owners see (RequestQueue).                    *)

\* The list without its head.
LEMMA RemovedIsTail ==
  ASSUME UnitInvariant, MsgList # << >>, RemoveRequest(Head(MsgList))
  PROVE  MsgList' = Tail(MsgList)
<1> USE DEF UnitInvariant
<1>1. PICK i \in 1 .. Len(MsgList) : MsgList[i] = Head(MsgList) /\ MsgList' = RemoveAt(MsgList, i)
  BY DEF RemoveRequest
<1>2. i = 1
  BY <1>1, HeadIsFirst DEF ReplyOwed
<1> QED
  BY <1>1, <1>2, RemoveHead DEF TypeOK

\* Taking the head off the list leaves the other requests in it.
LEMMA OthersStay ==
  ASSUME UnitInvariant, MsgList # << >>, RemoveRequest(Head(MsgList)), NEW x \in Requests
  PROVE  Queued(x)' <=> Queued(x) /\ x # Head(MsgList)
<1> USE DEF UnitInvariant
<1> DEFINE h == Head(MsgList)
           n == Len(MsgList)
<1>1. n \in Nat /\ h = MsgList[1]
  BY Elements, HeadIsFirst
<1>2. ASSUME Queued(x)' PROVE Queued(x) /\ x # h
  BY <1>2, OthersInList DEF Queued
<1>3. ASSUME Queued(x), x # h PROVE Queued(x)'
  <2>1. PICK i \in 1 .. n : MsgList[i] = x
    BY <1>3 DEF Queued
  <2>2. i # 1
    BY <2>1, <1>3, <1>1
  <2>3. Len(MsgList') = n - 1 /\ \A k \in 1 .. Len(MsgList') : MsgList'[k] = MsgList[k + 1]
    BY Removed
  <2>4. i - 1 \in 1 .. Len(MsgList') /\ (i - 1) + 1 = i
    BY <2>2, <2>3, <1>1
  <2>5. MsgList'[i - 1] = x
    BY <2>1, <2>3, <2>4
  <2> QED
    BY <2>4, <2>5 DEF Queued
<1> QED
  BY <1>2, <1>3

\* While the worker serves a request, that request is in the list and is
\* neither queued nor done.
LEMMA CurrentInList ==
  ASSUME UnitInvariant, Serving
  PROVE  /\ curr_req \in Requests /\ Queued(curr_req)
         /\ curr_req = Head(MsgList) /\ MsgList # << >>
         /\ io_Flags[curr_req] \in {{"CURRENT"}, {"SERVICING"}}
BY HeadIsFirst DEF UnitInvariant, HeadIsCurrent, Queued

\* The head when the worker looks at it: queued, or aborted.
LEMMA HeadChecked ==
  ASSUME UnitInvariant, pc = "check", MsgList # << >>
  PROVE  /\ Head(MsgList) \in Requests /\ Queued(Head(MsgList))
         /\ io_Flags[Head(MsgList)] \in {{"QUEUED"}, {"DONE"}}
<1> USE DEF UnitInvariant
<1>1. Head(MsgList) = MsgList[1] /\ 1 \in 1 .. Len(MsgList) /\ Head(MsgList) \in Requests
  BY HeadIsFirst
<1>2. ~Serving
  BY DEF Serving
<1> QED
  BY <1>1, <1>2 DEF HeadReady, Queued

LEMMA QueueInit == Init => QueueInvariant
<1> SUFFICES ASSUME Init, NEW r \in Requests PROVE ~Queued(r) /\ "QUEUED" \notin io_Flags[r]
  BY DEF QueueInvariant
<1>1. Len(MsgList) = 0
  BY EmptySeq DEF Init
<1> QED
  BY <1>1 DEF Init, Queued

LEMMA QueueClientStep ==
  ASSUME UnitInvariant, QueueInvariant, Client
  PROVE  QueueInvariant'
<1> USE DEF UnitInvariant
<1>1. PICK r \in Requests : \/ \E call \in {"DoIO", "SendIO"} : \E c \in Commands : BeginIO(r, call, c)
                            \/ AbortIO(r)
                            \/ WaitIO(r)
  BY DEF Client
<1>2. CASE WaitIO(r)
  BY <1>2 DEF WaitIO, QueueInvariant, Queued
<1>3. CASE AbortIO(r)
  <2>1. UNCHANGED <<served, MsgList, worker>> /\ "QUEUED" \in io_Flags[r] /\ ClientRuns
    BY <1>3 DEF AbortIO
  <2>2. \A x \in Requests : Queued(x)' <=> Queued(x)
    BY <2>1 DEF Queued
  <2>3. \A x \in Requests \ {r} : io_Flags'[x] = io_Flags[x] /\ io_Error'[x] = io_Error[x]
    BY <1>3 DEF AbortIO, TypeOK
  <2>4. io_Error'[r] = "IOERR_ABORTED" /\ io_Flags'[r] = (io_Flags[r] \ {"QUEUED"}) \cup {"DONE"}
    BY <1>3 DEF AbortIO, TypeOK
  <2>5. Queued(r)
    BY <2>1 DEF QueueInvariant
  <2>6. io_Flags[r] = {"QUEUED"}
    BY <2>1, <2>5, HeadIsFirst DEF HeadReady, HeadIsCurrent, Queued
  <2>7. io_Flags'[r] = {"DONE"}
    BY <2>4, <2>6
  <2> QED
    BY <2>1, <2>2, <2>3, <2>4, <2>7 DEF QueueInvariant
<1>4. ASSUME NEW call \in {"DoIO", "SendIO"}, NEW c \in Commands, BeginIO(r, call, c)
      PROVE  QueueInvariant'
  <2>1. UNCHANGED worker /\ client[r] = "idle" /\ served'[r] = FALSE
    BY <1>4 DEF BeginIO, TypeOK
  <2>2. \A x \in Requests \ {r} : io_Flags'[x] = io_Flags[x] /\ io_Error'[x] = io_Error[x] /\ served'[x] = served[x]
    BY <1>4 DEF BeginIO, EndCommand, QueueCommand, TypeOK
  <2>3. ~Queued(r)
    BY <2>1 DEF ReplyOwed, Held
  <2>4. CASE \E error \in Results(c) : EndCommand(r, call, c, error)
    <3>1. UNCHANGED MsgList /\ "QUEUED" \notin io_Flags'[r]
      BY <2>4 DEF EndCommand, TypeOK
    <3>2. \A x \in Requests : Queued(x)' <=> Queued(x)
      BY <3>1 DEF Queued
    <3> QED
      BY <2>1, <2>2, <2>3, <3>1, <3>2 DEF QueueInvariant
  <2>5. CASE QueueCommand(r, call)
    <3>1. MsgList \in Seq(Requests) /\ MsgList' = Append(MsgList, r)
      BY <2>5 DEF QueueCommand, TypeOK
    <3>2. io_Flags'[r] = {"QUEUED"} /\ io_Error'[r] = "0"
      BY <2>5 DEF QueueCommand, TypeOK
    <3>3. \A x \in Requests : Queued(x)' <=> Queued(x) \/ x = r
      BY <3>1, AppendProperties, LenProperties DEF Queued
    <3> QED
      BY <2>1, <2>2, <3>2, <3>3 DEF QueueInvariant
  <2> QED
    BY <1>4, <2>4, <2>5 DEF BeginIO
<1> QED
  BY <1>1, <1>2, <1>3, <1>4

LEMMA QueueWorkerStep ==
  ASSUME UnitInvariant, QueueInvariant, Worker
  PROVE  QueueInvariant'
<1> USE DEF UnitInvariant
<1> DEFINE h == Head(MsgList)
<1>1. CASE TakeHead
  <2>1. pc = "check" /\ MsgList # << >> /\ "QUEUED" \in io_Flags[h] /\ UNCHANGED <<io_Error, served, MsgList>>
    BY <1>1 DEF TakeHead
  <2>2. h \in Requests /\ Queued(h) /\ io_Flags[h] = {"QUEUED"}
    BY <2>1, HeadChecked
  <2>3. io_Flags' = [io_Flags EXCEPT ![h] = (io_Flags[h] \ {"QUEUED"}) \cup {"CURRENT"}]
    BY <1>1 DEF TakeHead
  <2>4. io_Flags'[h] = (io_Flags[h] \ {"QUEUED"}) \cup {"CURRENT"}
    BY <2>2, <2>3 DEF TypeOK
  <2>5. io_Flags'[h] = {"CURRENT"}
    BY <2>2, <2>4
  <2>6. \A x \in Requests \ {h} : io_Flags'[x] = io_Flags[x]
    BY <2>3 DEF TypeOK
  <2>7. \A x \in Requests : Queued(x)' <=> Queued(x)
    BY <2>1 DEF Queued
  <2>8. \A x \in Requests : ~(Queued(x) /\ served[x])
    BY <2>1 DEF QueueInvariant
  <2> QED
    BY <2>1, <2>2, <2>5, <2>6, <2>7, <2>8 DEF QueueInvariant
<1>2. CASE ProcessRequest \/ StartTransfer \/ CallbackReturns
  <2>1. UNCHANGED <<request, MsgList, curr_req>> /\ pc # "finish"
    BY <1>2 DEF ProcessRequest, StartTransfer, CallbackReturns
  <2> QED
    BY <2>1 DEF QueueInvariant, Queued
<1>3. CASE CacheReturns
  <2>1. UNCHANGED <<io_Flags, io_Error, MsgList, curr_req>> /\ pc = "service" /\ pc' = "finish"
    BY <1>3 DEF CacheReturns
  <2>2. Serving
    BY <2>1 DEF Serving
  <2>3. \A x \in Requests \ {curr_req} : served'[x] = served[x]
    BY <1>3, <2>2, CurrentInList DEF CacheReturns, TypeOK
  <2>4. \A x \in Requests : Queued(x)' <=> Queued(x)
    BY <2>1 DEF Queued
  <2> QED
    BY <2>1, <2>3, <2>4 DEF QueueInvariant
<1>4. CASE FinishRequest
  <2>1. UNCHANGED <<served, curr_req>> /\ pc = "finish" /\ pc' = "reply" /\ RemoveRequest(curr_req)
    BY <1>4 DEF FinishRequest
  <2>2. Serving
    BY <2>1 DEF Serving
  <2>3. /\ curr_req \in Requests /\ curr_req = h /\ MsgList # << >>
        /\ io_Flags[curr_req] \in {{"CURRENT"}, {"SERVICING"}}
    BY <2>2, CurrentInList
  <2>4. \A x \in Requests : Queued(x)' <=> Queued(x) /\ x # h
    BY <2>1, <2>3, OthersStay
  <2>5. \A x \in Requests \ {h} : io_Flags'[x] = io_Flags[x] /\ io_Error'[x] = io_Error[x]
    BY <1>4, <2>3 DEF FinishRequest, TypeOK
  <2>6. io_Flags'[curr_req] = (io_Flags[curr_req] \ {"CURRENT"}) \cup {"DONE"}
    BY <1>4, <2>3 DEF FinishRequest, TypeOK
  <2>7. "QUEUED" \notin io_Flags'[h]
    BY <2>3, <2>6
  <2> QED
    BY <2>1, <2>3, <2>4, <2>5, <2>7 DEF QueueInvariant
<1>5. CASE DropAborted
  <2>1. UNCHANGED request /\ MsgList # << >> /\ pc = "check" /\ RemoveRequest(h) /\ "QUEUED" \notin io_Flags[h]
    BY <1>5 DEF DropAborted
  <2>2. \A x \in Requests : Queued(x)' <=> Queued(x) /\ x # h
    BY <2>1, OthersStay
  <2> QED
    BY <2>1, <2>2 DEF QueueInvariant
<1>6. CASE ReplyMsg
  <2>1. UNCHANGED <<request, MsgList>> /\ pc = "reply"
    BY <1>6 DEF ReplyMsg
  <2> QED
    BY <2>1 DEF QueueInvariant, Queued
<1> QED
  BY <1>1, <1>2, <1>3, <1>4, <1>5, <1>6 DEF Worker

LEMMA QueueIRQStep ==
  ASSUME UnitInvariant, QueueInvariant, IRQServer
  PROVE  QueueInvariant'
<1> USE DEF UnitInvariant
<1> DEFINE h == Head(MsgList)
<1>1. UNCHANGED <<io_Error, served, MsgList, worker>>
  BY DEF IRQServer
<1>2. \A x \in Requests : Queued(x)' <=> Queued(x)
  BY <1>1 DEF Queued
<1>3. CASE MsgList # << >> /\ "CURRENT" \in io_Flags[h]
  <2>1. h = MsgList[1] /\ 1 \in 1 .. Len(MsgList) /\ h \in Requests
    BY <1>3, HeadIsFirst
  <2>2. Queued(h) /\ io_Flags[h] = {"CURRENT"}
    BY <1>3, <2>1 DEF HeadReady, HeadIsCurrent, Queued
  <2>3. io_Flags' = [io_Flags EXCEPT ![h] = (io_Flags[h] \ {"CURRENT"}) \cup {"SERVICING"}]
    BY <1>3 DEF IRQServer
  <2>4. io_Flags'[h] = (io_Flags[h] \ {"CURRENT"}) \cup {"SERVICING"}
    BY <2>1, <2>3 DEF TypeOK
  <2>5. io_Flags'[h] = {"SERVICING"}
    BY <2>2, <2>4
  <2>6. \A x \in Requests \ {h} : io_Flags'[x] = io_Flags[x]
    BY <2>3 DEF TypeOK
  <2> QED
    BY <1>1, <1>2, <2>2, <2>5, <2>6 DEF QueueInvariant
<1>4. CASE ~(MsgList # << >> /\ "CURRENT" \in io_Flags[h])
  <2>1. io_Flags' = io_Flags
    BY <1>4 DEF IRQServer
  <2> QED
    BY <1>1, <1>2, <2>1 DEF QueueInvariant
<1> QED
  BY <1>3, <1>4

LEMMA QueueInvariantStep ==
  ASSUME UnitInvariant, QueueInvariant, [Next]_vars
  PROVE  QueueInvariant'
<1>1. CASE DeviceCompletes \/ UNCHANGED vars
  BY <1>1 DEF DeviceCompletes, vars, QueueInvariant, Queued
<1> QED
  BY <1>1, QueueClientStep, QueueWorkerStep, QueueIRQStep DEF Next

\* A sequence with one more element in front of it.
LEMMA PutInFront ==
  ASSUME NEW x \in Requests, NEW s \in Seq(Requests)
  PROVE  /\ <<x>> \o s \in Seq(Requests)
         /\ <<x>> \o s # << >>
         /\ Len(<<x>> \o s) = Len(s) + 1
         /\ Head(<<x>> \o s) = x
         /\ Tail(<<x>> \o s) = s
         /\ \A i \in 1 .. Len(s) : (<<x>> \o s)[i + 1] = s[i]
<1> DEFINE t == <<x>> \o s
<1>1. <<x>> \in Seq(Requests) /\ Len(<<x>>) = 1 /\ <<x>>[1] = x /\ Len(s) \in Nat
  BY LenProperties
<1>2. t \in Seq(Requests) /\ Len(t) = Len(s) + 1
  BY <1>1, ConcatProperties
<1>3. t[1] = x
  BY <1>1, ConcatProperties
<1>4. ASSUME NEW i \in 1 .. Len(s) PROVE t[i + 1] = s[i]
  <2>1. i + 1 \in 1 .. 1 + Len(s) /\ ~(i + 1 <= 1) /\ (i + 1) - 1 = i
    BY <1>1
  <2> QED
    BY <1>1, <2>1, ConcatProperties
<1>5. t # << >>
  BY <1>1, <1>2, EmptySeq
<1>6. Head(t) = x
  BY <1>2, <1>3, <1>5
<1>7. Tail(t) = s
  <2>1. Tail(t) \in Seq(Requests) /\ Len(Tail(t)) = Len(s)
    BY <1>1, <1>2, <1>5, HeadTailProperties
  <2>2. \A i \in 1 .. Len(s) : Tail(t)[i] = s[i]
    BY <1>2, <1>4, <1>5, <2>1, HeadTailProperties
  <2> QED
    BY <2>1, <2>2, SeqEqual
<1> QED
  BY <1>2, <1>4, <1>5, <1>6, <1>7

\* What is taken off a list and put in front of the rest is the list again.
LEMMA FrontAgain ==
  ASSUME NEW s \in Seq(Requests), s # << >>
  PROVE  <<Head(s)>> \o Tail(s) = s
<1> DEFINE t == <<Head(s)>> \o Tail(s)
<1>1. Head(s) \in Requests /\ Tail(s) \in Seq(Requests) /\ Len(Tail(s)) = Len(s) - 1 /\ Len(s) \in Nat
  BY HeadTailProperties, LenProperties
<1>2. t \in Seq(Requests) /\ Len(t) = Len(s) /\ t # << >> /\ Head(t) = Head(s)
  BY <1>1, PutInFront
<1>3. ASSUME NEW i \in 1 .. Len(t) PROVE t[i] = s[i]
  <2>1. CASE i = 1
    BY <1>2, <2>1
  <2>2. CASE i # 1
    <3>1. i - 1 \in 1 .. Len(Tail(s)) /\ (i - 1) + 1 = i
      BY <1>1, <1>2, <2>2
    <3>2. t[(i - 1) + 1] = Tail(s)[i - 1]
      BY <1>1, <3>1, PutInFront
    <3>3. Tail(s)[i - 1] = s[(i - 1) + 1]
      BY <3>1, HeadTailProperties
    <3> QED
      BY <3>1, <3>2, <3>3
  <2> QED
    BY <2>1, <2>2
<1> QED
  BY <1>2, <1>3, SeqEqual

\* A step that leaves the list and the place of the worker alone leaves the
\* queue alone.
LEMMA SameQueue ==
  ASSUME UNCHANGED <<MsgList, curr_req, pc>>
  PROVE  UNCHANGED <<HeldQueue, HeadState>>
BY DEF HeldQueue, HeadState

\* Nor does a step within the service of a request.
LEMMA ServingQueue ==
  ASSUME UNCHANGED <<MsgList, curr_req>>, Serving, Serving'
  PROVE  UNCHANGED <<HeldQueue, HeadState>>
BY DEF HeldQueue, HeadState, Serving

\* Outside "reply" the queue is the list; the worker has what is at its head.
LEMMA QueueIsList ==
  /\ pc # "reply" => HeldQueue = MsgList
  /\ pc = "reply" => HeldQueue = <<curr_req>> \o MsgList /\ HeadState = "done"
  /\ pc = "check" => HeadState = "queued"
  /\ Serving => HeadState = "serving"
BY DEF HeldQueue, HeadState, Serving

LEMMA HeldAppend ==
  ASSUME TypeOK, NEW r \in Requests, MsgList' = Append(MsgList, r), UNCHANGED <<pc, curr_req>>
  PROVE  HeldQueue' = Append(HeldQueue, r)
<1>1. CASE pc = "reply"
  <2>1. curr_req \in Requests /\ MsgList \in Seq(Requests)
    BY <1>1 DEF TypeOK
  <2>2. <<curr_req>> \in Seq(Requests) /\ <<r>> \in Seq(Requests)
    BY <2>1
  <2>3. (<<curr_req>> \o MsgList) \o <<r>> = <<curr_req>> \o (MsgList \o <<r>>)
    BY <2>1, <2>2, ConcatAssociative
  <2>4. Append(MsgList, r) = MsgList \o <<r>>
    BY <2>1, AppendIsConcat
  <2>5. Append(<<curr_req>> \o MsgList, r) = (<<curr_req>> \o MsgList) \o <<r>>
    BY <2>1, PutInFront, AppendIsConcat
  <2> QED
    BY <1>1, <2>3, <2>4, <2>5 DEF HeldQueue
<1>2. CASE pc # "reply"
  BY <1>2 DEF HeldQueue
<1> QED
  BY <1>1, <1>2

\* What is known of the queue when the worker replies to its head.
LEMMA HeldInFront ==
  ASSUME TypeOK, pc = "reply"
  PROVE  /\ curr_req \in Requests
         /\ HeldQueue = <<curr_req>> \o MsgList
         /\ Head(HeldQueue) = curr_req /\ Tail(HeldQueue) = MsgList
         /\ Len(HeldQueue) = Len(MsgList) + 1
         /\ \A i \in 1 .. Len(MsgList) : HeldQueue[i + 1] = MsgList[i]
<1>1. curr_req \in Requests /\ MsgList \in Seq(Requests)
  BY DEF TypeOK
<1>2. HeldQueue = <<curr_req>> \o MsgList
  BY QueueIsList
<1> QED
  BY <1>1, <1>2, PutInFront

QueueReady == UnitInvariant /\ QueueInvariant /\ (OneInterrupt => OneInterruptInvariant)

LEMMA BeginRefines ==
  ASSUME UnitInvariant, NEW r \in Requests, NEW call \in {"DoIO", "SendIO"}, NEW c \in Commands,
         BeginIO(r, call, c)
  PROVE  Queue!Next
<1> USE DEF UnitInvariant
<1>1. Queue!Sends(r, c) /\ UNCHANGED worker
  BY DEF BeginIO, Queue!Sends
<1>2. ASSUME NEW error \in Results(c), EndCommand(r, call, c, error)
      PROVE  Queue!EndAtOnce(r, call, c)
  <2>1. error \in {"0", "BLK_ERR_NotEnoughSectors", "IOERR_NOCMD"}
    BY DEF Results
  <2>2. io_Flags'[r] = IF call = "DoIO" THEN {"QUICK"} ELSE {}
    BY <1>2 DEF EndCommand, TypeOK
  <2>3. "QUICK" \in io_Flags'[r] <=> call = "DoIO"
    BY <2>2
  <2>4. client' = [client EXCEPT ![r] = IF "QUICK" \in io_Flags'[r] THEN "idle" ELSE call]
    BY <1>2 DEF EndCommand
  <2>5. client' = [client EXCEPT ![r] = IF call = "DoIO" THEN "idle" ELSE call]
    BY <2>3, <2>4
  <2>6. UNCHANGED <<HeldQueue, HeadState>>
    BY <1>1, <1>2, SameQueue DEF EndCommand
  <2>7. io_Error' = [io_Error EXCEPT ![r] = error]
    BY <1>2 DEF EndCommand
  <2> QED
    BY <1>1, <2>1, <2>5, <2>6, <2>7 DEF Queue!EndAtOnce
<1>3. ASSUME c \in Queueable, QueueCommand(r, call)
      PROVE  Queue!Enqueue(r, call, c)
  <2>1. HeldQueue' = Append(HeldQueue, r)
    BY <1>1, <1>3, HeldAppend DEF QueueCommand
  <2>2. HeadState' = HeadState
    BY <1>1 DEF HeadState
  <2> QED
    BY <1>1, <1>3, <2>1, <2>2 DEF QueueCommand, Queue!Enqueue
<1>4. Queue!EndAtOnce(r, call, c) \/ Queue!Enqueue(r, call, c)
  BY <1>2, <1>3 DEF BeginIO
<1> QED
  BY <1>4 DEF Queue!Next

LEMMA AbortRefines ==
  ASSUME UnitInvariant, QueueInvariant, NEW r \in Requests, AbortIO(r)
  PROVE  Queue!Abort(r)
<1> USE DEF UnitInvariant
<1>1. /\ UNCHANGED <<io_Command, client, served, MsgList, worker>>
      /\ io_Error' = [io_Error EXCEPT ![r] = "IOERR_ABORTED"]
      /\ "QUEUED" \in io_Flags[r] /\ pc \in {"check", "wait", "reply"}
  BY DEF AbortIO, ClientRuns
<1>2. PICK i \in 1 .. Len(MsgList) : MsgList[i] = r
  BY <1>1 DEF QueueInvariant, Queued
<1>3. Len(MsgList) \in Nat
  BY Elements
<1>4. \E k \in 1 .. Len(HeldQueue) : HeldQueue[k] = r /\ (k = 1 => HeadState = "queued")
  <2>1. CASE pc = "check"
    BY <1>2, <2>1, QueueIsList
  <2>2. CASE pc = "wait"
    <3>1. Serving
      BY <2>2 DEF Serving
    <3>2. i # 1
      BY <1>1, <1>2, <3>1, HeadIsFirst DEF HeadIsCurrent
    <3> QED
      BY <1>2, <2>2, <3>2, QueueIsList
  <2>3. CASE pc = "reply"
    <3>1. i + 1 \in 1 .. Len(HeldQueue) /\ HeldQueue[i + 1] = r /\ i + 1 # 1
      BY <1>2, <1>3, <2>3, HeldInFront
    <3> QED
      BY <3>1
  <2> QED
    BY <1>1, <2>1, <2>2, <2>3
<1>5. UNCHANGED <<HeldQueue, HeadState>>
  BY <1>1, SameQueue
<1> QED
  BY <1>1, <1>4, <1>5 DEF Queue!Abort

LEMMA WorkerRefines ==
  ASSUME QueueReady, Worker
  PROVE  [Queue!Next]_(Queue!vars)
<1> USE DEF QueueReady, UnitInvariant
<1> DEFINE h == Head(MsgList)
<1>1. MsgList \in Seq(Requests)
  BY DEF TypeOK
<1>2. CASE TakeHead
  <2>1. /\ UNCHANGED <<io_Command, io_Error, client, served, MsgList>>
        /\ pc = "check" /\ pc' = "process" /\ MsgList # << >> /\ "QUEUED" \in io_Flags[h]
    BY <1>2 DEF TakeHead
  <2>2. h \in Requests /\ Queued(h) /\ io_Flags[h] # {"DONE"}
    BY <2>1, HeadChecked
  <2>3. io_Error[h] = "0"
    BY <2>2 DEF QueueInvariant
  <2>4. HeldQueue = MsgList /\ HeldQueue' = MsgList /\ HeadState = "queued" /\ HeadState' = "serving"
    BY <2>1 DEF HeldQueue, HeadState
  <2>5. Queue!Take
    BY <2>1, <2>3, <2>4 DEF Queue!Take
  <2> QED
    BY <2>5 DEF Queue!Next
<1>3. CASE ProcessRequest \/ StartTransfer \/ CallbackReturns
  <2>1. UNCHANGED <<request, client, MsgList, curr_req>> /\ Serving /\ Serving'
    BY <1>3 DEF ProcessRequest, StartTransfer, CallbackReturns, Serving
  <2>2. UNCHANGED <<HeldQueue, HeadState>>
    BY <2>1, ServingQueue
  <2> QED
    BY <2>1, <2>2 DEF Queue!vars
<1>4. CASE CacheReturns
  <2>1. /\ UNCHANGED <<io_Command, io_Error, client, MsgList, curr_req>>
        /\ pc = "service" /\ pc' = "finish"
        /\ served' = [served EXCEPT ![h] = TRUE]
    BY <1>4 DEF CacheReturns
  <2>2. HeldQueue = MsgList /\ HeldQueue' = MsgList /\ HeadState = "serving" /\ HeadState' = "serving"
    BY <2>1 DEF HeldQueue, HeadState
  <2>3. h \in Requests /\ Queued(h)
    BY <2>1, CurrentInList DEF Serving
  <2>4. ~served[h]
    BY <2>1, <2>3 DEF QueueInvariant
  <2>5. Queue!Serve
    BY <2>1, <2>2, <2>4 DEF Queue!Serve
  <2> QED
    BY <2>5 DEF Queue!Next
<1>5. CASE FinishRequest
  <2>1. /\ UNCHANGED <<io_Command, client, served, curr_req>>
        /\ pc = "finish" /\ pc' = "reply" /\ RemoveRequest(curr_req)
        /\ io_Error' = [io_Error EXCEPT ![curr_req] = "0"]
    BY <1>5 DEF FinishRequest
  <2>2. /\ curr_req \in Requests /\ Queued(curr_req) /\ curr_req = h /\ MsgList # << >>
        /\ io_Flags[curr_req] # {"DONE"}
    BY <2>1, CurrentInList DEF Serving
  <2>3. io_Error[curr_req] = "0"
    BY <2>2 DEF QueueInvariant
  <2>4. io_Error' = io_Error
    BY <2>1, <2>2, <2>3 DEF TypeOK
  <2>5. MsgList' = Tail(MsgList)
    BY <2>1, <2>2, RemovedIsTail
  <2>6. HeldQueue' = MsgList /\ HeldQueue = MsgList /\ HeadState = "serving" /\ HeadState' = "done"
    BY <1>1, <2>1, <2>2, <2>5, FrontAgain DEF HeldQueue, HeadState
  <2>7. io_Command[h] \in MustServe => served[h]
    BY <2>1, <2>2 DEF MustServe, OneInterruptInvariant, ServiceProgress, HasBranch
  <2>8. Queue!Finish
    BY <2>1, <2>4, <2>6, <2>7 DEF Queue!Finish
  <2> QED
    BY <2>8 DEF Queue!Next
<1>6. CASE DropAborted
  <2>1. /\ UNCHANGED <<request, client>>
        /\ pc = "check" /\ pc' = "reply" /\ curr_req' = h /\ MsgList # << >> /\ RemoveRequest(h)
        /\ "QUEUED" \notin io_Flags[h]
    BY <1>6 DEF DropAborted
  <2>2. h \in Requests /\ Queued(h) /\ io_Flags[h] = {"DONE"}
    BY <2>1, HeadChecked
  <2>3. io_Error[h] = "IOERR_ABORTED"
    BY <2>2 DEF QueueInvariant
  <2>4. MsgList' = Tail(MsgList)
    BY <2>1, RemovedIsTail
  <2>5. HeldQueue' = MsgList /\ HeldQueue = MsgList /\ HeadState = "queued" /\ HeadState' = "done"
    BY <1>1, <2>1, <2>4, FrontAgain DEF HeldQueue, HeadState
  <2>6. Queue!PassOver
    BY <2>1, <2>3, <2>5 DEF Queue!PassOver
  <2> QED
    BY <2>6 DEF Queue!Next
<1>7. CASE ReplyMsg
  <2>1. /\ UNCHANGED <<request, MsgList>>
        /\ pc = "reply" /\ pc' = "check"
        /\ client' = [client EXCEPT ![curr_req] = "replied"]
    BY <1>7 DEF ReplyMsg
  <2>2. Head(HeldQueue) = curr_req /\ Tail(HeldQueue) = MsgList /\ curr_req \in Requests
    BY <2>1, HeldInFront
  <2>3. HeldQueue' = MsgList /\ HeadState = "done" /\ HeadState' = "queued"
    BY <2>1 DEF HeldQueue, HeadState
  <2>4. client[curr_req] \in {"DoIO", "SendIO"}
    BY <2>1, <2>2 DEF ReplyOwed, Held
  <2>5. Queue!Reply
    BY <2>1, <2>2, <2>3, <2>4 DEF Queue!Reply
  <2> QED
    BY <2>5 DEF Queue!Next
<1> QED
  BY <1>2, <1>3, <1>4, <1>5, <1>6, <1>7 DEF Worker

LEMMA QueueStep ==
  ASSUME QueueReady, [Next]_vars
  PROVE  [Queue!Next]_(Queue!vars)
<1> USE DEF QueueReady
<1>1. CASE Client
  <2>1. PICK r \in Requests : \/ \E call \in {"DoIO", "SendIO"} : \E c \in Commands : BeginIO(r, call, c)
                              \/ AbortIO(r)
                              \/ WaitIO(r)
    BY <1>1 DEF Client
  <2>2. CASE \E call \in {"DoIO", "SendIO"} : \E c \in Commands : BeginIO(r, call, c)
    BY <2>2, BeginRefines
  <2>3. CASE AbortIO(r)
    BY <2>3, AbortRefines DEF Queue!Next
  <2>4. CASE WaitIO(r)
    <3>1. UNCHANGED <<HeldQueue, HeadState>>
      BY <2>4, SameQueue DEF WaitIO
    <3>2. Queue!Collect(r)
      BY <2>4, <3>1 DEF WaitIO, NT_REPLYMSG, Queue!Collect
    <3> QED
      BY <3>2 DEF Queue!Next
  <2> QED
    BY <2>1, <2>2, <2>3, <2>4
<1>2. CASE DeviceCompletes \/ IRQServer \/ UNCHANGED vars
  <2>1. UNCHANGED <<io_Command, io_Error, client, served, MsgList, worker>>
    BY <1>2 DEF DeviceCompletes, IRQServer, vars
  <2>2. UNCHANGED <<HeldQueue, HeadState>>
    BY <2>1, SameQueue
  <2> QED
    BY <2>1, <2>2 DEF Queue!vars
<1> QED
  BY <1>1, <1>2, WorkerRefines DEF Next

(* A unit keeps the promise of RequestQueue, for any number of requests,   *)
(* however its clients, the worker, the device and the interrupt server    *)
(* interleave.                                                             *)
THEOREM QueueRefinement == Spec => ImplementsQueue
<1>1. Init => Queue!Init
  <2> SUFFICES ASSUME Init PROVE Queue!Init
    OBVIOUS
  <2>1. HeldQueue = << >> /\ HeadState = "queued"
    BY DEF Init, HeldQueue, HeadState
  <2> QED
    BY <2>1 DEF Init, Queue!Init
<1>2. Init => QueueReady
  <2>1. Init => (OneInterrupt => OneInterruptInvariant)
    BY OneInterruptInit
  <2> QED
    BY <2>1, InitInvariant, QueueInit DEF QueueReady
<1>3. QueueReady /\ [Next]_vars => QueueReady'
  BY UnitStep, QueueInvariantStep, OneInterruptStep DEF QueueReady
<1>4. QueueReady /\ [Next]_vars => [Queue!Next]_(Queue!vars)
  BY QueueStep
<1> QED
  BY <1>1, <1>2, <1>3, <1>4, PTL DEF Spec, ImplementsQueue, Queue!Spec

-----------------------------------------------------------------------------
(* The handshake with the device.                                          *)

LEMMA HandshakeStep ==
  ASSUME [Next]_vars
  PROVE  [Signals!Next]_(Signals!vars)
<1>1. ASSUME UNCHANGED <<chains, isr, wakeup>>, pc # "wait", pc' # "wait" PROVE UNCHANGED Signals!vars
  BY <1>1 DEF Signals!vars
<1>2. ASSUME UNCHANGED <<pc, chains, isr, wakeup>> PROVE UNCHANGED Signals!vars
  BY <1>2 DEF Signals!vars
<1>3. CASE Client
  BY <1>2, <1>3 DEF Client, BeginIO, AbortIO, WaitIO, worker, device
<1>4. CASE TakeHead \/ ProcessRequest \/ CacheReturns \/ FinishRequest \/ DropAborted \/ ReplyMsg
  BY <1>1, <1>4 DEF TakeHead, ProcessRequest, CacheReturns, FinishRequest, DropAborted, ReplyMsg, device
<1>5. CASE StartTransfer
  <2>1. Signals!Offer
    BY <1>5 DEF StartTransfer, Signals!Offer
  <2> QED
    BY <2>1 DEF Signals!Next
<1>6. CASE CallbackReturns
  <2>1. Signals!CallbackReturns
    BY <1>6 DEF CallbackReturns, device, Signals!CallbackReturns
  <2> QED
    BY <2>1 DEF Signals!Next
<1>7. CASE DeviceCompletes
  <2>1. Signals!DeviceCompletes
    BY <1>7 DEF DeviceCompletes, worker, Signals!DeviceCompletes
  <2> QED
    BY <2>1 DEF Signals!Next
<1>8. CASE IRQServer
  <2>1. Signals!IRQServer
    BY <1>8 DEF IRQServer, worker, Signals!IRQServer
  <2> QED
    BY <2>1 DEF Signals!Next
<1>9. CASE UNCHANGED vars
  BY <1>2, <1>9 DEF vars, worker, device
<1> QED
  BY <1>3, <1>4, <1>5, <1>6, <1>7, <1>8, <1>9 DEF Next, Worker

(* A unit uses its device as a callback of Transfer does, whatever device. *)
THEOREM HandshakeRefinement == Spec => ImplementsHandshake
<1>1. Init => Signals!Init
  BY DEF Init, Signals!Init
<1>2. [Next]_vars => [Signals!Next]_(Signals!vars)
  BY HandshakeStep
<1> QED
  BY <1>1, <1>2, PTL DEF Spec, ImplementsHandshake, Signals!Spec
=============================================================================
