----------------------------- MODULE Handshake -----------------------------
(***************************************************************************)
(* A source callback seen from outside: the worker offers the device some  *)
(* executions of a chain and waits for the signal that the interrupt       *)
(* server sends it. VirtioBlkUnit and Transfer describe the same callback  *)
(* with different detail, and both implement this.                         *)
(***************************************************************************)
EXTENDS Integers

CONSTANTS IdxStep,      \* executions offered by one callback
          OneInterrupt  \* the device interrupts once for all it was notified of

VARIABLES
  waiting,      \* the worker has offered a transfer and is in its callback
  chains,       \* executions the device has not completed
  isr, wakeup   \* its interrupt, and the signal, are pending

vars == <<waiting, chains, isr, wakeup>>

Init == ~waiting /\ chains = 0 /\ ~isr /\ ~wakeup

Offer ==
  /\ ~waiting
  /\ waiting' = TRUE
  /\ chains' = chains + IdxStep
  /\ UNCHANGED <<isr, wakeup>>

DeviceCompletes ==
  /\ chains > 0
  /\ chains' = chains - 1
  /\ isr' = (isr \/ ~OneInterrupt \/ chains = 1)
  /\ UNCHANGED <<waiting, wakeup>>

IRQServer ==
  /\ isr
  /\ isr' = FALSE
  /\ wakeup' = TRUE
  /\ UNCHANGED <<waiting, chains>>

CallbackReturns ==
  /\ waiting
  /\ wakeup
  /\ waiting' = FALSE
  /\ wakeup' = FALSE
  /\ UNCHANGED <<chains, isr>>

Next == Offer \/ DeviceCompletes \/ IRQServer \/ CallbackReturns

Spec == Init /\ [][Next]_vars
=============================================================================
