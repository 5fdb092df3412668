------------------------------- MODULE CanBus -------------------------------
(***************************************************************************)
(* can/can_bus.cpp over the TWAI driver: transmitting into a car that may  *)
(* be asleep, the controller latching into bus-off, and the recovery that  *)
(* failed transmits kick off one step at a time.                           *)
(*                                                                         *)
(* The driver and the car are not part of src/; they are modelled from     *)
(* what can_bus.cpp says and assumes of them.                              *)
(***************************************************************************)
EXTENDS Naturals

CONSTANTS TxQueueLen,  \* tx_queue_len
          MaxSleeps    \* bound: times the car falls asleep

ASSUME CanBusAssumption == TxQueueLen \in Nat \ {0} /\ MaxSleeps \in Nat

VARIABLES driver,    \* "Absent" | "Stopped" | "Running" | "BusOff" | "Recovering"
          queued,    \* frames in the transmit queue
          car,       \* "awake" | "asleep"
          task,      \* "idle" | "transmit" | "recover"
          (* history *)
          sleeps,    \* times the car fell asleep
          failures   \* transmits since it last woke that found the driver
                     \* neither running nor at work on its recovery

vars == <<driver, queued, car, task, sleeps, failures>>

\* canBusBegin: a failed install leaves no driver, a failed start a stopped
\* one; setup() goes on in either case.
Init == /\ driver \in {"Running", "Stopped", "Absent"}
        /\ queued = 0 /\ car \in {"awake", "asleep"}
        /\ task = "idle" /\ sleeps = 0 /\ failures = 0

Request ==
    /\ task = "idle"
    /\ task' = "transmit"
    /\ UNCHANGED <<driver, queued, car, sleeps, failures>>

Taken == driver = "Running" /\ queued < TxQueueLen

\* canBusTransmit: twai_transmit takes the frame into its queue.
TransmitOk ==
    /\ task = "transmit" /\ Taken
    /\ queued' = queued + 1
    /\ task' = "idle"
    /\ UNCHANGED <<driver, car, sleeps, failures>>

\* It is not running, or its queue stayed full until the timeout.
TransmitFails ==
    /\ task = "transmit" /\ ~Taken
    /\ task' = "recover"
    /\ failures' = IF car = "awake" /\ driver \in {"BusOff", "Stopped"}
                      /\ failures < 3
                   THEN failures + 1 ELSE failures
    /\ UNCHANGED <<driver, queued, car, sleeps>>

\* Mutated: bus-off is left to itself.
LeftAlone(state) == IF state = "Stopped" THEN "Running" ELSE state
\* Mutated: the driver is not restarted after recovery.
NotRestarted(state) == IF state = "BusOff" THEN "Recovering" ELSE state
Kicked(state) == CASE state = "BusOff"  -> "Recovering"
                   [] state = "Stopped" -> "Running"
                   [] OTHER             -> state

\* recoverIfBusOff: initiating recovery drops what was queued.
RecoverIfBusOff ==
    /\ task = "recover"
    /\ driver' = Kicked(driver)
    /\ queued' = IF driver = "BusOff" THEN 0 ELSE queued
    /\ task' = "idle"
    /\ UNCHANGED <<car, sleeps, failures>>

-----------------------------------------------------------------------------
(* The controller and the car.                                             *)

FrameSent ==
    /\ driver = "Running" /\ car = "awake" /\ queued > 0
    /\ queued' = queued - 1
    /\ UNCHANGED <<driver, car, task, sleeps, failures>>

\* Nobody acknowledges: the error counter climbs until the controller latches.
GoesBusOff ==
    /\ driver = "Running" /\ car = "asleep" /\ queued > 0
    /\ driver' = "BusOff"
    /\ UNCHANGED <<queued, car, task, sleeps, failures>>

\* 128 idle sequences were seen: the driver is left stopped.
Recovered ==
    /\ driver = "Recovering"
    /\ driver' = "Stopped"
    /\ UNCHANGED <<queued, car, task, sleeps, failures>>

Sleep == /\ car = "awake" /\ sleeps < MaxSleeps
         /\ car' = "asleep" /\ sleeps' = sleeps + 1
         /\ UNCHANGED <<driver, queued, task, failures>>
Wake  == /\ car = "asleep"
         /\ car' = "awake" /\ failures' = 0
         /\ UNCHANGED <<driver, queued, task, sleeps>>

CanBusTransmit == TransmitOk \/ TransmitFails \/ RecoverIfBusOff
Next == Request \/ CanBusTransmit \/ FrameSent \/ GoesBusOff \/ Recovered
        \/ Sleep \/ Wake

Spec == Init /\ [][Next]_vars

\* The client polls on, a transmit returns, and the hardware does its part.
\* The car may sleep or wake as it likes.
FairSpec == /\ Spec
            /\ WF_vars(Request) /\ WF_vars(CanBusTransmit)
            /\ WF_vars(Recovered) /\ WF_vars(FrameSent)

-----------------------------------------------------------------------------
\* Types, for the proofs: that the queue is bounded is the driver's affair.
TypeOK == /\ driver \in {"Absent", "Stopped", "Running", "BusOff", "Recovering"}
          /\ queued \in 0..TxQueueLen
          /\ car \in {"awake", "asleep"}
          /\ task \in {"idle", "transmit", "recover"}
          /\ sleeps \in 0..MaxSleeps /\ failures \in 0..3

\* Once the car stays awake and the client goes on polling, requests reach the
\* bus again and go on doing so, without a power cycle (can_bus.cpp:34-47); a
\* driver that never installed is the one exception.
LinkHeals ==
    <>[](car = "awake") => \/ [](driver = "Absent")
                           \/ <>[](driver = "Running") /\ []<><<FrameSent>>_vars

\* "The link heals itself over the next poll or two without a reboot"
\* (can_bus.cpp:46-47): from any state the car's sleep left behind, at most
\* two polls find the driver in bus-off or stopped.  Not counted are polls made
\* while the controller counts idle bits, and those of a running driver whose
\* queue is still full: how long either takes is up to the bus.
HealsInTwoPolls == failures <= 2
=============================================================================
