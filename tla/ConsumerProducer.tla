-------------------------- MODULE ConsumerProducer --------------------------
(***************************************************************************)
(* tests/test_consumer_producer/source/main.cpp: producers and a consumer  *)
(* around one message bus, one mutex and one condition variable.           *)
(*                                                                         *)
(* Each thread does all its work between acquiring mtx and releasing it,   *)
(* by its destructor or by cv.wait, and notifies while it holds it: what a *)
(* thread does from one acquisition to the next release is one action.     *)
(***************************************************************************)
EXTENDS MessageQueue, SequencesExt, Integers, FiniteSets

CONSTANTS
  Producers,      (* the threads of process_inputs                         *)
  Payload,        (* what each adds to the health: damage below zero       *)
  MaxFrameCount,  (* maxFrameCount: 10 in the code                         *)
  InitialHealth   (* 10 in the code                                        *)

Consumer == "consumer"
Threads == Producers \cup {Consumer}

ASSUME ConsumerProducerAssumption ==
  /\ Consumer \notin Producers
  /\ Payload \in [Producers -> Int]
  /\ MaxFrameCount \in Nat \ {0}
  /\ InitialHealth \in Nat

VARIABLES
  messageBus,       (* its queue; a message is its producer                *)
  frame,
  semaphoreCount,
  health,
  pc,               (* "ready" for the mutex, "waiting" on cv, or "done"   *)
  instanceCount     (* Message::instanceCount                              *)

programVars == <<messageBus, frame, semaphoreCount, health, pc, instanceCount>>

ProgramInit ==
  /\ messageBus = EmptyQueue
  /\ frame = 0
  /\ semaphoreCount = 0
  /\ health = InitialHealth
  /\ pc = [t \in Threads |-> "ready"]
  /\ instanceCount = 0

Waiting == {t \in Threads : pc[t] = "waiting"}
Empty(q) == Count(q) = 0

-----------------------------------------------------------------------------
(* cv.wait whose predicate is false: the mutex is released.                *)
Block(t) ==
  /\ pc' = [pc EXCEPT ![t] = "waiting"]
  /\ UNCHANGED <<messageBus, frame, semaphoreCount, health, instanceCount>>

(* Mutant: the producer forgets to notify.                                 *)
NotifyNobody == UNCHANGED pc

(* notify_one wakes some waiting thread, if there is one.                  *)
NotifyOne ==
  \/ Waiting = {} /\ UNCHANGED pc
  \/ \E t \in Waiting : pc' = [pc EXCEPT ![t] = "ready"]

(* notify_all by a thread that goes on as "next".                          *)
NotifyAll(t, next) ==
  pc' = [u \in Threads |-> IF u = t THEN next
                           ELSE IF u \in Waiting THEN "ready" ELSE pc[u]]

(* process_inputs                                                          *)
ProducerWait(p) ==
  /\ pc[p] = "ready"
  /\ ~Empty(messageBus)
  /\ Block(p)

ProducerExit(p) ==
  /\ pc[p] = "ready"
  /\ Empty(messageBus)
  /\ frame >= MaxFrameCount
  /\ pc' = [pc EXCEPT ![p] = "done"]
  /\ UNCHANGED <<messageBus, frame, semaphoreCount, health, instanceCount>>

(* Mutant: the producer does not wait for the bus to be empty.             *)
ProduceAnyTime(p) ==
  /\ pc[p] = "ready"
  /\ frame < MaxFrameCount
  /\ \E q \in Commits(messageBus) : messageBus' \in Commits(Enqueue(q, p))
  /\ instanceCount' = instanceCount + 1
  /\ semaphoreCount' = semaphoreCount + 1
  /\ NotifyOne
  /\ UNCHANGED <<frame, health>>

Produce(p) ==
  /\ pc[p] = "ready"
  /\ Empty(messageBus)
  /\ frame < MaxFrameCount
  /\ \E q \in Commits(messageBus) : messageBus' \in Commits(Enqueue(q, p))
  /\ instanceCount' = instanceCount + 1
  /\ semaphoreCount' = semaphoreCount + 1
  /\ NotifyOne
  /\ UNCHANGED <<frame, health>>

(* processMessage: the dead stay dead, damage stops at zero.               *)
Processed(h, p) ==
  IF h > 0 THEN (IF h + Payload[p] > 0 THEN h + Payload[p] ELSE 0) ELSE h

(* run_simulation                                                          *)
ConsumerWait ==
  /\ pc[Consumer] = "ready"
  /\ semaphoreCount = 0
  /\ Block(Consumer)

(* The bus is drained, its messages deleted, everybody notified.           *)
Simulate ==
  LET active  == SubSeq(messageBus.messages, messageBus.activeMessageStart + 1,
                        messageBus.messageCount)
      drained == [messageBus EXCEPT
                    !.activeMessageStart = messageBus.messageCount]
  IN  /\ pc[Consumer] = "ready"
      /\ semaphoreCount > 0
      /\ health' = FoldLeft(Processed, health, active)
      /\ messageBus' = InactiveCleared(drained)
      /\ instanceCount' = instanceCount - Len(Inactive(drained))
      /\ frame' = frame + 1
      /\ semaphoreCount' = semaphoreCount - 1
      /\ NotifyAll(Consumer, IF frame + 1 < MaxFrameCount THEN "ready" ELSE "done")

(* A condition variable may wake a thread for no reason.                   *)
SpuriousWakeup(t) ==
  /\ pc[t] = "waiting"
  /\ pc' = [pc EXCEPT ![t] = "ready"]
  /\ UNCHANGED <<messageBus, frame, semaphoreCount, health, instanceCount>>

(* runTest after the joins: messageBus.clearAll().                         *)
Finish ==
  /\ \A t \in Threads : pc[t] = "done"
  /\ messageBus' = Cleared(messageBus)
  /\ instanceCount' =
       instanceCount - Len(messageBus.messages)
                     - Len(messageBus.overflowMessages)
  /\ UNCHANGED <<frame, semaphoreCount, health, pc>>

Producer(p) == ProducerWait(p) \/ ProducerExit(p) \/ Produce(p)
Simulation  == ConsumerWait \/ Simulate

ProgramNext ==
  \/ \E p \in Producers : Producer(p)
  \/ Simulation
  \/ \E t \in Threads : SpuriousWakeup(t)
  \/ Finish

(* A thread that is ready gets the mutex eventually; it may be passed over *)
(* any number of times by threads that block and wake up again, so its     *)
(* steps stay enabled while it is ready and weak fairness is enough.  No   *)
(* spurious wakeup is relied on.                                           *)
Fairness ==
  /\ \A p \in Producers : WF_programVars(Producer(p))
  /\ WF_programVars(Simulation)

ProgramSpec == ProgramInit /\ [][ProgramNext]_programVars /\ Fairness

-----------------------------------------------------------------------------
(* Types; the bus holds at most the one message of the frame in progress.  *)
ProgramTypeOK ==
  /\ Len(messageBus.messages) <= 1 /\ messageBus.overflowMessages = <<>>
  /\ messageBus.activeMessageStart = 0
  /\ frame \in 0 .. MaxFrameCount
  /\ semaphoreCount \in 0 .. 1
  /\ health \in Nat
  /\ pc \in [Threads -> {"ready", "waiting", "done"}]

(* The semaphore counts the messages on the bus, and each of them is the   *)
(* only instance alive: every frame processes exactly one message, and     *)
(* none survives its frame.                                                *)
OneMessagePerFrame ==
  /\ ProgramTypeOK
  /\ semaphoreCount = Count(messageBus)
  /\ instanceCount = semaphoreCount
  /\ frame + semaphoreCount <= MaxFrameCount

(* The program ends: no wakeup is lost, whoever the notifications reach.   *)
Terminates == <>(\A t \in Threads : pc[t] = "done")
=============================================================================
