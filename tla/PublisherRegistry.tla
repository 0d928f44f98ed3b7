------------------------- MODULE PublisherRegistry -------------------------
(***************************************************************************)
(* Dataflow::Bus, the publisher side: two lock-free counters that          *)
(* registerPublisher and unregisterPublisher update one after the other    *)
(* (dataflow/source/message_bus.cpp), and the Publisher handles that call  *)
(* them (publisher.h).  Every atomic operation is a step of its own.       *)
(***************************************************************************)
EXTENDS Integers, FiniteSets

CONSTANTS
  Topics,
  Publishers,      (* Publisher handles, each used by one thread at a time *)
  TopicOf,         (* the topic a handle publishes                         *)
  CounterModulus   (* 2^64 in the code: std::atomic<size_t>                *)

ASSUME RegistryAssumption ==
  /\ IsFiniteSet(Publishers)
  /\ TopicOf \in [Publishers -> Topics]
  /\ CounterModulus \in Nat
  /\ Cardinality(Publishers) < CounterModulus

VARIABLES
  pubCountByTopic,   (* m_pubCountByTopic                                  *)
  publishersCount,   (* m_publishersCount                                  *)
  pc,                (* where each handle is in its call                   *)
  prev,              (* unregisterPublisher's old value of the total       *)
  prevAll            (* its old value of the topic's counter               *)

vars == <<pubCountByTopic, publishersCount, pc, prev, prevAll>>

Counter == 0 .. CounterModulus - 1
Plus(x)  == (x + 1) % CounterModulus
Minus(x) == (x - 1) % CounterModulus

Init ==
  /\ pubCountByTopic = [t \in Topics |-> 0]
  /\ publishersCount = 0
  /\ pc = [p \in Publishers |-> "unregistered"]
  /\ prev = [p \in Publishers |-> 0]
  /\ prevAll = [p \in Publishers |-> 0]

Goto(p, from, to) ==
  /\ pc[p] = from
  /\ pc' = [pc EXCEPT ![p] = to]

-----------------------------------------------------------------------------
(* Publisher::registerPublisher with a bus that is there: m_isRegistered   *)
(* is set when both counters have counted the handle.                      *)
CountTopicStep(p) ==
  /\ pubCountByTopic' = [pubCountByTopic EXCEPT ![TopicOf[p]] = Plus(@)]
  /\ UNCHANGED <<publishersCount, prev, prevAll>>

CountTopic(p) ==
  /\ Goto(p, "unregistered", "countTotal")
  /\ CountTopicStep(p)

CountTotal(p) ==
  /\ Goto(p, "countTotal", "registered")
  /\ publishersCount' = Plus(publishersCount)
  /\ UNCHANGED <<pubCountByTopic, prev, prevAll>>

(* Publisher::unregisterPublisher of a registered handle: the total first, *)
(* then the topic, then a repair of each if the other one was zero.        *)
UncountTotal(p) ==
  /\ Goto(p, "registered", "uncountTopic")
  /\ prev' = [prev EXCEPT ![p] = publishersCount]
  /\ publishersCount' = Minus(publishersCount)
  /\ UNCHANGED <<pubCountByTopic, prevAll>>

(* Mutant: the value after the subtraction instead of the one before it.   *)
UncountTopicSubFetch(p) ==
  LET count == pubCountByTopic[TopicOf[p]]
  IN  /\ Goto(p, "uncountTopic", "repairTotal")
      /\ prevAll' = [prevAll EXCEPT ![p] = Minus(count)]
      /\ pubCountByTopic' = [pubCountByTopic EXCEPT ![TopicOf[p]] = Minus(@)]
      /\ UNCHANGED <<publishersCount, prev>>

UncountTopic(p) ==
  /\ Goto(p, "uncountTopic", "repairTotal")
  /\ prevAll' = [prevAll EXCEPT ![p] = pubCountByTopic[TopicOf[p]]]
  /\ pubCountByTopic' = [pubCountByTopic EXCEPT ![TopicOf[p]] = Minus(@)]
  /\ UNCHANGED <<publishersCount, prev>>

(* Mutant: the repair when the counter was not zero.                       *)
RepairTotalInverted(p) ==
  /\ Goto(p, "repairTotal", "repairTopic")
  /\ publishersCount' = IF prevAll[p] # 0 THEN 0 ELSE publishersCount
  /\ UNCHANGED <<pubCountByTopic, prev, prevAll>>

RepairTotal(p) ==
  /\ Goto(p, "repairTotal", "repairTopic")
  /\ publishersCount' = IF prevAll[p] = 0 THEN 0 ELSE publishersCount
  /\ UNCHANGED <<pubCountByTopic, prev, prevAll>>

RepairTopic(p) ==
  /\ Goto(p, "repairTopic", "unregistered")
  /\ pubCountByTopic' =
       IF prev[p] = 0 THEN [pubCountByTopic EXCEPT ![TopicOf[p]] = 0]
                      ELSE pubCountByTopic
  /\ prev' = [prev EXCEPT ![p] = 0]        (* the locals end with the call *)
  /\ prevAll' = [prevAll EXCEPT ![p] = 0]
  /\ UNCHANGED publishersCount

Next ==
  \E p \in Publishers :
    \/ CountTopic(p)   \/ CountTotal(p)
    \/ UncountTotal(p) \/ UncountTopic(p) \/ RepairTotal(p) \/ RepairTopic(p)

Spec == Init /\ [][Next]_vars

-----------------------------------------------------------------------------
(* Types; no counter ever exceeds the number of handles, so none wraps.    *)
TypeOK ==
  /\ pubCountByTopic \in [Topics -> 0 .. Cardinality(Publishers)]
  /\ publishersCount \in 0 .. Cardinality(Publishers)
  /\ pc \in [Publishers -> {"unregistered", "countTotal", "registered",
                            "uncountTopic", "repairTotal", "repairTopic"}]
  /\ prev \in [Publishers -> Counter]
  /\ prevAll \in [Publishers -> Counter]

InTotal == {p \in Publishers : pc[p] = "registered"}
InTopic(t) ==
  {p \in Publishers : /\ TopicOf[p] = t
                      /\ pc[p] \in {"countTotal", "registered", "uncountTopic"}}

(* Whatever the interleaving, each counter is exactly the number of        *)
(* handles that have added to it and not yet subtracted: no update of      *)
(* registerPublisher or unregisterPublisher is lost or done twice.         *)
CountsExact ==
  /\ publishersCount = Cardinality(InTotal)
  /\ \A t \in Topics : pubCountByTopic[t] = Cardinality(InTopic(t))

(* The two repairs of unregisterPublisher, which would throw away the      *)
(* counts of all other handles, are never due: neither counter is zero     *)
(* when a handle subtracts from it.                                        *)
RepairsNeverRun ==
  \A p \in Publishers :
    /\ pc[p] = "repairTotal" => prevAll[p] # 0
    /\ pc[p] \in {"uncountTopic", "repairTotal", "repairTopic"} => prev[p] # 0
=============================================================================
