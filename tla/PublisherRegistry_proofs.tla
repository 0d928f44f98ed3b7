---------------------- MODULE PublisherRegistry_proofs ----------------------
(***************************************************************************)
(* Proofs about PublisherRegistry for any finite set of handles, any       *)
(* topics and any width of the counters that can count the handles.        *)
(***************************************************************************)
EXTENDS PublisherRegistry, FiniteSetTheorems, TLAPS

IInv == TypeOK /\ CountsExact /\ RepairsNeverRun

-----------------------------------------------------------------------------
(* A set of handles is counted by a number that fits the counter; one more *)
(* and one fewer handle are one more and one fewer in its arithmetic.      *)
LEMMA CountOf ==
  ASSUME NEW S \in SUBSET Publishers
  PROVE  /\ IsFiniteSet(S)
         /\ Cardinality(S) \in 0 .. Cardinality(Publishers)
         /\ Cardinality(S) \in Counter
         /\ \A p \in S : /\ Cardinality(S \ {p}) = Minus(Cardinality(S))
                         /\ Cardinality(S) # 0
         /\ \A p \in Publishers \ S :
              Cardinality(S \cup {p}) = Plus(Cardinality(S))
<1>1. /\ IsFiniteSet(S) /\ Cardinality(S) \in Nat
      /\ Cardinality(Publishers) \in Nat
      /\ Cardinality(S) <= Cardinality(Publishers)
  BY FS_Subset, FS_CardinalityType, RegistryAssumption
<1>2. Cardinality(S) \in Counter
  BY <1>1, RegistryAssumption DEF Counter
<1>3. ASSUME NEW p \in S
      PROVE  /\ Cardinality(S \ {p}) = Minus(Cardinality(S))
             /\ Cardinality(S) # 0
  <2>1. Cardinality(S \ {p}) = Cardinality(S) - 1
    BY <1>1, FS_RemoveElement
  <2>2. Cardinality(S \ {p}) \in Nat
    BY <1>1, FS_RemoveElement, FS_CardinalityType
  <2> QED BY <2>1, <2>2, <1>1, RegistryAssumption DEF Minus
<1>4. ASSUME NEW p \in Publishers \ S
      PROVE  Cardinality(S \cup {p}) = Plus(Cardinality(S))
  <2>1. Cardinality(S \cup {p}) = Cardinality(S) + 1
    BY <1>1, FS_AddElement
  <2>2. Cardinality(S \cup {p}) <= Cardinality(Publishers)
    BY FS_Subset, RegistryAssumption
  <2> QED BY <2>1, <2>2, <1>1, RegistryAssumption DEF Plus
<1> QED BY <1>1, <1>2, <1>3, <1>4

(* No handle is counted at first.                                         *)
LEMMA InitIInv == Init => IInv
<1> SUFFICES ASSUME Init PROVE IInv
  OBVIOUS
<1>1. InTotal = {} /\ \A t \in Topics : InTopic(t) = {}
  BY DEF Init, InTotal, InTopic
<1>2. CountsExact
  BY <1>1, FS_EmptySet DEF Init, CountsExact
<1>3. TypeOK
  <2>1. Cardinality(Publishers) \in Nat
    BY FS_CardinalityType, RegistryAssumption
  <2>2. 0 \in Counter
    BY <2>1, RegistryAssumption DEF Counter
  <2> QED BY <2>1, <2>2 DEF Init, TypeOK
<1>4. RepairsNeverRun
  BY DEF Init, RepairsNeverRun
<1> QED BY <1>2, <1>3, <1>4 DEF IInv

(* IInv is inductive: one step per atomic operation.                       *)
LEMMA NextIInv == IInv /\ [Next]_vars => IInv'
<1> SUFFICES ASSUME IInv, [Next]_vars PROVE IInv'
  OBVIOUS
<1> USE DEF Goto
<1>1. /\ InTotal \in SUBSET Publishers
      /\ \A t \in Topics : InTopic(t) \in SUBSET Publishers
  BY DEF InTotal, InTopic
<1>2. /\ publishersCount = Cardinality(InTotal)
      /\ \A t \in Topics : pubCountByTopic[t] = Cardinality(InTopic(t))
      /\ publishersCount \in Counter
      /\ \A t \in Topics : pubCountByTopic[t] \in Counter
  BY <1>1, CountOf DEF IInv, CountsExact
<1>3. ASSUME NEW p \in Publishers, CountTopic(p) PROVE IInv'
  <2> DEFINE t == TopicOf[p]
  <2>1. /\ InTotal' = InTotal /\ InTopic(t)' = InTopic(t) \cup {p}
        /\ \A u \in Topics : u # t => InTopic(u)' = InTopic(u)
        /\ p \notin InTopic(t) /\ t \in Topics
    BY <1>3, RegistryAssumption
    DEF CountTopic, CountTopicStep, InTotal, InTopic, IInv, TypeOK
  <2>2. pubCountByTopic' = [pubCountByTopic EXCEPT ![t] = Plus(@)]
        /\ UNCHANGED <<publishersCount, prev, prevAll>>
    BY <1>3 DEF CountTopic, CountTopicStep
  <2>3. CountsExact'
    BY <2>1, <2>2, <1>1, <1>2, CountOf DEF CountsExact, IInv, TypeOK
  <2>4. TypeOK'
    <3>1. pubCountByTopic' \in [Topics -> 0 .. Cardinality(Publishers)]
      <4>1. pubCountByTopic'[t] \in 0 .. Cardinality(Publishers)
        BY <2>1, <2>3, CountOf DEF CountsExact, InTopic
      <4> QED BY <4>1, <2>1, <2>2 DEF IInv, TypeOK
    <3> QED BY <3>1, <2>2, <1>3 DEF IInv, TypeOK, CountTopic
  <2>5. RepairsNeverRun'
    BY <1>3, <2>2 DEF CountTopic, IInv, TypeOK, RepairsNeverRun
  <2> QED BY <2>3, <2>4, <2>5 DEF IInv
<1>4. ASSUME NEW p \in Publishers, CountTotal(p) PROVE IInv'
  <2>1. /\ InTotal' = InTotal \cup {p} /\ p \notin InTotal
        /\ \A u \in Topics : InTopic(u)' = InTopic(u)
    BY <1>4 DEF CountTotal, InTotal, InTopic, IInv, TypeOK
  <2>2. CountsExact'
    BY <1>4, <2>1, <1>1, <1>2, CountOf DEF CountTotal, CountsExact
  <2>3. TypeOK'
    <3>1. publishersCount' \in 0 .. Cardinality(Publishers)
      BY <2>1, <2>2, <1>1, CountOf DEF CountsExact
    <3> QED BY <3>1, <1>4 DEF CountTotal, IInv, TypeOK
  <2>4. RepairsNeverRun'
    BY <1>4 DEF CountTotal, IInv, TypeOK, RepairsNeverRun
  <2> QED BY <2>2, <2>3, <2>4 DEF IInv
<1>5. ASSUME NEW p \in Publishers, UncountTotal(p) PROVE IInv'
  <2>1. /\ InTotal' = InTotal \ {p} /\ p \in InTotal
        /\ \A u \in Topics : InTopic(u)' = InTopic(u)
    BY <1>5 DEF UncountTotal, InTotal, InTopic, IInv, TypeOK
  <2>2. CountsExact'
    BY <1>5, <2>1, <1>1, <1>2, CountOf DEF UncountTotal, CountsExact
  <2>3. TypeOK'
    <3>1. publishersCount' \in 0 .. Cardinality(Publishers)
      BY <2>1, <2>2, <1>1, CountOf DEF CountsExact
    <3> QED BY <3>1, <1>2, <1>5 DEF UncountTotal, IInv, TypeOK
  <2>4. publishersCount # 0
    BY <2>1, <1>1, <1>2, CountOf
  <2>5. RepairsNeverRun'
    BY <1>5, <2>4 DEF UncountTotal, IInv, TypeOK, RepairsNeverRun
  <2> QED BY <2>2, <2>3, <2>5 DEF IInv
<1>6. ASSUME NEW p \in Publishers, UncountTopic(p) PROVE IInv'
  <2> DEFINE t == TopicOf[p]
  <2>1. /\ InTotal' = InTotal /\ InTopic(t)' = InTopic(t) \ {p}
        /\ \A u \in Topics : u # t => InTopic(u)' = InTopic(u)
        /\ p \in InTopic(t) /\ t \in Topics
    BY <1>6, RegistryAssumption DEF UncountTopic, InTotal, InTopic, IInv, TypeOK
  <2>2. /\ pubCountByTopic' = [pubCountByTopic EXCEPT ![t] = Minus(@)]
        /\ prevAll' = [prevAll EXCEPT ![p] = pubCountByTopic[t]]
        /\ UNCHANGED <<publishersCount, prev>>
    BY <1>6 DEF UncountTopic
  <2>3. CountsExact'
    BY <2>1, <2>2, <1>1, <1>2, CountOf DEF CountsExact, IInv, TypeOK
  <2>4. TypeOK'
    <3>1. pubCountByTopic' \in [Topics -> 0 .. Cardinality(Publishers)]
      <4>1. pubCountByTopic'[t] \in 0 .. Cardinality(Publishers)
        BY <2>1, <2>3, CountOf DEF CountsExact, InTopic
      <4> QED BY <4>1, <2>1, <2>2 DEF IInv, TypeOK
    <3> QED BY <3>1, <2>1, <2>2, <1>2, <1>6 DEF IInv, TypeOK, UncountTopic
  <2>5. pubCountByTopic[t] # 0
    BY <2>1, <1>1, <1>2, CountOf
  <2>6. RepairsNeverRun'
    BY <1>6, <2>2, <2>5 DEF UncountTopic, IInv, TypeOK, RepairsNeverRun
  <2> QED BY <2>3, <2>4, <2>6 DEF IInv
<1>7. ASSUME NEW p \in Publishers, RepairTotal(p) PROVE IInv'
  <2>1. UNCHANGED <<publishersCount, pubCountByTopic, prev, prevAll>>
    BY <1>7 DEF RepairTotal, IInv, RepairsNeverRun
  <2>2. InTotal' = InTotal /\ \A u \in Topics : InTopic(u)' = InTopic(u)
    BY <1>7 DEF RepairTotal, InTotal, InTopic, IInv, TypeOK
  <2>3. CountsExact' /\ TypeOK'
    BY <1>7, <2>1, <2>2 DEF RepairTotal, IInv, CountsExact, TypeOK
  <2>4. RepairsNeverRun'
    BY <1>7, <2>1 DEF RepairTotal, IInv, TypeOK, RepairsNeverRun
  <2> QED BY <2>3, <2>4 DEF IInv
<1>8. ASSUME NEW p \in Publishers, RepairTopic(p) PROVE IInv'
  <2>1. /\ UNCHANGED <<publishersCount, pubCountByTopic>>
        /\ prev' = [prev EXCEPT ![p] = 0]
        /\ prevAll' = [prevAll EXCEPT ![p] = 0]
    BY <1>8 DEF RepairTopic, IInv, RepairsNeverRun
  <2>2. InTotal' = InTotal /\ \A u \in Topics : InTopic(u)' = InTopic(u)
    BY <1>8 DEF RepairTopic, InTotal, InTopic, IInv, TypeOK
  <2>3. CountsExact'
    BY <2>1, <2>2 DEF IInv, CountsExact
  <2>4. TypeOK'
    <3>1. 0 \in Counter
      BY <1>2, RegistryAssumption DEF Counter
    <3> QED BY <3>1, <1>8, <2>1 DEF RepairTopic, IInv, TypeOK
  <2>5. RepairsNeverRun'
    BY <1>8, <2>1 DEF RepairTopic, IInv, TypeOK, RepairsNeverRun
  <2> QED BY <2>3, <2>4, <2>5 DEF IInv
<1>9. CASE UNCHANGED vars
  <2>1. InTotal' = InTotal /\ \A u \in Topics : InTopic(u)' = InTopic(u)
    BY <1>9 DEF vars, InTotal, InTopic
  <2> QED BY <2>1, <1>9 DEF vars, IInv, TypeOK, CountsExact, RepairsNeverRun
<1> QED BY <1>3, <1>4, <1>5, <1>6, <1>7, <1>8, <1>9 DEF Next

-----------------------------------------------------------------------------
(* The inductive invariant holds in every reachable state.                 *)
THEOREM InductiveInvariant == Spec => []IInv
  BY InitIInv, NextIInv, PTL DEF Spec

(* No counter exceeds the number of handles, so none wraps.                *)
THEOREM TypeCorrect == Spec => []TypeOK
<1>1. IInv => TypeOK
  BY DEF IInv
<1> QED BY InductiveInvariant, <1>1, PTL

(* The counters are exact at every moment, with no lock around them.       *)
THEOREM CountersExact == Spec => []CountsExact
<1>1. IInv => CountsExact
  BY DEF IInv
<1> QED BY InductiveInvariant, <1>1, PTL

(* The repairs of unregisterPublisher are dead code.                       *)
THEOREM RepairsAreDead == Spec => []RepairsNeverRun
<1>1. IInv => RepairsNeverRun
  BY DEF IInv
<1> QED BY InductiveInvariant, <1>1, PTL
=============================================================================
