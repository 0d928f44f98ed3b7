------------------------- MODULE MessageBus_proofs -------------------------
(***************************************************************************)
(* Proofs about MessageBus for every number of topics, handles, inspectors *)
(* and publishers, and about ObserverProgram, which uses a bus, for any    *)
(* receivers, any finite pool and any keys.                                *)
(***************************************************************************)
EXTENDS MessageBus, ObserverProgram, FiniteSetTheorems,
        WellFoundedInduction, TLAPS

(* The handles of a subscribeAll that has not reached them hold no link.   *)
EntriesPending ==
  \A i \in Inspectors, t \in Topics :
    t >= nextTopic[i] => linkId[EntryOf[i][t]] = NoLink

(* What a publish still has to call names no handle twice.                 *)
CalledOnce ==
  \A p \in Publishers : \A j, k \in 1 .. Len(callbacks[p]) :
    callbacks[p][j] = callbacks[p][k] => j = k

IInv ==
  TypeOK /\ IndexConsistent /\ LinksOwned /\ EntriesPending /\ CalledOnce

-----------------------------------------------------------------------------
(* A vector without the id at an index: the others are still there, the    *)
(* last one at the index that is free.                                     *)
LEMMA SwapRemoveVector ==
  ASSUME NEW S, NEW v \in Seq(S), NEW index \in Nat, index < Len(v)
  PROVE  /\ SwapRemove(v, index) \in Seq(S)
         /\ Len(SwapRemove(v, index)) = Len(v) - 1
         /\ \A k \in 1 .. Len(v) - 1 :
              SwapRemove(v, index)[k] =
                IF k = index + 1 THEN v[Len(v)] ELSE v[k]
  BY DEF SwapRemove

(* The initial tables are empty.                                           *)
LEMMA InitIInv == Init => IInv
<1> SUFFICES ASSUME Init PROVE IInv
  OBVIOUS
<1>1. DOMAIN allSubs = {} /\ allSubs \in [{} -> SubData]
  BY DEF Init
<1>2. TypeOK
  BY <1>1, BusAssumption DEF Init, TypeOK
<1>3. IndexConsistent /\ LinksOwned
  BY <1>1 DEF Init, IndexConsistent, LinksOwned
<1>4. EntriesPending
  BY BusAssumption DEF Init, EntriesPending
<1>5. CalledOnce
  BY DEF Init, CalledOnce
<1> QED BY <1>2, <1>3, <1>4, <1>5 DEF IInv

-----------------------------------------------------------------------------
(* Linking a handle that holds no link keeps the tables in order.          *)
LEMMA LinkHandle ==
  ASSUME IInv, NEW h \in Handles, linkId[h] = NoLink,
         linksCreatedCount < MaxLinks, BusSubscribe(h),
         linkId' = [linkId EXCEPT ![h] = linksCreatedCount']
  PROVE  /\ linksCreatedCount' \in 0 .. MaxLinks
         /\ subsByTopic' \in [Topics -> Seq(LinkIds)]
         /\ DOMAIN allSubs' \subseteq 1 .. linksCreatedCount'
         /\ allSubs' \in [DOMAIN allSubs' -> SubData]
         /\ linkId' \in [Handles -> LinkIds \cup {NoLink}]
         /\ IndexConsistent'
         /\ LinksOwned'
<1> DEFINE id == linksCreatedCount + 1
           t  == TopicOf[h]
           v  == subsByTopic[t]
<1>1. /\ id \in LinkIds /\ id \notin DOMAIN allSubs
      /\ t \in Topics /\ v \in Seq(LinkIds)
  <2>1. t \in Topics /\ v \in Seq(LinkIds)
    BY BusAssumption DEF IInv, TypeOK
  <2>2. id \in LinkIds
    BY BusAssumption DEF IInv, TypeOK, LinkIds
  <2>3. id \notin DOMAIN allSubs
    BY id \notin 1 .. linksCreatedCount DEF IInv, TypeOK
  <2> QED BY <2>1, <2>2, <2>3
<1>2. /\ linksCreatedCount' = id
      /\ subsByTopic' = [subsByTopic EXCEPT ![t] = Append(v, id)]
      /\ DOMAIN allSubs' = DOMAIN allSubs \cup {id}
      /\ allSubs'[id] = [topic |-> t, indexByTopic |-> Len(v), callback |-> h]
      /\ \A l \in DOMAIN allSubs : allSubs'[l] = allSubs[l]
      /\ allSubs' = [l \in DOMAIN allSubs' |-> allSubs'[l]]
  BY <1>1 DEF BusSubscribe, AddLink
<1>3. /\ Append(v, id) \in Seq(LinkIds)
      /\ Len(Append(v, id)) = Len(v) + 1
      /\ Append(v, id)[Len(v) + 1] = id
      /\ \A k \in 1 .. Len(v) : Append(v, id)[k] = v[k]
      /\ Len(v) \in Nat
  BY <1>1
<1> HIDE DEF id, t, v
<1>4. \A u \in Topics : /\ u # t => subsByTopic'[u] = subsByTopic[u]
                        /\ u = t => subsByTopic'[u] = Append(v, id)
  BY <1>2 DEF IInv, TypeOK
<1>5. subsByTopic' \in [Topics -> Seq(LinkIds)]
  BY <1>1, <1>2, <1>3 DEF IInv, TypeOK
<1>6. /\ DOMAIN allSubs' \subseteq 1 .. linksCreatedCount'
      /\ linksCreatedCount' \in 0 .. MaxLinks
  BY <1>1, <1>2, BusAssumption DEF IInv, TypeOK, id
<1>7. allSubs' \in [DOMAIN allSubs' -> SubData]
  <2>1. allSubs'[id] \in SubData
    BY <1>1, <1>2, <1>3 DEF SubData
  <2>2. \A l \in DOMAIN allSubs : allSubs'[l] \in SubData
    BY <1>2 DEF IInv, TypeOK
  <2> QED BY <1>2, <2>1, <2>2
<1>8. linkId' \in [Handles -> LinkIds \cup {NoLink}]
  BY <1>1, <1>2 DEF IInv, TypeOK
<1>9. IndexConsistent'
  <2>1. ASSUME NEW l \in DOMAIN allSubs'
        PROVE  /\ allSubs'[l].indexByTopic < Len(subsByTopic'[allSubs'[l].topic])
               /\ subsByTopic'[allSubs'[l].topic][allSubs'[l].indexByTopic + 1] = l
    <3>1. CASE l = id
      BY <3>1, <1>1, <1>2, <1>3, <1>4
    <3>2. CASE l \in DOMAIN allSubs
      <4>1. /\ allSubs'[l] = allSubs[l]
            /\ allSubs[l].topic \in Topics /\ allSubs[l].indexByTopic \in Nat
        BY <3>2, <1>2 DEF IInv, TypeOK, SubData
      <4>2. /\ allSubs[l].indexByTopic < Len(subsByTopic[allSubs[l].topic])
            /\ subsByTopic[allSubs[l].topic][allSubs[l].indexByTopic + 1] = l
        BY <3>2 DEF IInv, IndexConsistent
      <4>3. CASE allSubs[l].topic = t
        <5> DEFINE k == allSubs[l].indexByTopic + 1
        <5>1. k \in 1 .. Len(v) /\ v[k] = l
          BY <4>1, <4>2, <4>3, <1>3 DEF v
        <5>2. subsByTopic'[t] = Append(v, id)
          BY <1>1, <1>4
        <5>3. Append(v, id)[k] = l /\ k <= Len(v)
          BY <5>1, <1>3
        <5> QED BY <4>1, <4>3, <5>1, <5>2, <5>3, <1>3
      <4>4. CASE allSubs[l].topic # t
        BY <4>1, <4>2, <4>4, <1>4
      <4> QED BY <4>3, <4>4
    <3> QED BY <3>1, <3>2, <1>2
  <2>2. ASSUME NEW u \in Topics, NEW k \in 1 .. Len(subsByTopic'[u])
        PROVE  /\ subsByTopic'[u][k] \in DOMAIN allSubs'
               /\ allSubs'[subsByTopic'[u][k]].topic = u
               /\ allSubs'[subsByTopic'[u][k]].indexByTopic = k - 1
    <3>1. CASE u # t
      BY <3>1, <1>2, <1>4 DEF IInv, IndexConsistent
    <3>2. CASE u = t /\ k = Len(v) + 1
      BY <3>2, <1>2, <1>3, <1>4
    <3>3. CASE u = t /\ k # Len(v) + 1
      <4>1. k \in 1 .. Len(v) /\ subsByTopic'[u][k] = v[k]
        BY <3>3, <1>3, <1>4
      <4> QED BY <4>1, <3>3, <1>2 DEF IInv, IndexConsistent, v
    <3> QED BY <3>1, <3>2, <3>3
  <2> QED BY <2>1, <2>2 DEF IndexConsistent
<1>10. LinksOwned'
  <2>1. linkId'[h] = id /\ \A g \in Handles : g # h => linkId'[g] = linkId[g]
    BY <1>2 DEF IInv, TypeOK
  <2>2. ASSUME NEW g \in Handles, linkId'[g] # NoLink
        PROVE  /\ linkId'[g] \in DOMAIN allSubs'
               /\ allSubs'[linkId'[g]].callback = g
               /\ allSubs'[linkId'[g]].topic = TopicOf[g]
    <3>1. CASE g = h
      BY <3>1, <2>1, <1>2 DEF t
    <3>2. CASE g # h
      BY <3>2, <2>1, <2>2, <1>2 DEF IInv, LinksOwned
    <3> QED BY <3>1, <3>2
  <2>3. ASSUME NEW l \in DOMAIN allSubs'
        PROVE  linkId'[allSubs'[l].callback] = l
    <3>1. CASE l = id
      BY <3>1, <2>1, <1>2
    <3>2. CASE l \in DOMAIN allSubs
      <4>1. allSubs[l].callback \in Handles /\ linkId[allSubs[l].callback] = l
        BY <3>2 DEF IInv, TypeOK, SubData, LinksOwned
      <4>2. l # NoLink
        BY <3>2 DEF IInv, TypeOK, NoLink
      <4> QED BY <3>2, <4>1, <4>2, <2>1, <1>2
    <3> QED BY <3>1, <3>2, <1>2
  <2> QED BY <2>2, <2>3 DEF LinksOwned
<1> QED BY <1>5, <1>6, <1>7, <1>8, <1>9, <1>10

(* Unlinking a handle by the id it holds keeps the tables in order.        *)
LEMMA UnlinkHandle ==
  ASSUME IInv, NEW h \in Handles, linkId[h] # NoLink,
         BusUnsubscribe(linkId[h]),
         linkId' = [linkId EXCEPT ![h] = NoLink]
  PROVE  /\ linksCreatedCount' \in 0 .. MaxLinks
         /\ subsByTopic' \in [Topics -> Seq(LinkIds)]
         /\ DOMAIN allSubs' \subseteq 1 .. linksCreatedCount'
         /\ allSubs' \in [DOMAIN allSubs' -> SubData]
         /\ linkId' \in [Handles -> LinkIds \cup {NoLink}]
         /\ IndexConsistent'
         /\ LinksOwned'
<1> DEFINE id    == linkId[h]
           t     == allSubs[id].topic
           index == allSubs[id].indexByTopic
           v     == subsByTopic[t]
           moved == v[Len(v)]
<1>1. /\ id \in DOMAIN allSubs /\ allSubs[id].callback = h
      /\ t \in Topics /\ index \in Nat
      /\ v \in Seq(LinkIds) /\ Len(v) \in Nat
      /\ index < Len(v) /\ v[index + 1] = id
  <2>1. id \in DOMAIN allSubs /\ allSubs[id].callback = h
    BY DEF IInv, LinksOwned
  <2>2. t \in Topics /\ index \in Nat
    BY <2>1 DEF IInv, TypeOK, SubData
  <2>3. v \in Seq(LinkIds) /\ Len(v) \in Nat
    BY <2>2 DEF IInv, TypeOK
  <2>4. index < Len(v) /\ v[index + 1] = id
    BY <2>1 DEF IInv, IndexConsistent
  <2> QED BY <2>1, <2>2, <2>3, <2>4
<1>2. /\ moved \in DOMAIN allSubs /\ allSubs[moved].topic = t
      /\ allSubs[moved].indexByTopic = Len(v) - 1
  <2>1. Len(v) \in 1 .. Len(v)
    BY <1>1
  <2> QED BY <1>1, <2>1 DEF IInv, IndexConsistent
<1>3. /\ UNCHANGED linksCreatedCount
      /\ subsByTopic' = [subsByTopic EXCEPT ![t] = SwapRemove(v, index)]
      /\ DOMAIN allSubs' = DOMAIN allSubs \ {id}
      /\ allSubs' = [l \in DOMAIN allSubs' |-> allSubs'[l]]
      /\ \A l \in DOMAIN allSubs' : allSubs'[l] = Reindexed(l, moved, index)
  BY <1>1 DEF BusUnsubscribe
<1>4. /\ SwapRemove(v, index) \in Seq(LinkIds)
      /\ Len(SwapRemove(v, index)) = Len(v) - 1
      /\ \A k \in 1 .. Len(v) - 1 :
           SwapRemove(v, index)[k] = IF k = index + 1 THEN moved ELSE v[k]
  BY <1>1, SwapRemoveVector
<1>5. \A l \in DOMAIN allSubs :
        /\ allSubs[l] \in SubData
        /\ Reindexed(l, moved, index) \in SubData
        /\ Reindexed(l, moved, index).topic = allSubs[l].topic
        /\ Reindexed(l, moved, index).callback = allSubs[l].callback
        /\ Reindexed(l, moved, index).indexByTopic =
             IF l = moved THEN index ELSE allSubs[l].indexByTopic
  BY <1>1 DEF IInv, TypeOK, SubData, Reindexed
<1>6. \A l \in DOMAIN allSubs' : l \in DOMAIN allSubs /\ l # id
  BY <1>3
<1> HIDE DEF id, t, index, v, moved
<1>7. \A u \in Topics :
        /\ u # t => subsByTopic'[u] = subsByTopic[u]
        /\ u = t => subsByTopic'[u] = SwapRemove(v, index)
  BY <1>3 DEF IInv, TypeOK
<1>8. subsByTopic' \in [Topics -> Seq(LinkIds)]
  BY <1>1, <1>3, <1>4 DEF IInv, TypeOK
<1>9. DOMAIN allSubs' \subseteq 1 .. linksCreatedCount'
  BY <1>3 DEF IInv, TypeOK
<1>10. linksCreatedCount' \in 0 .. MaxLinks
  BY <1>3 DEF IInv, TypeOK
<1>11. allSubs' \in [DOMAIN allSubs' -> SubData]
  BY <1>3, <1>5, <1>6
<1>12. linkId' \in [Handles -> LinkIds \cup {NoLink}]
  BY DEF IInv, TypeOK
<1>13. IndexConsistent'
  <2>1. ASSUME NEW l \in DOMAIN allSubs'
        PROVE  /\ allSubs'[l].indexByTopic < Len(subsByTopic'[allSubs'[l].topic])
               /\ subsByTopic'[allSubs'[l].topic][allSubs'[l].indexByTopic + 1] = l
    <3> DEFINE k == allSubs[l].indexByTopic + 1
    <3>1. /\ l \in DOMAIN allSubs /\ l # id
          /\ allSubs[l].topic \in Topics /\ k \in Nat
          /\ allSubs'[l].topic = allSubs[l].topic
          /\ allSubs'[l].indexByTopic = IF l = moved THEN index ELSE k - 1
      BY <1>3, <1>5, <1>6 DEF SubData
    <3>2. k <= Len(subsByTopic[allSubs[l].topic]) /\ k >= 1
          /\ subsByTopic[allSubs[l].topic][k] = l
      BY <3>1, <1>5 DEF IInv, IndexConsistent, TypeOK, SubData
    <3>3. CASE allSubs[l].topic # t
      <4>1. l # moved
        BY <3>3, <1>2
      <4> QED BY <4>1, <3>1, <3>2, <3>3, <1>7
    <3>4. CASE allSubs[l].topic = t /\ l = moved
      <4>1. index + 1 # Len(v)
        BY <3>1, <3>4, <1>1 DEF moved
      <4>2. index + 1 \in 1 .. Len(v) - 1
        BY <4>1, <1>1
      <4>3. SwapRemove(v, index)[index + 1] = moved
        BY <4>2, <1>4
      <4> QED BY <3>1, <3>4, <4>2, <4>3, <1>1, <1>4, <1>7
    <3>5. CASE allSubs[l].topic = t /\ l # moved
      <4>1. k \in 1 .. Len(v) /\ v[k] = l
        BY <3>1, <3>2, <3>5, <1>1 DEF v
      <4>2. k # Len(v) /\ k # index + 1
        BY <4>1, <3>1, <3>5, <1>1 DEF moved
      <4>3. k \in 1 .. Len(v) - 1
        BY <4>1, <4>2, <1>1
      <4>4. SwapRemove(v, index)[k] = l
        BY <4>1, <4>2, <4>3, <1>4
      <4> QED BY <3>1, <3>5, <4>3, <4>4, <1>1, <1>4, <1>7
    <3> QED BY <3>3, <3>4, <3>5
  <2>2. ASSUME NEW u \in Topics, NEW k \in 1 .. Len(subsByTopic'[u])
        PROVE  /\ subsByTopic'[u][k] \in DOMAIN allSubs'
               /\ allSubs'[subsByTopic'[u][k]].topic = u
               /\ allSubs'[subsByTopic'[u][k]].indexByTopic = k - 1
    <3>1. CASE u # t
      <4> DEFINE l == subsByTopic[u][k]
      <4>1. /\ subsByTopic'[u][k] = l /\ l \in DOMAIN allSubs
            /\ allSubs[l].topic = u /\ allSubs[l].indexByTopic = k - 1
        BY <3>1, <1>7 DEF IInv, IndexConsistent
      <4>2. l # id /\ l # moved
        BY <4>1, <3>1, <1>2 DEF t
      <4> QED BY <4>1, <4>2, <1>3, <1>5
    <3>2. CASE u = t /\ k = index + 1
      <4>1. subsByTopic'[u][k] = moved /\ k # Len(v)
        BY <3>2, <1>1, <1>4, <1>7
      <4>2. moved # id
        BY <4>1, <3>2, <1>1, <1>2 DEF index
      <4>3. moved \in DOMAIN allSubs' /\ index = k - 1
        BY <4>2, <3>2, <1>1, <1>2, <1>3
      <4>4. allSubs'[moved] = Reindexed(moved, moved, index)
        BY <4>3, <1>3
      <4>5. moved \in DOMAIN allSubs /\ allSubs[moved].topic = t
        BY <1>2
      <4> QED BY <4>1, <4>3, <4>4, <4>5, <3>2, <1>5
    <3>3. CASE u = t /\ k # index + 1
      <4>1. k \in 1 .. Len(v) /\ k # Len(v) /\ subsByTopic'[u][k] = v[k]
        <5>1. subsByTopic'[u] = SwapRemove(v, index)
          BY <3>3, <1>7
        <5>2. k \in 1 .. Len(v) - 1
          BY <5>1, <1>4
        <5>3. SwapRemove(v, index)[k] = v[k]
          BY <5>2, <3>3, <1>4
        <5> QED BY <5>1, <5>2, <5>3, <1>1
      <4>2. /\ v[k] \in DOMAIN allSubs /\ allSubs[v[k]].topic = t
            /\ allSubs[v[k]].indexByTopic = k - 1
        BY <4>1, <1>1 DEF IInv, IndexConsistent, v
      <4>3. v[k] # id /\ v[k] # moved
        BY <4>1, <4>2, <3>3, <1>1, <1>2 DEF index
      <4> QED BY <4>1, <4>2, <4>3, <3>3, <1>3, <1>5
    <3> QED BY <3>1, <3>2, <3>3
  <2> QED BY <2>1, <2>2 DEF IndexConsistent
<1>14. LinksOwned'
  <2>1. linkId'[h] = NoLink /\ \A g \in Handles : g # h => linkId'[g] = linkId[g]
    BY DEF IInv, TypeOK
  <2>2. ASSUME NEW g \in Handles, linkId'[g] # NoLink
        PROVE  /\ linkId'[g] \in DOMAIN allSubs'
               /\ allSubs'[linkId'[g]].callback = g
               /\ allSubs'[linkId'[g]].topic = TopicOf[g]
    <3>1. /\ g # h /\ linkId'[g] = linkId[g]
          /\ linkId[g] \in DOMAIN allSubs
          /\ allSubs[linkId[g]].callback = g
          /\ allSubs[linkId[g]].topic = TopicOf[g]
      BY <2>1, <2>2 DEF IInv, LinksOwned
    <3>2. linkId[g] # id
      BY <3>1, <1>1
    <3> QED BY <3>1, <3>2, <1>3, <1>5
  <2>3. ASSUME NEW l \in DOMAIN allSubs'
        PROVE  linkId'[allSubs'[l].callback] = l
    <3>1. /\ allSubs'[l].callback = allSubs[l].callback
          /\ allSubs[l].callback \in Handles
          /\ linkId[allSubs[l].callback] = l /\ l # id
      BY <1>3, <1>5, <1>6 DEF IInv, LinksOwned, SubData
    <3>2. allSubs[l].callback # h
      BY <3>1 DEF id
    <3> QED BY <3>1, <3>2, <2>1
  <2> QED BY <2>2, <2>3 DEF LinksOwned
<1> QED BY <1>8, <1>9, <1>10, <1>11, <1>12, <1>13, <1>14

(* The copy publish makes: one callback per subscribed handle of the topic.*)
LEMMA CallbacksOfSubscribed ==
  ASSUME IInv, NEW t \in Topics
  PROVE  /\ CallbacksOf(t) \in Seq(Handles)
         /\ \A j, k \in 1 .. Len(CallbacksOf(t)) :
              CallbacksOf(t)[j] = CallbacksOf(t)[k] => j = k
         /\ {CallbacksOf(t)[k] : k \in 1 .. Len(CallbacksOf(t))} =
              {h \in {g \in Handles : linkId[g] # NoLink} : TopicOf[h] = t}
<1> DEFINE v == subsByTopic[t]
           c == CallbacksOf(t)
<1>1. v \in Seq(LinkIds) /\ Len(v) \in Nat
  BY DEF IInv, TypeOK
<1>2. \A k \in 1 .. Len(v) :
        /\ v[k] \in DOMAIN allSubs /\ allSubs[v[k]].topic = t
        /\ allSubs[v[k]].indexByTopic = k - 1
        /\ allSubs[v[k]].callback \in Handles
        /\ linkId[allSubs[v[k]].callback] = v[k]
        /\ v[k] # NoLink
  <2>1. \A l \in DOMAIN allSubs :
          allSubs[l] \in SubData /\ linkId[allSubs[l].callback] = l
    BY DEF IInv, TypeOK, LinksOwned
  <2>2. \A l \in DOMAIN allSubs : l # NoLink
    BY DEF IInv, TypeOK, NoLink
  <2> QED BY <2>1, <2>2 DEF IInv, IndexConsistent, SubData
<1>3. /\ c = [k \in 1 .. Len(v) |-> allSubs[v[k]].callback]
      /\ c \in Seq(Handles) /\ Len(c) = Len(v)
  BY <1>1, <1>2 DEF CallbacksOf
<1>4. \A k \in 1 .. Len(v) : c[k] = allSubs[v[k]].callback
  BY <1>3
<1> HIDE DEF c, v
<1>5. ASSUME NEW j \in 1 .. Len(c), NEW k \in 1 .. Len(c), c[j] = c[k]
      PROVE  j = k
  <2>1. v[j] = v[k]
    BY <1>2, <1>3, <1>4, <1>5
  <2>2. j - 1 = k - 1
    BY <2>1, <1>2, <1>3
  <2> QED BY <2>2, <1>1, <1>3
<1>6. ASSUME NEW k \in 1 .. Len(c)
      PROVE  c[k] \in Handles /\ linkId[c[k]] # NoLink /\ TopicOf[c[k]] = t
  <2>1. /\ c[k] \in Handles /\ linkId[c[k]] = v[k] /\ v[k] # NoLink
        /\ allSubs[v[k]].topic = t
    BY <1>2, <1>3, <1>4
  <2> QED BY <2>1 DEF IInv, LinksOwned
<1>7. ASSUME NEW h \in Handles, linkId[h] # NoLink, TopicOf[h] = t
      PROVE  \E k \in 1 .. Len(c) : c[k] = h
  <2> DEFINE l == linkId[h]
             i == allSubs[l].indexByTopic
  <2>1. l \in DOMAIN allSubs /\ allSubs[l].callback = h /\ allSubs[l].topic = t
    BY <1>7 DEF IInv, LinksOwned
  <2>2. i \in Nat
    BY <2>1 DEF IInv, TypeOK, SubData
  <2>3. i < Len(v) /\ v[i + 1] = l
    BY <2>1 DEF IInv, IndexConsistent, v
  <2>4. i + 1 \in 1 .. Len(v)
    BY <2>2, <2>3, <1>1
  <2>5. c[i + 1] = h
    BY <2>1, <2>3, <2>4, <1>4
  <2> QED BY <2>4, <2>5, <1>3
<1>8. {c[k] : k \in 1 .. Len(c)} =
        {h \in {g \in Handles : linkId[g] # NoLink} : TopicOf[h] = t}
  BY <1>6, <1>7
<1> QED BY <1>3, <1>5, <1>8 DEF c

-----------------------------------------------------------------------------
(* IInv is inductive: one step per action.                                 *)
LEMMA NextIInv == IInv /\ [Next]_vars => IInv'
<1> SUFFICES ASSUME IInv, [Next]_vars PROVE IInv'
  OBVIOUS
<1>1. ASSUME NEW h \in Handles, Subscribe(h) PROVE IInv'
  <2>1. /\ linkId[h] = NoLink /\ linksCreatedCount < MaxLinks
        /\ BusSubscribe(h)
        /\ linkId' = [linkId EXCEPT ![h] = linksCreatedCount']
        /\ UNCHANGED <<nextTopic, callbacks, received, published>>
    BY <1>1 DEF Subscribe, IsRegistered, IInv, TypeOK, LinkIds, NoLink
  <2>2. /\ TypeOK' /\ IndexConsistent' /\ LinksOwned'
    BY <2>1, LinkHandle DEF IInv, TypeOK
  <2>3. EntriesPending'
    BY <1>1, <2>1 DEF IInv, TypeOK, EntriesPending, Subscribe, IsEntry
  <2>4. CalledOnce'
    BY <2>1 DEF IInv, CalledOnce
  <2> QED BY <2>2, <2>3, <2>4 DEF IInv
<1>2. ASSUME NEW h \in Handles, Unsubscribe(h) PROVE IInv'
  <2>1. /\ linkId[h] # NoLink /\ BusUnsubscribe(linkId[h])
        /\ linkId' = [linkId EXCEPT ![h] = NoLink]
        /\ UNCHANGED <<nextTopic, callbacks, received, published>>
    BY <1>2 DEF Unsubscribe, NoLink
  <2>2. /\ TypeOK' /\ IndexConsistent' /\ LinksOwned'
    BY <2>1, UnlinkHandle DEF IInv, TypeOK
  <2>3. EntriesPending'
    BY <2>1 DEF IInv, TypeOK, EntriesPending
  <2>4. CalledOnce'
    BY <2>1 DEF IInv, CalledOnce
  <2> QED BY <2>2, <2>3, <2>4 DEF IInv
<1>3. ASSUME NEW i \in Inspectors, SubscribeAllStep(i) PROVE IInv'
  <2> DEFINE n == nextTopic[i]
             h == EntryOf[i][n]
  <2>1. n \in Topics /\ h \in Handles /\ linkId[h] = NoLink
    <3>1. n \in Topics
      BY <1>3, BusAssumption DEF SubscribeAllStep, IInv, TypeOK, Topics
    <3>2. n >= nextTopic[i]
      BY <3>1, BusAssumption DEF Topics
    <3>3. h \in Handles
      BY <3>1, BusAssumption
    <3> QED BY <3>1, <3>2, <3>3 DEF IInv, EntriesPending
  <2>2. /\ linksCreatedCount < MaxLinks /\ BusSubscribe(h)
        /\ linkId' = [linkId EXCEPT ![h] = linksCreatedCount']
        /\ nextTopic' = [nextTopic EXCEPT ![i] = n + 1]
        /\ UNCHANGED <<callbacks, received, published>>
    BY <1>3 DEF SubscribeAllStep
  <2> HIDE DEF n, h
  <2>3. nextTopic' \in [Inspectors -> 0 .. TopicCount]
    <3>1. n + 1 \in 0 .. TopicCount
      BY <2>1, BusAssumption DEF Topics
    <3> QED BY <3>1, <2>2 DEF IInv, TypeOK
  <2>4. /\ TypeOK' /\ IndexConsistent' /\ LinksOwned'
    BY <2>1, <2>2, <2>3, LinkHandle DEF IInv, TypeOK
  <2>5. EntriesPending'
    <3> SUFFICES ASSUME NEW j \in Inspectors, NEW u \in Topics,
                        u >= nextTopic'[j]
                 PROVE  linkId'[EntryOf[j][u]] = NoLink
      BY DEF EntriesPending
    <3>1. nextTopic[j] \in Nat /\ u \in Nat /\ nextTopic[i] \in Nat
      BY BusAssumption DEF IInv, TypeOK, Topics
    <3>2. u >= nextTopic[j] /\ (j = i => u # n)
      BY <3>1, <2>2 DEF IInv, TypeOK, n
    <3>3. EntryOf[j][u] # h /\ EntryOf[j][u] \in Handles
      BY <3>2, <2>1, BusAssumption DEF h
    <3> QED BY <3>2, <3>3, <2>2 DEF IInv, TypeOK, EntriesPending
  <2>6. CalledOnce'
    BY <2>2 DEF IInv, CalledOnce
  <2> QED BY <2>4, <2>5, <2>6 DEF IInv
<1>4. ASSUME NEW p \in Publishers, NEW t \in Topics, Publish(p, t) PROVE IInv'
  <2>1. /\ callbacks' = [callbacks EXCEPT ![p] = CallbacksOf(t)]
        /\ published' = [published EXCEPT ![p] = @ + 1]
        /\ published[p] < MaxPublishes
        /\ UNCHANGED <<busVars, linkId, nextTopic, received>>
    BY <1>4 DEF Publish
  <2>2. CallbacksOf(t) \in Seq(Handles)
    BY CallbacksOfSubscribed
  <2>3. published' \in [Publishers -> 0 .. MaxPublishes]
    BY <2>1, BusAssumption DEF IInv, TypeOK
  <2>4. TypeOK'
    BY <2>1, <2>2, <2>3 DEF IInv, TypeOK, busVars
  <2>5. IndexConsistent' /\ LinksOwned' /\ EntriesPending'
    BY <2>1 DEF IInv, IndexConsistent, LinksOwned, EntriesPending, busVars
  <2>6. CalledOnce'
    <3>1. ASSUME NEW q \in Publishers, q # p PROVE callbacks'[q] = callbacks[q]
      BY <2>1, <3>1 DEF IInv, TypeOK
    <3>2. callbacks'[p] = CallbacksOf(t)
      BY <2>1 DEF IInv, TypeOK
    <3>3. \A j, k \in 1 .. Len(CallbacksOf(t)) :
            CallbacksOf(t)[j] = CallbacksOf(t)[k] => j = k
      BY CallbacksOfSubscribed
    <3> QED BY <3>1, <3>2, <3>3 DEF IInv, CalledOnce
  <2> QED BY <2>4, <2>5, <2>6 DEF IInv
<1>5. ASSUME NEW p \in Publishers, Call(p) PROVE IInv'
  <2> DEFINE c == callbacks[p]
  <2>1. /\ c \in Seq(Handles) /\ c # <<>> /\ Head(c) \in Handles
        /\ callbacks' = [callbacks EXCEPT ![p] = Tail(c)]
        /\ received' = [received EXCEPT ![Head(c)] = @ + 1]
        /\ UNCHANGED <<busVars, linkId, nextTopic, published>>
    BY <1>5 DEF Call, IInv, TypeOK
  <2>2. /\ Tail(c) \in Seq(Handles) /\ Len(Tail(c)) = Len(c) - 1
        /\ \A k \in 1 .. Len(c) - 1 : Tail(c)[k] = c[k + 1]
    BY <2>1
  <2>3. TypeOK'
    BY <2>1, <2>2 DEF IInv, TypeOK, busVars
  <2>4. IndexConsistent' /\ LinksOwned' /\ EntriesPending'
    BY <2>1 DEF IInv, IndexConsistent, LinksOwned, EntriesPending, busVars
  <2>5. CalledOnce'
    <3>1. ASSUME NEW j \in 1 .. Len(Tail(c)), NEW k \in 1 .. Len(Tail(c)),
                 Tail(c)[j] = Tail(c)[k]
          PROVE  j = k
      <4>1. j + 1 \in 1 .. Len(c) /\ k + 1 \in 1 .. Len(c)
            /\ c[j + 1] = c[k + 1]
        BY <2>1, <2>2, <3>1
      <4>2. j + 1 = k + 1
        BY <4>1 DEF IInv, CalledOnce
      <4> QED BY <4>2
    <3>2. ASSUME NEW q \in Publishers, q # p PROVE callbacks'[q] = callbacks[q]
      BY <2>1, <3>2 DEF IInv, TypeOK
    <3>3. callbacks'[p] = Tail(c)
      BY <2>1 DEF IInv, TypeOK
    <3> HIDE DEF c
    <3> QED BY <3>1, <3>2, <3>3 DEF IInv, CalledOnce
  <2> QED BY <2>3, <2>4, <2>5 DEF IInv
<1>6. CASE UNCHANGED vars
  BY <1>6 DEF vars, IInv, TypeOK, IndexConsistent, LinksOwned, EntriesPending,
     CalledOnce
<1> QED BY <1>1, <1>2, <1>3, <1>4, <1>5, <1>6 DEF Next

-----------------------------------------------------------------------------
(* The inductive invariant holds in every reachable state.                 *)
THEOREM InductiveInvariant == Spec => []IInv
  BY InitIInv, NextIInv, PTL DEF Spec

(* Every variable keeps its type; the ids in the tables were handed out.   *)
THEOREM TypeCorrect == Spec => []TypeOK
<1>1. IInv => TypeOK
  BY DEF IInv
<1> QED BY InductiveInvariant, <1>1, PTL

(* The swap-and-pop of unsubscribe never leaves a stale index.             *)
THEOREM IndicesConsistent == Spec => []IndexConsistent
<1>1. IInv => IndexConsistent
  BY DEF IInv
<1> QED BY InductiveInvariant, <1>1, PTL

(* Subscribers and links own each other: none leaked, none taken away.     *)
THEOREM HandlesOwnLinks == Spec => []LinksOwned
<1>1. IInv => LinksOwned
  BY DEF IInv
<1> QED BY InductiveInvariant, <1>1, PTL

-----------------------------------------------------------------------------
(* An unsubscribed handle that no publish holds a copy of stays uncalled.  *)
LEMMA QuietStep ==
  IInv /\ [Next]_vars =>
    [\A h \in Handles :
       ~IsRegistered(h) /\ ~IsCalled(h) => ~IsCalled(h)']_vars
<1> SUFFICES ASSUME IInv, Next, NEW h \in Handles,
                    ~IsRegistered(h), ~IsCalled(h)
             PROVE  ~IsCalled(h)'
  OBVIOUS
<1>1. linkId[h] = NoLink
  BY DEF IInv, TypeOK, LinkIds, NoLink, IsRegistered
<1>2. CASE UNCHANGED callbacks
  BY <1>2 DEF IsCalled
<1>3. ASSUME NEW p \in Publishers, NEW t \in Topics, Publish(p, t)
      PROVE  ~IsCalled(h)'
  <2>1. callbacks' = [callbacks EXCEPT ![p] = CallbacksOf(t)]
    BY <1>3 DEF Publish
  <2>2. \A k \in 1 .. Len(CallbacksOf(t)) : CallbacksOf(t)[k] # h
    BY <1>1, CallbacksOfSubscribed
  <2> QED BY <2>1, <2>2 DEF IsCalled, IInv, TypeOK
<1>4. ASSUME NEW p \in Publishers, Call(p) PROVE ~IsCalled(h)'
  <2> DEFINE c == callbacks[p]
  <2>1. /\ c \in Seq(Handles) /\ c # <<>>
        /\ callbacks' = [callbacks EXCEPT ![p] = Tail(c)]
    BY <1>4 DEF Call, IInv, TypeOK
  <2>2. \A k \in 1 .. Len(Tail(c)) :
          k + 1 \in 1 .. Len(c) /\ Tail(c)[k] = c[k + 1]
    BY <2>1
  <2>3. \A k \in 1 .. Len(Tail(c)) : Tail(c)[k] # h
    BY <2>2 DEF IsCalled
  <2> QED BY <2>1, <2>3 DEF IsCalled, IInv, TypeOK
<1> QED BY <1>2, <1>3, <1>4 DEF Next, Subscribe, Unsubscribe, SubscribeAllStep

(* After an unsubscribe, once the publishes in progress are over, nothing  *)
(* calls the handle again until it subscribes.                             *)
THEOREM UnsubscribedStaysQuiet == Spec => QuietStaysQuiet
  BY InductiveInvariant, QuietStep, PTL DEF Spec, QuietStaysQuiet

-----------------------------------------------------------------------------
(* The tables implement the abstract bus: every step is an abstract step   *)
(* or changes nothing the abstract bus has.                                *)
LEMMA RefinementInit == Init => Abstract!Init
  BY DEF Init, Abstract!Init, NoLink

LEMMA RefinementStep ==
  IInv /\ [Next]_vars => [Abstract!Next]_(Abstract!vars)
<1> DEFINE Subscribed == {h \in Handles : linkId[h] # NoLink}
           ToCall == [p \in Publishers |->
                        {callbacks[p][k] : k \in 1 .. Len(callbacks[p])}]
<1> SUFFICES ASSUME IInv, [Next]_vars
             PROVE  [Abstract!Next]_(Abstract!vars)
  OBVIOUS
<1>1. ASSUME UNCHANGED callbacks PROVE ToCall' = ToCall
  BY <1>1
<1>2. ASSUME NEW h \in Handles, linkId[h] = NoLink, linkId'[h] # NoLink,
             \A g \in Handles : g # h => linkId'[g] = linkId[g],
             UNCHANGED <<callbacks, received>>
      PROVE  Abstract!Subscribe(h)
  <2>1. h \notin Subscribed /\ Subscribed' = Subscribed \cup {h}
    BY <1>2
  <2> QED BY <2>1, <1>1, <1>2 DEF Abstract!Subscribe
<1>3. ASSUME NEW h \in Handles, Subscribe(h) PROVE Abstract!Subscribe(h)
  <2>1. /\ linkId[h] = NoLink
        /\ linkId' = [linkId EXCEPT ![h] = linksCreatedCount + 1]
        /\ UNCHANGED <<callbacks, received>>
    BY <1>3 DEF Subscribe, IsRegistered, BusSubscribe, IInv, TypeOK, LinkIds,
       NoLink
  <2>2. linksCreatedCount + 1 # NoLink
    BY BusAssumption DEF IInv, TypeOK, NoLink
  <2> QED BY <2>1, <2>2, <1>2 DEF IInv, TypeOK
<1>4. ASSUME NEW i \in Inspectors, SubscribeAllStep(i)
      PROVE  \E h \in Handles : Abstract!Subscribe(h)
  <2>1. nextTopic[i] \in Topics /\ nextTopic[i] >= nextTopic[i]
    BY <1>4, BusAssumption DEF SubscribeAllStep, IInv, TypeOK, Topics
  <2>2. PICK h \in Handles : h = EntryOf[i][nextTopic[i]]
    BY <2>1, BusAssumption
  <2>3. linkId[h] = NoLink
    BY <2>1, <2>2 DEF IInv, EntriesPending
  <2>4. /\ linkId' = [linkId EXCEPT ![h] = linksCreatedCount + 1]
        /\ UNCHANGED <<callbacks, received>>
    BY <1>4, <2>2 DEF SubscribeAllStep, BusSubscribe
  <2>5. linksCreatedCount + 1 # NoLink
    BY BusAssumption DEF IInv, TypeOK, NoLink
  <2>6. /\ linkId'[h] # NoLink
        /\ \A g \in Handles : g # h => linkId'[g] = linkId[g]
    BY <2>4, <2>5 DEF IInv, TypeOK
  <2> QED BY <2>3, <2>4, <2>6, <1>2
<1>5. ASSUME NEW h \in Handles, Unsubscribe(h) PROVE Abstract!Unsubscribe(h)
  <2>1. /\ linkId[h] # NoLink
        /\ linkId' = [linkId EXCEPT ![h] = NoLink]
        /\ UNCHANGED <<callbacks, received>>
    BY <1>5 DEF Unsubscribe, NoLink
  <2>2. h \in Subscribed /\ Subscribed' = Subscribed \ {h}
    BY <2>1 DEF IInv, TypeOK
  <2> QED BY <2>1, <2>2, <1>1 DEF Abstract!Unsubscribe
<1>6. ASSUME NEW p \in Publishers, NEW t \in Topics, Publish(p, t)
      PROVE  Abstract!Publish(p, t)
  <2> DEFINE Audience == {h \in Subscribed : TopicOf[h] = t}
  <2>1. /\ callbacks[p] = <<>>
        /\ callbacks' = [callbacks EXCEPT ![p] = CallbacksOf(t)]
        /\ UNCHANGED <<linkId, received>>
    BY <1>6 DEF Publish
  <2>2. ToCall[p] = {}
    BY <2>1
  <2>3. {CallbacksOf(t)[k] : k \in 1 .. Len(CallbacksOf(t))} = Audience
    BY CallbacksOfSubscribed
  <2>4. ToCall' = [ToCall EXCEPT ![p] = Audience]
    <3>1. callbacks'[p] = CallbacksOf(t)
      BY <2>1 DEF IInv, TypeOK
    <3>2. \A q \in Publishers : q # p => callbacks'[q] = callbacks[q]
      BY <2>1 DEF IInv, TypeOK
    <3>3. ToCall'[p] = Audience
      BY <2>3, <3>1
    <3>4. \A q \in Publishers : q # p => ToCall'[q] = ToCall[q]
      BY <3>2
    <3> QED BY <3>3, <3>4
  <2> QED BY <2>1, <2>2, <2>4 DEF Abstract!Publish
<1>7. ASSUME NEW p \in Publishers, Call(p)
      PROVE  \E h \in Handles : Abstract!Call(p, h)
  <2> DEFINE c == callbacks[p]
  <2>0. c \in Seq(Handles) /\ c # <<>>
    BY <1>7 DEF Call, IInv, TypeOK
  <2>h. PICK h \in Handles : h = Head(c)
    BY <2>0
  <2>1. /\ c \in Seq(Handles) /\ c # <<>> /\ h = Head(c)
        /\ callbacks' = [callbacks EXCEPT ![p] = Tail(c)]
        /\ received' = [received EXCEPT ![h] = @ + 1]
        /\ UNCHANGED linkId
    BY <2>0, <2>h, <1>7 DEF Call
  <2>2. /\ Len(c) \in Nat \ {0} /\ h = c[1]
        /\ Len(Tail(c)) = Len(c) - 1
        /\ \A k \in 1 .. Len(c) - 1 : Tail(c)[k] = c[k + 1]
    BY <2>1
  <2>3. \A k \in 1 .. Len(c) : c[k] = c[1] => k = 1
    BY <2>2 DEF IInv, CalledOnce
  <2> HIDE DEF c
  <2>4. {Tail(c)[k] : k \in 1 .. Len(Tail(c))} =
          {c[k] : k \in 1 .. Len(c)} \ {h}
    <3>1. ASSUME NEW k \in 1 .. Len(Tail(c))
          PROVE  Tail(c)[k] \in {c[j] : j \in 1 .. Len(c)} \ {h}
      <4>1. k + 1 \in 1 .. Len(c) /\ k + 1 # 1 /\ Tail(c)[k] = c[k + 1]
        BY <2>2
      <4> QED BY <4>1, <2>2, <2>3
    <3>2. ASSUME NEW j \in 1 .. Len(c), c[j] # h
          PROVE  c[j] \in {Tail(c)[k] : k \in 1 .. Len(Tail(c))}
      <4>1. j - 1 \in 1 .. Len(Tail(c)) /\ Tail(c)[j - 1] = c[j]
        BY <2>2, <3>2
      <4> QED BY <4>1
    <3> QED BY <3>1, <3>2
  <2>5. ToCall[p] = {c[k] : k \in 1 .. Len(c)} /\ h \in ToCall[p]
    BY <2>2 DEF c
  <2>6. ToCall' = [ToCall EXCEPT ![p] = @ \ {h}]
    <3>1. callbacks'[p] = Tail(c)
      BY <2>1 DEF IInv, TypeOK
    <3>2. \A q \in Publishers : q # p => callbacks'[q] = callbacks[q]
      BY <2>1 DEF IInv, TypeOK
    <3>3. ToCall'[p] = ToCall[p] \ {h}
      <4>1. ToCall'[p] = {callbacks'[p][k] : k \in 1 .. Len(callbacks'[p])}
        OBVIOUS
      <4>2. ToCall'[p] = {Tail(c)[k] : k \in 1 .. Len(Tail(c))}
        BY <4>1, <3>1
      <4> HIDE DEF ToCall
      <4> QED BY <4>2, <2>4, <2>5
    <3>4. \A q \in Publishers : q # p => ToCall'[q] = ToCall[q]
      BY <3>2
    <3> QED BY <3>3, <3>4
  <2> QED BY <2>1, <2>5, <2>6 DEF Abstract!Call
<1>8. CASE UNCHANGED vars
  BY <1>8, <1>1 DEF vars, Abstract!vars
<1> QED BY <1>3, <1>4, <1>5, <1>6, <1>7, <1>8 DEF Next, Abstract!Next

THEOREM TablesImplementBus == Spec => ImplementsTopicBus
  BY InductiveInvariant, RefinementInit, RefinementStep, PTL
  DEF Spec, Abstract!Spec, ImplementsTopicBus

-----------------------------------------------------------------------------
(* Sums over a finite set.  What a recursive function on the subsets of it *)
(* computes is shown on a subset that is minimal among those that fail.    *)

(* Of some subsets of a finite set one is minimal.                         *)
LEMMA MinimalSubset ==
  ASSUME NEW S, IsFiniteSet(S), NEW F \in SUBSET SUBSET S, F # {}
  PROVE  \E T \in F : \A U \in F : U \subseteq T => U = T
<1>1. IsWellFoundedOn(StrictSubsetOrdering(S), SUBSET S)
  BY FS_StrictSubsetOrderingWellFounded, FS_FiniteSubsetsOfFinite
<1>2. PICK T \in F : \A U \in F : ~(<<U, T>> \in StrictSubsetOrdering(S))
  BY <1>1, WFMin, Zenon
<1> QED BY <1>2, Zenon DEF StrictSubsetOrdering

(* The sums of v over the subsets of T, one element after the other.       *)
Picked(K) == CHOOSE x \in K : TRUE
IsSum(sums, v, T) ==
  sums = [K \in SUBSET T |->
            IF K = {} THEN 0 ELSE v[Picked(K)] + sums[K \ {Picked(K)}]]
Total(v, S) == (CHOOSE sums : IsSum(sums, v, S))[S]

(* The fields of a function that sums.                                     *)
LEMMA SumFields ==
  ASSUME NEW T, NEW v, NEW sums, IsSum(sums, v, T)
  PROVE  /\ sums[{}] = 0
         /\ \A K \in SUBSET T : K # {} =>
              sums[K] = v[Picked(K)] + sums[K \ {Picked(K)}]
<1>1. \A K \in SUBSET T :
        sums[K] = IF K = {} THEN 0 ELSE v[Picked(K)] + sums[K \ {Picked(K)}]
  BY Zenon DEF IsSum
<1>2. sums[{}] = 0
  BY <1>1
<1> QED BY <1>1, <1>2

(* The element that is taken is one, and the rest is smaller.              *)
LEMMA PickedFields ==
  ASSUME NEW K, K # {}
  PROVE  /\ Picked(K) \in K
         /\ K \ {Picked(K)} \subseteq K /\ K \ {Picked(K)} # K
<1>1. Picked(K) \in K
  BY DEF Picked
<1> QED BY <1>1

(* Two functions that sum v agree wherever both are defined.               *)
LEMMA SumUnique ==
  ASSUME NEW S, IsFiniteSet(S), NEW v,
         NEW T \in SUBSET S, NEW f, IsSum(f, v, T),
         NEW U \in SUBSET S, NEW g, IsSum(g, v, U)
  PROVE  \A K \in SUBSET (T \cap U) : f[K] = g[K]
<1> DEFINE F == {K \in SUBSET (T \cap U) : f[K] # g[K]}
<1> SUFFICES ASSUME F # {} PROVE FALSE
  OBVIOUS
<1>1. F \in SUBSET SUBSET S
  OBVIOUS
<1>2. PICK K \in F : \A L \in F : L \subseteq K => L = K
  <2> HIDE DEF F
  <2> QED BY <1>1, MinimalSubset
<1>3. K \in SUBSET T /\ K \in SUBSET U /\ f[K] # g[K]
  OBVIOUS
<1>4. K # {}
  BY <1>3, SumFields
<1> DEFINE p == Picked(K)
           L == K \ {p}
<1>5. L \subseteq K /\ L # K
  BY <1>4, PickedFields
<1>6. f[K] = v[p] + f[L] /\ g[K] = v[p] + g[L]
  BY <1>3, <1>4, SumFields
<1> HIDE DEF p, L
<1>7. f[L] = g[L]
  BY <1>2, <1>3, <1>5
<1> QED BY <1>3, <1>6, <1>7

(* There is one for every finite set.                                      *)
LEMMA SumExists ==
  ASSUME NEW S, IsFiniteSet(S), NEW v
  PROVE  \E sums : IsSum(sums, v, S)
<1> DEFINE F == {T \in SUBSET S : \A sums : ~IsSum(sums, v, T)}
<1> SUFFICES ASSUME F # {} PROVE FALSE
  OBVIOUS
<1>1. PICK T \in F : \A U \in F : U \subseteq T => U = T
  <2>1. F \in SUBSET SUBSET S
    OBVIOUS
  <2> HIDE DEF F
  <2> QED BY <2>1, MinimalSubset
<1> DEFINE Of(K) == CHOOSE sums : IsSum(sums, v, K)
           Last  == T \ {Picked(T)}
           f == [K \in SUBSET T |->
                   IF K = {} THEN 0
                   ELSE IF K = T THEN v[Picked(T)] + Of(Last)[Last]
                   ELSE Of(K)[K]]
<1>2. \A K \in SUBSET T : K # T => IsSum(Of(K), v, K)
  BY <1>1
<1> HIDE DEF Of
<1>3. ASSUME NEW K \in SUBSET T, K # {}
      PROVE  f[K] = v[Picked(K)] + f[K \ {Picked(K)}]
  <2> DEFINE L == K \ {Picked(K)}
  <2>1. Picked(K) \in K /\ L \in SUBSET T /\ L # T /\ L \subseteq K
    BY <1>3 DEF Picked
  <2>2. f[L] = Of(L)[L]
    <3>1. IsSum(Of(L), v, L)
      BY <1>2, <2>1
    <3>2. Of(L)[{}] = 0
      BY <3>1, SumFields
    <3> QED BY <2>1, <3>2
  <2>3. CASE K = T
    BY <1>3, <2>2, <2>3
  <2>4. CASE K # T
    <3>1. f[K] = Of(K)[K] /\ IsSum(Of(K), v, K) /\ IsSum(Of(L), v, L)
      BY <1>2, <1>3, <2>1, <2>4
    <3>2. Of(K)[K] = v[Picked(K)] + Of(K)[L]
      <4>1. K \in SUBSET K
        OBVIOUS
      <4> QED BY <4>1, <1>3, <3>1, SumFields
    <3>3. Of(K)[L] = Of(L)[L]
      <4>1. K \in SUBSET S /\ L \in SUBSET S /\ L \in SUBSET (K \cap L)
        BY <2>1
      <4> HIDE DEF L
      <4> QED BY <3>1, <4>1, SumUnique
    <3> QED BY <3>1, <3>2, <3>3, <2>2
  <2> QED BY <2>3, <2>4
<1>4. f = [K \in SUBSET T |->
             IF K = {} THEN 0 ELSE v[Picked(K)] + f[K \ {Picked(K)}]]
  <2>1. f[{}] = 0 /\ f = [K \in SUBSET T |-> f[K]]
    OBVIOUS
  <2> HIDE DEF f
  <2> QED BY <1>3, <2>1
<1> HIDE DEF f
<1>5. IsSum(f, v, T)
  BY <1>4 DEF IsSum
<1> QED BY <1>5, <1>1

(* The total is that of any function that sums.                            *)
LEMMA TotalIs ==
  ASSUME NEW S, IsFiniteSet(S), NEW v
  PROVE  /\ IsSum(CHOOSE sums : IsSum(sums, v, S), v, S)
         /\ \A sums : IsSum(sums, v, S) => sums[S] = Total(v, S)
<1>1. IsSum(CHOOSE sums : IsSum(sums, v, S), v, S)
  BY SumExists
<1> QED BY <1>1, SumUnique DEF Total

(* Naturals sum to naturals.                                               *)
LEMMA SumsNatural ==
  ASSUME NEW S, IsFiniteSet(S), NEW v, \A k \in S : v[k] \in Nat,
         NEW sums, IsSum(sums, v, S)
  PROVE  \A K \in SUBSET S : sums[K] \in Nat
<1> DEFINE F == {K \in SUBSET S : sums[K] \notin Nat}
<1> SUFFICES ASSUME F # {} PROVE FALSE
  OBVIOUS
<1>1. PICK K \in F : \A L \in F : L \subseteq K => L = K
  <2>1. F \in SUBSET SUBSET S
    OBVIOUS
  <2> HIDE DEF F
  <2> QED BY <2>1, MinimalSubset
<1>2. K \in SUBSET S /\ sums[K] \notin Nat
  OBVIOUS
<1>3. K # {}
  <2>1. sums[{}] = 0
    BY SumFields
  <2> QED BY <2>1, <1>2
<1> DEFINE p == Picked(K)
           L == K \ {p}
<1>4. L \subseteq K /\ L # K /\ p \in S
  BY <1>2, <1>3, PickedFields
<1>5. sums[K] = v[p] + sums[L]
  BY <1>2, <1>3, SumFields
<1> HIDE DEF p, L
<1>6. sums[L] \in Nat
  BY <1>1, <1>2, <1>4
<1> QED BY <1>2, <1>4, <1>5, <1>6

(* One more in one place is one more in all.                               *)
LEMMA TotalStep ==
  ASSUME NEW S, IsFiniteSet(S), NEW v, NEW w, NEW k \in S,
         \A l \in S : v[l] \in Nat,
         \A l \in S : w[l] = IF l = k THEN v[l] + 1 ELSE v[l]
  PROVE  Total(w, S) = Total(v, S) + 1
<1> DEFINE f == CHOOSE sums : IsSum(sums, v, S)
           g == CHOOSE sums : IsSum(sums, w, S)
<1>1. IsSum(f, v, S) /\ IsSum(g, w, S)
  BY TotalIs
<1> HIDE DEF f, g
<1>2. \A K \in SUBSET S : f[K] \in Nat
  BY <1>1, SumsNatural
<1> DEFINE F == {K \in SUBSET S : g[K] # IF k \in K THEN f[K] + 1 ELSE f[K]}
<1>3. ASSUME F # {} PROVE FALSE
  <2>1. PICK K \in F : \A L \in F : L \subseteq K => L = K
    <3>1. F \in SUBSET SUBSET S
      OBVIOUS
    <3> HIDE DEF F
    <3> QED BY <3>1, <1>3, MinimalSubset
  <2>2. K \in SUBSET S /\ g[K] # IF k \in K THEN f[K] + 1 ELSE f[K]
    OBVIOUS
  <2> DEFINE p == Picked(K)
             L == K \ {p}
  <2>3. /\ L \subseteq K /\ L # K /\ L \in SUBSET S /\ p \in K /\ p \in S
        /\ f[K] = v[p] + f[L] /\ g[K] = w[p] + g[L]
    <3>1. K # {}
      BY <1>1, <2>2, SumFields
    <3>2. f[K] = v[p] + f[L]
      BY <1>1, <2>2, <3>1, SumFields
    <3>3. g[K] = w[p] + g[L]
      BY <1>1, <2>2, <3>1, SumFields
    <3> QED BY <2>2, <3>1, <3>2, <3>3, PickedFields
  <2>4. g[L] = IF k \in L THEN f[L] + 1 ELSE f[L]
    <3> HIDE DEF L
    <3> QED BY <2>1, <2>3
  <2>5. k \in L <=> k \in K /\ k # p
    OBVIOUS
  <2>6. f[L] \in Nat /\ v[p] \in Nat /\ w[p] = IF p = k THEN v[p] + 1 ELSE v[p]
    BY <1>2, <2>3
  <2> HIDE DEF p, L
  <2>7. g[K] = IF k \in K THEN f[K] + 1 ELSE f[K]
    BY <2>3, <2>4, <2>5, <2>6
  <2> QED BY <2>2, <2>7
<1>4. g[S] = f[S] + 1
  BY <1>3
<1> QED BY <1>4 DEF Total, f, g

(* Nothing anywhere is nothing in all.                                     *)
LEMMA TotalZero ==
  ASSUME NEW S, IsFiniteSet(S), NEW v, \A l \in S : v[l] = 0
  PROVE  Total(v, S) = 0
<1> DEFINE f == CHOOSE sums : IsSum(sums, v, S)
<1>1. IsSum(f, v, S)
  BY TotalIs
<1> HIDE DEF f
<1> DEFINE F == {K \in SUBSET S : f[K] # 0}
<1>2. ASSUME F # {} PROVE FALSE
  <2>1. PICK K \in F : \A L \in F : L \subseteq K => L = K
    <3>1. F \in SUBSET SUBSET S
      OBVIOUS
    <3> HIDE DEF F
    <3> QED BY <3>1, <1>2, MinimalSubset
  <2>2. K \in SUBSET S /\ f[K] # 0
    OBVIOUS
  <2> DEFINE p == Picked(K)
             L == K \ {p}
  <2>3. L \subseteq K /\ L # K /\ p \in S /\ f[K] = v[p] + f[L]
    <3>1. K # {}
      BY <1>1, <2>2, SumFields
    <3>2. f[K] = v[p] + f[L]
      BY <1>1, <2>2, <3>1, SumFields
    <3> QED BY <2>2, <3>1, <3>2, PickedFields
  <2> HIDE DEF p, L
  <2>4. f[L] = 0
    BY <2>1, <2>2, <2>3
  <2> QED BY <2>2, <2>3, <2>4
<1>3. f[S] = 0
  BY <1>2
<1> QED BY <1>3 DEF Total, f

-----------------------------------------------------------------------------
(* ObserverProgram: what its threads have in hand, and who is called.      *)

(* The workers that run a handler of a key.                                *)
JobsOf(k) == {w \in Workers : job[w] = k}

BeforeLoop == main \in {"start", "assigning", "build"}
AfterLoop  == main \in {"unwind", "released", "join", "returned"}

ProgramTypes ==
  /\ LoopTypeOK
  /\ receivers \in Seq(Receivers)
  /\ BeforeLoop \/ main = "loop" \/ AfterLoop
  /\ built \in 0 .. Len(receivers)
  /\ subscribed \subseteq {receivers[i] : i \in 1 .. built}
  /\ fault \in {"none", "handle", "map", "scope", "dangling"}
  /\ at \in [Threads -> {"idle", "publish", "call", "sleep", "ended"}]
  /\ job \in [Threads -> HandlerKeys \cup {Heartbeat, NoKey}]
  /\ toCall \in [Threads -> SUBSET Receivers]

(* A worker has a job from the time it takes one to its end, and calls     *)
(* receivers for nothing else; each job is a handler still in the scope.   *)
JobsAreWork ==
  /\ \A w \in Workers :
       /\ job[w] # Heartbeat
       /\ job[w] = NoKey <=> at[w] \notin {"publish", "call"}
       /\ at[w] # "call" => toCall[w] = {}
  /\ \A k \in HandlerKeys : Cardinality(JobsOf(k)) <= pending[k]

(* A key is spawned once at most, and the one in the reader's hands not    *)
(* yet.                                                                    *)
InHand == IF reader \in {"stopEvents", "handlers"} THEN 1 ELSE 0
KeysCounted ==
  \A k \in HandlerKeys : pending[k] + handled[k] + InHand <= typed

(* The loop is used between the construction of the receivers and their    *)
(* destruction; when it is destroyed its reader has ended and its scope is *)
(* empty.                                                                  *)
LoopUsedInTurn ==
  /\ BeforeLoop => reader = "getchar" /\ Empty
  /\ owner \in {"exited", "destroyed"} => reader = "ended"
  /\ owner = "destroyed" => Empty
  /\ AfterLoop => owner = "destroyed"

(* Before the receivers are destroyed only living ones are called.         *)
CalledAreAlive ==
  ~AfterLoop =>
    \A t \in Threads : toCall[t] \subseteq {receivers[i] : i \in 1 .. built}

LateIsHeartbeat ==
  fault = "dangling" => main # "loop" /\ \E r \in toCall[Heartbeat] : ~Alive(r)

ObserverInv ==
  /\ ProgramTypes
  /\ JobsAreWork
  /\ KeysCounted
  /\ LoopUsedInTurn
  /\ CalledAreAlive
  /\ LateIsHeartbeat

-----------------------------------------------------------------------------
(* At first there is nothing to run and nobody to call.                    *)
LEMMA ObserverInit == ProgramInit => ObserverInv
<1> SUFFICES ASSUME ProgramInit PROVE ObserverInv
  OBVIOUS
<1> USE DEF ProgramInit, LoopInit
<1>1. ProgramTypes
  BY ProgramAssumption, KeysAssumption
  DEF ProgramTypes, LoopTypeOK, Threads, BeforeLoop
<1>2. JobsAreWork
  <2>1. \A k \in HandlerKeys : JobsOf(k) = {}
    BY ProgramAssumption, KeysAssumption DEF JobsOf, Keys, Threads
  <2>2. \A k \in HandlerKeys : Cardinality(JobsOf(k)) = 0
    BY <2>1, FS_EmptySet
  <2>3. \A k \in HandlerKeys : pending[k] = 0
    OBVIOUS
  <2> QED BY <2>2, <2>3, ProgramAssumption DEF JobsAreWork, Threads, Heartbeat, NoKey
<1>3. KeysCounted
  BY DEF KeysCounted, InHand
<1>4. LoopUsedInTurn
  BY DEF LoopUsedInTurn, AfterLoop, Empty
<1>5. CalledAreAlive
  BY DEF CalledAreAlive
<1>6. LateIsHeartbeat
  BY DEF LateIsHeartbeat
<1> QED BY <1>1, <1>2, <1>3, <1>4, <1>5, <1>6 DEF ObserverInv

(* main's own steps leave the loop and the publishing threads alone.       *)
LEMMA MainKeeps ==
  ASSUME ObserverInv, fault = "none", UNCHANGED <<loopVars, publishVars>>,
         \/ RegisterMessageBus \/ Construct \/ StartLoop \/ LeaveLoop
         \/ ReceiverUnsubscribe \/ Destroyed \/ ReleaseBus
         \/ StopPulseThread \/ JoinPulseThread
  PROVE  ObserverInv'
<1> USE DEF loopVars, tables, readerVars, scopeVars, publishVars
<1>1. LoopTypeOK' /\ Empty' = Empty /\ fault' = "none"
  BY DEF ObserverInv, ProgramTypes, LoopTypeOK, Empty
<1>2. JobsAreWork'
  BY DEF ObserverInv, JobsAreWork, JobsOf
<1>3. KeysCounted'
  BY DEF ObserverInv, KeysCounted, InHand
<1>4. LateIsHeartbeat'
  BY <1>1 DEF LateIsHeartbeat
<1>5. receivers' = receivers /\ receivers \in Seq(Receivers)
  BY DEF RegisterMessageBus, Construct, StartLoop, LeaveLoop,
         ReceiverUnsubscribe, Destroyed, ReleaseBus, StopPulseThread,
         JoinPulseThread, ObserverInv, ProgramTypes
<1> SUFFICES /\ BeforeLoop' \/ main' = "loop" \/ AfterLoop'
             /\ built' \in 0 .. Len(receivers)
             /\ subscribed' \subseteq {receivers[i] : i \in 1 .. built'}
             /\ LoopUsedInTurn'
             /\ CalledAreAlive'
  BY <1>1, <1>2, <1>3, <1>4, <1>5 DEF ObserverInv, ProgramTypes
<1>6. /\ built \in 0 .. Len(receivers) /\ Len(receivers) \in Nat
      /\ subscribed \subseteq {receivers[i] : i \in 1 .. built}
      /\ LoopUsedInTurn /\ CalledAreAlive
  BY <1>5 DEF ObserverInv, ProgramTypes
<1>7. CASE RegisterMessageBus \/ StartLoop \/ LeaveLoop \/ ReleaseBus
           \/ StopPulseThread \/ JoinPulseThread
  <2>1. UNCHANGED <<built, subscribed>>
    BY <1>7 DEF RegisterMessageBus, StartLoop, LeaveLoop, ReleaseBus,
                StopPulseThread, JoinPulseThread
  <2>2. /\ BeforeLoop' \/ main' = "loop" \/ AfterLoop'
        /\ BeforeLoop' => BeforeLoop
        /\ AfterLoop' => AfterLoop \/ owner = "destroyed"
        /\ AfterLoop => AfterLoop'
    BY <1>7 DEF RegisterMessageBus, StartLoop, LeaveLoop, ReleaseBus,
                StopPulseThread, JoinPulseThread, MainGoto, BeforeLoop, AfterLoop
  <2> QED BY <2>1, <2>2, <1>1, <1>5, <1>6 DEF LoopUsedInTurn, CalledAreAlive
<1>8. CASE Construct
  <2>1. /\ built' = built + 1 /\ main' = main /\ built < Len(receivers)
        /\ subscribed' = subscribed \cup {receivers[built + 1]}
        /\ BeforeLoop
    BY <1>8 DEF Construct, BeforeLoop
  <2>2. /\ {receivers[i] : i \in 1 .. built}
             \subseteq {receivers[i] : i \in 1 .. built + 1}
        /\ receivers[built + 1] \in {receivers[i] : i \in 1 .. built + 1}
    BY <1>6
  <2>3. CalledAreAlive'
    BY <2>1, <2>2, <1>5, <1>6 DEF CalledAreAlive, AfterLoop
  <2>4. LoopUsedInTurn'
    BY <2>1, <1>1, <1>6 DEF LoopUsedInTurn, AfterLoop, BeforeLoop
  <2> QED BY <2>1, <2>2, <2>3, <2>4, <1>6 DEF BeforeLoop
<1>9. CASE ReceiverUnsubscribe
  <2>1. /\ built' = built /\ main' = main /\ AfterLoop
        /\ subscribed' \subseteq subscribed
    BY <1>9 DEF ReceiverUnsubscribe, AfterLoop
  <2> QED BY <2>1, <1>1, <1>6 DEF CalledAreAlive, LoopUsedInTurn, AfterLoop, BeforeLoop
<1>10. CASE Destroyed
  <2>1. /\ built' = built - 1 /\ main' = main /\ AfterLoop /\ built > 0
        /\ subscribed' = subscribed /\ receivers[built] \notin subscribed
    BY <1>10 DEF Destroyed, AfterLoop
  <2>2. ASSUME NEW r \in subscribed
        PROVE  \E i \in 1 .. built - 1 : r = receivers[i]
    <3>1. PICK i \in 1 .. built : r = receivers[i]
      BY <1>6
    <3>2. i # built
      BY <3>1, <2>1
    <3> QED BY <3>1, <3>2, <1>6
  <2>3. built - 1 \in 0 .. Len(receivers)
    BY <2>1, <1>6
  <2> QED BY <2>1, <2>2, <2>3, <1>1, <1>6
          DEF CalledAreAlive, LoopUsedInTurn, AfterLoop, BeforeLoop
<1> QED BY <1>7, <1>8, <1>9, <1>10

(* The owner's steps leave the scope, the receivers and their callers      *)
(* alone.                                                                  *)
LEMMA OwnerKeeps ==
  ASSUME ObserverInv, fault = "none", UseLoop
  PROVE  ObserverInv'
<1> USE DEF tables, readerVars, scopeVars, mainVars, publishVars
<1>1. /\ main = "loop" /\ UNCHANGED <<mainVars, publishVars>>
      /\ UNCHANGED <<readerVars, scopeVars>>
      /\ fault' \in {"none", "scope"}
  BY DEF UseLoop, OwnerStep, BeginInsert, AddEventHandler, RegisterStopKey,
         WaitThreadFinished, WaitOnEmpty, Cleanup, Destroy
<1>2. LoopTypeOK'
  <2>1. LoopTypeOK
    BY DEF ObserverInv, ProgramTypes
  <2>2. /\ owner' \in {"configure", "onEmpty", "cleanup", "exited", "destroyed"}
        /\ writing' \in HandlerKeys \cup {StopKey, NoKey}
        /\ handlers' \subseteq HandlerKeys
        /\ stopEvents' \subseteq {StopKey}
    BY <2>1 DEF LoopTypeOK, UseLoop, OwnerStep, BeginInsert, AddEventHandler,
                RegisterStopKey, WaitThreadFinished, WaitOnEmpty, Cleanup,
                Destroy
  <2> QED BY <2>1, <2>2, <1>1 DEF LoopTypeOK
<1>3. ProgramTypes'
  BY <1>1, <1>2 DEF ObserverInv, ProgramTypes, BeforeLoop, AfterLoop
<1>4. JobsAreWork'
  BY <1>1 DEF ObserverInv, JobsAreWork, JobsOf
<1>5. KeysCounted'
  BY <1>1 DEF ObserverInv, KeysCounted, InHand
<1>6. LoopUsedInTurn'
  <2>1. /\ owner' \in {"exited", "destroyed"} => reader = "ended"
        /\ owner' = "destroyed" => Empty
    BY DEF ObserverInv, LoopUsedInTurn, UseLoop, OwnerStep, BeginInsert,
           AddEventHandler, RegisterStopKey, WaitThreadFinished, WaitOnEmpty,
           Cleanup, Destroy
  <2> QED BY <2>1, <1>1 DEF LoopUsedInTurn, BeforeLoop, AfterLoop, Empty
<1>7. CalledAreAlive'
  BY <1>1 DEF ObserverInv, CalledAreAlive, AfterLoop
<1>8. LateIsHeartbeat'
  BY <1>1 DEF LateIsHeartbeat
<1> QED BY <1>3, <1>4, <1>5, <1>6, <1>7, <1>8 DEF ObserverInv

(* The key thread: a key in its hands becomes at most one handler.         *)
LEMMA KeysKeep ==
  ASSUME ObserverInv, fault = "none", KeyStep \/ \E k \in Keys : Type(k)
  PROVE  ObserverInv'
<1> USE DEF tables, readerVars, scopeVars, mainVars, publishVars
<1>1. /\ main = "loop" /\ UNCHANGED <<mainVars, publishVars>>
      /\ UNCHANGED <<owner, writing, tables, handled>>
      /\ fault' \in {"none", "map"}
  BY DEF KeyStep, Type, GetChar, ReaderStep, CheckStopEvents, PostEvent, Stop
<1>2. /\ LoopTypeOK /\ KeysCounted
      /\ \A k \in HandlerKeys : pending[k] \in Nat /\ handled[k] \in Nat
      /\ typed \in Nat /\ MaxKeys \in Nat
  BY KeysAssumption DEF ObserverInv, ProgramTypes, LoopTypeOK
<1>3. /\ reader' \in {"getchar", "stopEvents", "handlers", "stop", "ended"}
      /\ key' \in Keys \cup {NoKey} /\ typed' \in 0 .. MaxKeys
      /\ reader = "ended" => reader' = "ended" /\ pending' = pending
      /\ \/ UNCHANGED pending
         \/ /\ key \in HandlerKeys /\ reader = "handlers"
            /\ pending' = [pending EXCEPT ![key] = @ + 1]
  <2>1. CASE \E k \in Keys : Type(k)
    BY <2>1, <1>2 DEF LoopTypeOK, Type, GetChar
  <2>2. CASE KeyStep
    BY <2>2, <1>2 DEF LoopTypeOK, KeyStep, ReaderStep, CheckStopEvents,
                      PostEvent, Stop
  <2> QED BY <2>1, <2>2
<1>4. \A k \in HandlerKeys : /\ pending'[k] \in Nat /\ pending'[k] >= pending[k]
                             /\ handled'[k] = handled[k]
  BY <1>1, <1>2, <1>3 DEF LoopTypeOK
<1>5. KeysCounted'
  <2>1. CASE \E k \in Keys : Type(k)
    <3>1. typed' = typed + 1 /\ UNCHANGED pending
      BY <2>1 DEF Type, GetChar
    <3> QED BY <3>1, <1>1, <1>2 DEF KeysCounted, InHand
  <2>2. CASE KeyStep /\ UNCHANGED pending
    <3>1. typed' = typed /\ InHand' \in {0, InHand}
      BY <2>2 DEF KeyStep, ReaderStep, CheckStopEvents, PostEvent, Stop, InHand
    <3> QED BY <3>1, <2>2, <1>1, <1>2 DEF KeysCounted, InHand
  <2>3. CASE KeyStep /\ pending' # pending
    <3>1. /\ typed' = typed /\ reader = "handlers" /\ reader' = "getchar"
          /\ key \in HandlerKeys /\ pending' = [pending EXCEPT ![key] = @ + 1]
      BY <2>3, <1>3 DEF KeyStep, ReaderStep, CheckStopEvents, PostEvent, Stop
    <3>2. InHand = 1 /\ InHand' = 0
      BY <3>1 DEF InHand
    <3> QED BY <3>1, <3>2, <1>1, <1>2 DEF KeysCounted, LoopTypeOK
  <2> QED BY <2>1, <2>2, <2>3
<1>6. LoopTypeOK'
  <2>1. \A k \in HandlerKeys : pending'[k] \in 0 .. MaxKeys
    BY <1>1, <1>2, <1>3, <1>4, <1>5 DEF KeysCounted, InHand
  <2>2. pending' \in [HandlerKeys -> 0 .. MaxKeys]
    BY <2>1, <1>2, <1>3 DEF LoopTypeOK
  <2> QED BY <2>2, <1>1, <1>2, <1>3 DEF LoopTypeOK
<1>7. ProgramTypes'
  BY <1>1, <1>6 DEF ObserverInv, ProgramTypes, BeforeLoop, AfterLoop
<1>8. JobsAreWork'
  <2>1. ASSUME NEW k \in HandlerKeys
        PROVE  Cardinality(JobsOf(k)) <= pending'[k]
    <3>1. IsFiniteSet(JobsOf(k))
      BY ProgramAssumption, FS_Subset DEF JobsOf
    <3>2. Cardinality(JobsOf(k)) \in Nat
      BY <3>1, FS_CardinalityType
    <3>3. Cardinality(JobsOf(k)) <= pending[k]
      BY DEF ObserverInv, JobsAreWork
    <3> QED BY <3>2, <3>3, <1>2, <1>4
  <2>2. \A k : JobsOf(k)' = JobsOf(k)
    BY <1>1 DEF JobsOf
  <2> QED BY <2>1, <2>2, <1>1 DEF ObserverInv, JobsAreWork
<1>9. LoopUsedInTurn'
  BY <1>1, <1>3 DEF ObserverInv, LoopUsedInTurn, BeforeLoop, AfterLoop, Empty
<1>10. CalledAreAlive'
  BY <1>1 DEF ObserverInv, CalledAreAlive, AfterLoop
<1>11. LateIsHeartbeat'
  BY <1>1 DEF LateIsHeartbeat
<1> QED BY <1>5, <1>7, <1>8, <1>9, <1>10, <1>11 DEF ObserverInv

(* A step of a thread that publishes, but for the beginning and the end of *)
(* a job, leaves the loop, main and the jobs alone.                        *)
LEMMA PublishersKeep ==
  ASSUME ObserverInv, fault = "none",
         UNCHANGED <<owner, writing, tables, readerVars, scopeVars, mainVars, job>>,
         NEW t \in Threads, NEW place \in {"idle", "publish", "call", "sleep", "ended"},
         at' = [at EXCEPT ![t] = place],
         t \in Workers => \/ place = "call" /\ at[t] = "publish"
                         \/ place = at[t],
         toCall' \in [Threads -> SUBSET Receivers],
         \A u \in Threads : u # t => toCall'[u] = toCall[u],
         t \in Workers /\ place # "call" => toCall'[t] \subseteq toCall[t],
         ~AfterLoop =>
           toCall'[t] \subseteq {receivers[i] : i \in 1 .. built},
         fault' \in {"none", "handle", "dangling"},
         LateIsHeartbeat'
  PROVE  ObserverInv'
<1> USE DEF tables, readerVars, scopeVars, mainVars
<1>1. ProgramTypes'
  <2>1. LoopTypeOK'
    BY DEF ObserverInv, ProgramTypes, LoopTypeOK
  <2>2. at' \in [Threads -> {"idle", "publish", "call", "sleep", "ended"}]
    BY DEF ObserverInv, ProgramTypes
  <2>3. /\ main' = main /\ receivers' = receivers /\ built' = built
        /\ subscribed' = subscribed /\ job' = job
    OBVIOUS
  <2> QED BY <2>1, <2>2, <2>3
          DEF ObserverInv, ProgramTypes, BeforeLoop, AfterLoop
<1>2. JobsAreWork'
  <2>1. \A w \in Workers :
          /\ job'[w] # Heartbeat
          /\ job'[w] = NoKey <=> at'[w] \notin {"publish", "call"}
    BY DEF ObserverInv, JobsAreWork, ProgramTypes, Threads
  <2>2. \A w \in Workers : at'[w] # "call" => toCall'[w] = {}
    BY DEF ObserverInv, JobsAreWork, ProgramTypes, Threads
  <2>3. \A k \in HandlerKeys : Cardinality(JobsOf(k)') <= pending'[k]
    BY DEF ObserverInv, JobsAreWork, JobsOf
  <2> QED BY <2>1, <2>2, <2>3 DEF JobsAreWork
<1>3. KeysCounted'
  BY DEF ObserverInv, KeysCounted, InHand
<1>4. LoopUsedInTurn'
  BY DEF ObserverInv, LoopUsedInTurn, BeforeLoop, AfterLoop, Empty
<1>5. CalledAreAlive'
  BY DEF ObserverInv, CalledAreAlive, AfterLoop
<1> QED BY <1>1, <1>2, <1>3, <1>4, <1>5 DEF ObserverInv

(* The pulse thread's own steps.                                           *)
LEMMA PulseKeeps ==
  ASSUME ObserverInv, fault = "none", Pulse \/ Wake \/ EndPulse
  PROVE  ObserverInv'
<1>1. Heartbeat \in Threads /\ Heartbeat \notin Workers
  BY ProgramAssumption DEF Threads
<1>2. /\ UNCHANGED <<owner, writing, tables, readerVars, scopeVars, mainVars,
                     job, toCall>>
      /\ fault' \in {"none", "handle"}
      /\ \E place \in {"idle", "publish", "call", "sleep", "ended"} :
           at' = [at EXCEPT ![Heartbeat] = place]
  <2>1. CASE Pulse
    <3>1. at = [at EXCEPT ![Heartbeat] = "idle"]
      BY <2>1, <1>1 DEF ObserverInv, ProgramTypes, Pulse, Goto
    <3>2. at' = at \/ \E place \in {"publish", "sleep"} :
                        at' = [at EXCEPT ![Heartbeat] = place]
      BY <2>1 DEF Pulse, Goto
    <3>3. /\ UNCHANGED <<owner, writing, tables, readerVars, scopeVars,
                         mainVars, job, toCall>>
          /\ fault' \in {"none", "handle"}
      BY <2>1 DEF Pulse
    <3> QED BY <3>1, <3>2, <3>3
  <2>2. CASE Wake \/ EndPulse
    BY <2>2 DEF Wake, EndPulse, Goto, loopVars
  <2> QED BY <2>1, <2>2
<1>3. PICK place \in {"idle", "publish", "call", "sleep", "ended"} :
        at' = [at EXCEPT ![Heartbeat] = place]
  BY <1>2
<1>4. /\ toCall' \in [Threads -> SUBSET Receivers] /\ toCall' = toCall
      /\ ~AfterLoop =>
           toCall'[Heartbeat] \subseteq {receivers[i] : i \in 1 .. built}
  BY <1>1, <1>2 DEF ObserverInv, ProgramTypes, CalledAreAlive
<1>5. LateIsHeartbeat'
  BY <1>2 DEF LateIsHeartbeat
<1> HIDE DEF LateIsHeartbeat
<1> QED BY <1>1, <1>2, <1>3, <1>4, <1>5, PublishersKeep

(* The callbacks that are copied are those of receivers that are alive.    *)
LEMMA CopyKeeps ==
  ASSUME ObserverInv, fault = "none", NEW t \in Threads, CopyCallbacks(t)
  PROVE  ObserverInv'
<1>1. /\ at[t] = "publish" /\ at' = [at EXCEPT ![t] = "call"]
      /\ toCall' = [toCall EXCEPT ![t] = {r \in subscribed : job[t] \in Hears[r]}]
      /\ UNCHANGED <<owner, writing, tables, readerVars, scopeVars, mainVars,
                     job, fault>>
  BY DEF CopyCallbacks, Goto, loopVars
<1>2. /\ subscribed \subseteq {receivers[i] : i \in 1 .. built}
      /\ receivers \in Seq(Receivers) /\ built \in 0 .. Len(receivers)
      /\ toCall \in [Threads -> SUBSET Receivers]
  BY DEF ObserverInv, ProgramTypes
<1>3. subscribed \subseteq Receivers
  BY <1>2
<1>4. /\ toCall' \in [Threads -> SUBSET Receivers]
      /\ toCall'[t] \subseteq subscribed
      /\ \A u \in Threads : u # t => toCall'[u] = toCall[u]
  BY <1>1, <1>2, <1>3
<1>5. LateIsHeartbeat'
  BY <1>1 DEF LateIsHeartbeat
<1> QED BY <1>1, <1>2, <1>4, <1>5, PublishersKeep

(* A receiver that is called and found destroyed is the pulse thread's.    *)
LEMMA WorkersCallLiving ==
  ASSUME ObserverInv, NEW t \in Threads, NEW r \in toCall[t], ~Alive(r)
  PROVE  t = Heartbeat /\ AfterLoop
<1>1. AfterLoop
  BY DEF ObserverInv, CalledAreAlive, Alive
<1>2. Empty
  BY <1>1 DEF ObserverInv, LoopUsedInTurn
<1>3. ASSUME t \in Workers PROVE FALSE
  <2>1. at[t] = "call" /\ job[t] \in HandlerKeys
    BY <1>3 DEF ObserverInv, JobsAreWork, ProgramTypes, Threads
  <2>2. t \in JobsOf(job[t])
    BY <1>3 DEF JobsOf
  <2>3. IsFiniteSet(JobsOf(job[t])) /\ Cardinality(JobsOf(job[t])) <= 0
    <3>1. IsFiniteSet(JobsOf(job[t]))
      BY ProgramAssumption, FS_Subset DEF JobsOf
    <3>2. Cardinality(JobsOf(job[t])) <= 0
      BY <2>1, <1>2 DEF ObserverInv, JobsAreWork, Empty
    <3> QED BY <3>1, <3>2
  <2>4. Cardinality(JobsOf(job[t])) = 0
    BY <2>3, FS_CardinalityType
  <2> QED BY <2>2, <2>3, <2>4, FS_EmptySet
<1> QED BY <1>1, <1>3 DEF Threads

(* A receiver is called.                                                   *)
LEMMA ReceiveKeeps ==
  ASSUME ObserverInv, fault = "none",
         NEW t \in Threads, NEW r \in Receivers, Receive(t, r)
  PROVE  ObserverInv'
<1>1. /\ at[t] = "call" /\ r \in toCall[t]
      /\ UNCHANGED <<owner, writing, tables, readerVars, scopeVars, mainVars,
                     at, job>>
      /\ \/ Alive(r) /\ toCall' = [toCall EXCEPT ![t] = @ \ {r}]
                     /\ fault' = fault
         \/ ~Alive(r) /\ toCall' = toCall /\ fault' = "dangling"
  BY DEF Receive
<1>2. /\ toCall \in [Threads -> SUBSET Receivers]
      /\ ~AfterLoop =>
           toCall[t] \subseteq {receivers[i] : i \in 1 .. built}
      /\ at' = [at EXCEPT ![t] = at[t]] /\ at[t] \in {"call"}
  BY <1>1 DEF ObserverInv, ProgramTypes, CalledAreAlive
<1>3. /\ toCall' \in [Threads -> SUBSET Receivers]
      /\ toCall'[t] \subseteq toCall[t]
      /\ \A u \in Threads : u # t => toCall'[u] = toCall[u]
  BY <1>1, <1>2
<1>4. LateIsHeartbeat'
  <2>1. CASE fault' = "dangling"
    <3>1. ~Alive(r) /\ toCall' = toCall
      BY <2>1, <1>1
    <3>2. t = Heartbeat /\ AfterLoop
      BY <3>1, <1>1, WorkersCallLiving
    <3>3. r \in toCall'[Heartbeat] /\ main' # "loop"
      BY <3>1, <3>2, <1>1 DEF AfterLoop, mainVars
    <3>4. ~Alive(r)'
      BY <3>1, <1>1 DEF Alive, mainVars
    <3> QED BY <3>3, <3>4 DEF LateIsHeartbeat
  <2>2. CASE fault' # "dangling"
    BY <2>2 DEF LateIsHeartbeat
  <2> QED BY <2>1, <2>2
<1> QED BY <1>1, <1>2, <1>3, <1>4, PublishersKeep

(* A worker takes a handler that no other worker has.                      *)
LEMMA TakeKeeps ==
  ASSUME ObserverInv, fault = "none",
         NEW w \in Workers, NEW k \in HandlerKeys, TakeHandler(w, k)
  PROVE  ObserverInv'
<1>1. /\ at[w] = "idle" /\ at' = [at EXCEPT ![w] = "publish"]
      /\ job' = [job EXCEPT ![w] = k]
      /\ UNCHANGED <<owner, writing, tables, readerVars, scopeVars, fault,
                     mainVars, toCall>>
      /\ Cardinality(JobsOf(k)) < pending[k]
  BY DEF TakeHandler, Goto, loopVars, JobsOf
<1> USE DEF tables, readerVars, scopeVars, mainVars
<1>2. w \in Threads /\ w # Heartbeat /\ k # NoKey /\ k # Heartbeat
  BY ProgramAssumption, KeysAssumption DEF Threads, Keys
<1>3. job[w] = NoKey
  BY <1>1 DEF ObserverInv, JobsAreWork
<1>4. ProgramTypes'
  <2>1. LoopTypeOK'
    BY <1>1 DEF ObserverInv, ProgramTypes, LoopTypeOK
  <2>2. /\ at' \in [Threads -> {"idle", "publish", "call", "sleep", "ended"}]
        /\ job' \in [Threads -> HandlerKeys \cup {Heartbeat, NoKey}]
    BY <1>1, <1>2 DEF ObserverInv, ProgramTypes
  <2> QED BY <2>1, <2>2, <1>1
          DEF ObserverInv, ProgramTypes, BeforeLoop, AfterLoop
<1>5. JobsAreWork'
  <2>1. ASSUME NEW v \in Workers
        PROVE  /\ job'[v] # Heartbeat
               /\ job'[v] = NoKey <=> at'[v] \notin {"publish", "call"}
               /\ at'[v] # "call" => toCall'[v] = {}
    <3>1. CASE v = w
      BY <3>1, <1>1, <1>2 DEF ObserverInv, ProgramTypes, JobsAreWork
    <3>2. CASE v # w
      BY <3>2, <1>1 DEF ObserverInv, ProgramTypes, JobsAreWork, Threads
    <3> QED BY <3>1, <3>2
  <2>2. ASSUME NEW l \in HandlerKeys
        PROVE  Cardinality(JobsOf(l)') <= pending'[l]
    <3>1. IsFiniteSet(JobsOf(l)) /\ Cardinality(JobsOf(l)) \in Nat
      BY ProgramAssumption, FS_Subset, FS_CardinalityType DEF JobsOf
    <3>2. CASE l = k
      <4>1. JobsOf(l)' = JobsOf(l) \cup {w} /\ w \notin JobsOf(l)
        BY <3>2, <1>1, <1>2, <1>3 DEF JobsOf, ObserverInv, ProgramTypes, Threads
      <4>2. Cardinality(JobsOf(l)') = Cardinality(JobsOf(l)) + 1
        BY <4>1, <3>1, FS_AddElement
      <4>3. pending'[l] = pending[l] /\ pending[l] \in Nat
        BY <1>1 DEF ObserverInv, ProgramTypes, LoopTypeOK
      <4> QED BY <4>2, <4>3, <3>1, <3>2, <1>1
    <3>3. CASE l # k
      <4>1. JobsOf(l)' = JobsOf(l)
        <5>1. \A v \in Workers : job'[v] = l <=> job[v] = l
          BY <3>3, <1>1, <1>2, <1>3, KeysAssumption
          DEF ObserverInv, ProgramTypes, Threads, Keys
        <5> QED BY <5>1 DEF JobsOf
      <4> QED BY <4>1, <1>1 DEF ObserverInv, JobsAreWork
    <3> QED BY <3>2, <3>3
  <2> QED BY <2>1, <2>2 DEF JobsAreWork
<1>6. KeysCounted'
  BY <1>1 DEF ObserverInv, KeysCounted, InHand
<1>7. LoopUsedInTurn'
  BY <1>1 DEF ObserverInv, LoopUsedInTurn, BeforeLoop, AfterLoop, Empty
<1>8. CalledAreAlive'
  BY <1>1 DEF ObserverInv, CalledAreAlive, AfterLoop
<1>9. LateIsHeartbeat'
  BY <1>1 DEF LateIsHeartbeat
<1> QED BY <1>4, <1>5, <1>6, <1>7, <1>8, <1>9 DEF ObserverInv

(* The handler leaves the scope with its job.                              *)
LEMMA EndKeeps ==
  ASSUME ObserverInv, fault = "none", NEW w \in Workers, EndHandler(w)
  PROVE  ObserverInv'
<1> DEFINE k == job[w]
<1>1. /\ at[w] = "call" /\ at' = [at EXCEPT ![w] = "idle"] /\ toCall[w] = {}
      /\ job' = [job EXCEPT ![w] = NoKey]
      /\ pending[k] > 0 /\ pending' = [pending EXCEPT ![k] = @ - 1]
      /\ handled' = [handled EXCEPT ![k] = @ + 1]
      /\ UNCHANGED <<owner, writing, tables, readerVars, fault,
                     mainVars, toCall>>
  BY DEF EndHandler, Goto, RunHandler
<1> USE DEF tables, readerVars, mainVars
<1>2. w \in Threads /\ w # Heartbeat /\ k \in HandlerKeys
  BY <1>1, ProgramAssumption
  DEF Threads, ObserverInv, JobsAreWork, ProgramTypes
<1>3. /\ pending \in [HandlerKeys -> 0 .. MaxKeys]
      /\ handled \in [HandlerKeys -> 0 .. MaxKeys]
      /\ typed \in 0 .. MaxKeys /\ MaxKeys \in Nat
  BY KeysAssumption DEF ObserverInv, ProgramTypes, LoopTypeOK
<1> HIDE DEF k
<1>4. \A l \in HandlerKeys :
        /\ pending'[l] + handled'[l] = pending[l] + handled[l]
        /\ pending'[l] = IF l = k THEN pending[l] - 1 ELSE pending[l]
        /\ pending'[l] \in Nat /\ handled'[l] \in Nat
  BY <1>1, <1>2, <1>3
<1>5. KeysCounted'
  <2>1. InHand' = InHand /\ InHand \in {0, 1} /\ typed' = typed
    BY <1>1 DEF InHand
  <2>2. \A l \in HandlerKeys :
          /\ pending[l] + handled[l] + InHand <= typed
          /\ pending[l] \in Nat /\ handled[l] \in Nat
    BY <1>3 DEF ObserverInv, KeysCounted
  <2> QED BY <2>1, <2>2, <1>4 DEF KeysCounted
<1>6. ProgramTypes'
  <2>1. \A l \in HandlerKeys : /\ pending'[l] \in 0 .. MaxKeys
                               /\ handled'[l] \in 0 .. MaxKeys
    <3>1. typed' = typed /\ InHand' \in {0, 1}
      BY <1>1 DEF InHand
    <3> QED BY <3>1, <1>3, <1>4, <1>5 DEF KeysCounted
  <2>2. LoopTypeOK'
    BY <2>1, <1>1, <1>3 DEF ObserverInv, ProgramTypes, LoopTypeOK
  <2>3. /\ at' \in [Threads -> {"idle", "publish", "call", "sleep", "ended"}]
        /\ job' \in [Threads -> HandlerKeys \cup {Heartbeat, NoKey}]
    BY <1>1, <1>2 DEF ObserverInv, ProgramTypes
  <2> QED BY <2>2, <2>3, <1>1
          DEF ObserverInv, ProgramTypes, BeforeLoop, AfterLoop
<1>7. JobsAreWork'
  <2>1. ASSUME NEW v \in Workers
        PROVE  /\ job'[v] # Heartbeat
               /\ job'[v] = NoKey <=> at'[v] \notin {"publish", "call"}
               /\ at'[v] # "call" => toCall'[v] = {}
    <3>1. CASE v = w
      <4>1. NoKey # Heartbeat
        BY ProgramAssumption
      <4> QED BY <3>1, <4>1, <1>1, <1>2 DEF ObserverInv, ProgramTypes, JobsAreWork
    <3>2. CASE v # w
      BY <3>2, <1>1 DEF ObserverInv, ProgramTypes, JobsAreWork, Threads
    <3> QED BY <3>1, <3>2
  <2>2. ASSUME NEW l \in HandlerKeys
        PROVE  Cardinality(JobsOf(l)') <= pending'[l]
    <3>1. IsFiniteSet(JobsOf(l)) /\ Cardinality(JobsOf(l)) \in Nat
      BY ProgramAssumption, FS_Subset, FS_CardinalityType DEF JobsOf
    <3>2. Cardinality(JobsOf(l)) <= pending[l] /\ pending[l] \in Nat
      BY <1>3 DEF ObserverInv, JobsAreWork
    <3>3. l # NoKey
      BY KeysAssumption DEF Keys
    <3>4. CASE l = k
      <4>1. JobsOf(l)' = JobsOf(l) \ {w} /\ w \in JobsOf(l)
        BY <3>3, <3>4, <1>1, <1>2 DEF JobsOf, ObserverInv, ProgramTypes, Threads, k
      <4>2. Cardinality(JobsOf(l)') = Cardinality(JobsOf(l)) - 1
        BY <4>1, <3>1, FS_RemoveElement
      <4> QED BY <4>2, <3>1, <3>2, <3>4, <1>4
    <3>5. CASE l # k
      <4>1. JobsOf(l)' = JobsOf(l)
        <5>1. \A v \in Workers : job'[v] = l <=> job[v] = l
          BY <3>3, <3>5, <1>1, <1>2 DEF ObserverInv, ProgramTypes, Threads, k
        <5> QED BY <5>1 DEF JobsOf
      <4> QED BY <4>1, <3>2, <3>5, <1>4
    <3> QED BY <3>4, <3>5
  <2> QED BY <2>1, <2>2 DEF JobsAreWork
<1>8. LoopUsedInTurn'
  <2>1. ~Empty
    BY <1>1, <1>2, <1>3 DEF Empty
  <2> QED BY <2>1, <1>1 DEF ObserverInv, LoopUsedInTurn, BeforeLoop, AfterLoop
<1>9. CalledAreAlive'
  BY <1>1 DEF ObserverInv, CalledAreAlive, AfterLoop
<1>10. LateIsHeartbeat'
  BY <1>1 DEF LateIsHeartbeat
<1> QED BY <1>5, <1>6, <1>7, <1>8, <1>9, <1>10 DEF ObserverInv

(* ObserverInv is inductive.                                               *)
LEMMA ObserverNext ==
  ASSUME ObserverInv, [ProgramNext]_programVars
  PROVE  ObserverInv'
<1>1. CASE UNCHANGED programVars
  <2>1. ProgramTypes'
    BY <1>1 DEF ObserverInv, ProgramTypes, LoopTypeOK, BeforeLoop, AfterLoop,
                programVars, loopVars, tables, readerVars, scopeVars, mainVars,
                publishVars
  <2>2. JobsAreWork' /\ KeysCounted' /\ CalledAreAlive'
    BY <1>1 DEF ObserverInv, JobsAreWork, JobsOf, KeysCounted, InHand,
                CalledAreAlive, AfterLoop, programVars, loopVars, readerVars,
                scopeVars, mainVars, publishVars
  <2>3. LoopUsedInTurn' /\ LateIsHeartbeat'
    BY <1>1 DEF ObserverInv, LoopUsedInTurn, LateIsHeartbeat, Alive, Empty,
                BeforeLoop, AfterLoop, programVars, loopVars, readerVars,
                scopeVars, mainVars, publishVars
  <2> QED BY <2>1, <2>2, <2>3 DEF ObserverInv
<1>2. CASE ProgramNext
  <2>1. fault = "none"
    BY <1>2 DEF ProgramNext
  <2>2. CASE MainStep /\ ~UseLoop
    <3>1. UNCHANGED <<loopVars, publishVars>>
      BY <2>2 DEF MainStep, RegisterMessageBus, Construct, StartLoop,
                  LeaveLoop, ReceiverUnsubscribe, Destroyed, ReleaseBus,
                  StopPulseThread, JoinPulseThread
    <3> QED BY <3>1, <2>1, <2>2, MainKeeps DEF MainStep
  <2>3. CASE UseLoop
    BY <2>1, <2>3, OwnerKeeps
  <2>4. CASE KeyStep \/ \E k \in Keys : Type(k)
    BY <2>1, <2>4, KeysKeep
  <2>5. CASE PulseStep
    <3>1. Heartbeat \in Threads
      BY DEF Threads
    <3> QED BY <3>1, <2>1, <2>5, PulseKeeps, CopyKeeps, ReceiveKeeps
            DEF PulseStep
  <2>6. ASSUME NEW w \in Workers, WorkerStep(w)
        PROVE  ObserverInv'
    <3>1. w \in Threads
      BY DEF Threads
    <3> QED BY <3>1, <2>1, <2>6, TakeKeeps, CopyKeeps, EndKeeps, ReceiveKeeps
            DEF WorkerStep
  <2> QED BY <1>2, <2>2, <2>3, <2>4, <2>5, <2>6 DEF ProgramNext, MainStep
<1> QED BY <1>1, <1>2

(* In every state jobs, keys, the use of the loop and the calls agree.     *)
THEOREM ObserverInductive == ProgramSpec => []ObserverInv
  BY ObserverInit, ObserverNext, PTL DEF ProgramSpec

(* No handler of the event loop finds a receiver destroyed.                *)
THEOREM HandlersCallLiving == ProgramSpec => []CalledWhileAlive
<1>1. ASSUME ObserverInv PROVE CalledWhileAlive
  <2>1. \A w \in Workers : \A r \in toCall[w] : Alive(r)
    <3> SUFFICES ASSUME NEW w \in Workers, NEW r \in toCall[w], ~Alive(r)
                 PROVE  FALSE
      OBVIOUS
    <3>1. w \in Threads /\ w # Heartbeat
      BY ProgramAssumption DEF Threads
    <3> QED BY <3>1, <1>1, WorkersCallLiving
  <2>2. /\ main \in {"start", "assigning", "build", "loop", "unwind",
                      "released", "join", "returned"}
        /\ subscribed \subseteq Receivers
    BY <1>1 DEF ObserverInv, ProgramTypes, BeforeLoop, AfterLoop
  <2> QED BY <2>1, <2>2, <1>1
          DEF ObserverInv, ProgramTypes, LateIsHeartbeat, CalledWhileAlive
<1> QED BY ObserverInductive, <1>1, PTL

-----------------------------------------------------------------------------
(* ObserverProgram: who has been shown what.                               *)

Heard(r) == Hears[r] \cap HandlerKeys

(* The workers that have delivered a message of k to r and run on.         *)
Got(r, k) ==
  {w \in Workers : job[w] = k /\ at[w] = "call" /\ r \notin toCall[w]}
Delivered(r) == [k \in Heard(r) |-> handled[k] + Cardinality(Got(r, k))]

(* While handlers can run every registered receiver is subscribed.         *)
AllSubscribed ==
  /\ main = "loop" => built = Len(receivers)
  /\ ~AfterLoop => \A i \in 1 .. built : receivers[i] \in subscribed
  /\ \A w \in Workers : \A r \in toCall[w] : job[w] \in Hears[r]

Registered == {receivers[i] : i \in 1 .. Len(receivers)}
ShownAreDelivered ==
  /\ shown \in [Receivers -> Nat]
  /\ \A r \in Receivers :
       r \in Registered => shown[r] = Total(Delivered(r), Heard(r))

Deliveries == AllSubscribed /\ ShownAreDelivered

-----------------------------------------------------------------------------
(* A receiver's handler topics are finitely many.                          *)
LEMMA HeardFinite ==
  \A r \in Receivers : IsFiniteSet(Heard(r)) /\ Heard(r) \subseteq HandlerKeys
  BY KeysAssumption, FS_Subset DEF Heard

(* The workers are finitely many.                                          *)
LEMMA GotFinite ==
  \A r, k : IsFiniteSet(Got(r, k)) /\ Cardinality(Got(r, k)) \in Nat
  BY ProgramAssumption, FS_Subset, FS_CardinalityType DEF Got

(* At first nothing is shown and nothing delivered.                        *)
LEMMA DeliveriesInit == ProgramInit => Deliveries
<1> SUFFICES ASSUME ProgramInit PROVE Deliveries
  OBVIOUS
<1> USE DEF ProgramInit
<1>1. AllSubscribed
  BY ProgramAssumption DEF AllSubscribed, Threads
<1>2. ASSUME NEW r \in Receivers
      PROVE  Total(Delivered(r), Heard(r)) = 0
  <2>2. \A k \in Heard(r) : Got(r, k) = {}
    BY DEF Got, Threads
  <2>3. \A k \in Heard(r) : handled[k] = 0
    BY DEF LoopInit, Heard
  <2>4. ASSUME NEW k \in Heard(r) PROVE Delivered(r)[k] = 0
    <3>1. Cardinality(Got(r, k)) = 0
      BY <2>2, FS_EmptySet
    <3> QED BY <2>3, <3>1 DEF Delivered
  <2> QED BY <2>4, HeardFinite, TotalZero
<1>3. ShownAreDelivered
  BY <1>2 DEF ShownAreDelivered
<1> QED BY <1>1, <1>3 DEF Deliveries

(* What leaves the number of deliveries of each key alone leaves their     *)
(* total alone.                                                            *)
LEMMA DeliveredSame ==
  ASSUME ShownAreDelivered, UNCHANGED <<receivers, shown>>,
         \A r \in Receivers : \A k \in HandlerKeys :
           r \in Registered /\ k \in Hears[r] =>
             handled'[k] + Cardinality(Got(r, k)')
               = handled[k] + Cardinality(Got(r, k))
  PROVE  ShownAreDelivered'
<1>1. ASSUME NEW r \in Receivers, r \in Registered
      PROVE  Delivered(r)' = Delivered(r)
  <2>1. [k \in Heard(r) |-> handled'[k] + Cardinality(Got(r, k)')]
         = [k \in Heard(r) |-> handled[k] + Cardinality(Got(r, k))]
    BY <1>1 DEF Heard
  <2> QED BY <2>1 DEF Delivered, Heard
<1>2. Registered' = Registered
  BY DEF Registered
<1>3. ASSUME NEW r \in Receivers, r \in Registered
      PROVE  shown'[r] = Total(Delivered(r), Heard(r))'
  <2>1. shown[r] = Total(Delivered(r), Heard(r))
    BY <1>3 DEF ShownAreDelivered
  <2>2. Total(Delivered(r), Heard(r))' = Total(Delivered(r), Heard(r))
    BY <1>1, <1>3 DEF Total, IsSum, Heard
  <2> QED BY <2>1, <2>2
<1>4. shown' \in [Receivers -> Nat]
  BY DEF ShownAreDelivered
<1> QED BY <1>2, <1>3, <1>4 DEF ShownAreDelivered

(* The steps that deliver nothing of a worker's.                           *)
LEMMA QuietDeliveries ==
  ASSUME AllSubscribed, ShownAreDelivered,
         UNCHANGED <<receivers, job, shown, handled>>,
         \A w \in Workers : at'[w] = at[w] /\ toCall'[w] = toCall[w],
         main' = "loop" => built' = Len(receivers),
         ~AfterLoop' => \A i \in 1 .. built' : receivers[i] \in subscribed'
  PROVE  Deliveries'
<1>1. \A r \in Receivers : \A k \in HandlerKeys : Got(r, k)' = Got(r, k)
  BY DEF Got
<1>2. ShownAreDelivered'
  BY <1>1, DeliveredSame
<1>3. AllSubscribed'
  BY DEF AllSubscribed
<1> QED BY <1>2, <1>3 DEF Deliveries

(* A handler runs while main is in the loop.                               *)
LEMMA HandlersInLoop ==
  ASSUME ObserverInv, NEW w \in Workers, job[w] # NoKey
  PROVE  main = "loop" /\ job[w] \in HandlerKeys
<1> DEFINE k == job[w]
<1>1. k \in HandlerKeys
  BY DEF ObserverInv, JobsAreWork, ProgramTypes, Threads
<1>2. ~Empty
  <2>1. w \in JobsOf(k)
    BY DEF JobsOf
  <2>2. IsFiniteSet(JobsOf(k))
    BY ProgramAssumption, FS_Subset DEF JobsOf
  <2>3. Cardinality(JobsOf(k)) \in Nat /\ Cardinality(JobsOf(k)) # 0
    BY <2>1, <2>2, FS_CardinalityType, FS_EmptySet
  <2>4. Cardinality(JobsOf(k)) <= pending[k]
    BY <1>1 DEF ObserverInv, JobsAreWork
  <2> HIDE DEF k
  <2> QED BY <1>1, <2>3, <2>4 DEF Empty
<1>3. ~BeforeLoop /\ ~AfterLoop
  BY <1>2 DEF ObserverInv, LoopUsedInTurn
<1> QED BY <1>1, <1>3 DEF ObserverInv, ProgramTypes

(* main's own steps: none is taken with a handler running but in the loop. *)
LEMMA MainDelivers ==
  ASSUME ObserverInv, Deliveries, UNCHANGED <<loopVars, publishVars>>,
         \/ RegisterMessageBus \/ Construct \/ StartLoop \/ LeaveLoop
         \/ ReceiverUnsubscribe \/ Destroyed \/ ReleaseBus
         \/ StopPulseThread \/ JoinPulseThread
  PROVE  Deliveries'
<1> USE DEF loopVars, tables, readerVars, scopeVars, publishVars
<1>1. AllSubscribed /\ ShownAreDelivered
  BY DEF Deliveries
<1>2. UNCHANGED <<receivers, job, shown, handled, at, toCall>>
  BY DEF RegisterMessageBus, Construct, StartLoop, LeaveLoop,
         ReceiverUnsubscribe, Destroyed, ReleaseBus, StopPulseThread,
         JoinPulseThread
<1>3. /\ main' = "loop" => built' = Len(receivers)
      /\ ~AfterLoop' => \A i \in 1 .. built' : receivers[i] \in subscribed'
  <2>1. CASE RegisterMessageBus \/ StartLoop \/ LeaveLoop \/ ReleaseBus
             \/ StopPulseThread \/ JoinPulseThread
    <3>1. UNCHANGED <<built, subscribed>>
      BY <2>1 DEF RegisterMessageBus, StartLoop, LeaveLoop, ReleaseBus,
                  StopPulseThread, JoinPulseThread
    <3>2. /\ main' = "loop" => built = Len(receivers)
          /\ ~AfterLoop' => ~AfterLoop
      BY <2>1 DEF RegisterMessageBus, StartLoop, LeaveLoop, ReleaseBus,
                  StopPulseThread, JoinPulseThread, MainGoto, AfterLoop
    <3> QED BY <3>1, <3>2, <1>1 DEF AllSubscribed
  <2>2. CASE Construct
    <3>1. /\ main' = "build" /\ ~AfterLoop /\ built' = built + 1
          /\ subscribed' = subscribed \cup {receivers[built + 1]}
      BY <2>2 DEF Construct, AfterLoop
    <3>2. \A i \in 1 .. built : receivers[i] \in subscribed
      BY <3>1, <1>1 DEF AllSubscribed
    <3>3. built \in Nat
      BY DEF ObserverInv, ProgramTypes
    <3>4. \A i \in 1 .. built + 1 : i \in 1 .. built \/ i = built + 1
      BY <3>3
    <3> QED BY <3>1, <3>2, <3>4
  <2>3. CASE ReceiverUnsubscribe \/ Destroyed
    BY <2>3 DEF ReceiverUnsubscribe, Destroyed, AfterLoop
  <2> QED BY <2>1, <2>2, <2>3
<1> QED BY <1>1, <1>2, <1>3, QuietDeliveries

(* The loop's owner, the key thread and the pulse thread.                  *)
LEMMA OthersDeliver ==
  ASSUME ObserverInv, Deliveries,
         UseLoop \/ KeyStep \/ (\E k \in Keys : Type(k)) \/ PulseStep
  PROVE  Deliveries'
<1> USE DEF loopVars, tables, readerVars, scopeVars, mainVars, publishVars
<1>1. AllSubscribed /\ ShownAreDelivered
  BY DEF Deliveries
<1>2. UNCHANGED mainVars
      /\ UNCHANGED <<job, shown, handled>>
      /\ \A w \in Workers : at'[w] = at[w] /\ toCall'[w] = toCall[w]
  <2>1. CASE UseLoop
    BY <2>1 DEF UseLoop, OwnerStep, BeginInsert, AddEventHandler,
                RegisterStopKey, WaitThreadFinished, WaitOnEmpty, Cleanup,
                Destroy
  <2>2. CASE KeyStep \/ \E k \in Keys : Type(k)
    BY <2>2 DEF KeyStep, Type, GetChar, ReaderStep, CheckStopEvents,
                PostEvent, Stop
  <2>3. CASE PulseStep
    <3>1. /\ at \in [Threads -> {"idle", "publish", "call", "sleep", "ended"}]
          /\ toCall \in [Threads -> SUBSET Receivers]
          /\ Heartbeat \notin Workers /\ Workers \subseteq Threads
          /\ shown \in [Receivers -> Nat]
      BY ProgramAssumption, <1>1
      DEF ObserverInv, ProgramTypes, Threads, ShownAreDelivered
    <3>2. CASE Pulse \/ Wake \/ EndPulse
      BY <3>1, <3>2 DEF Pulse, Wake, EndPulse, Goto
    <3>3. CASE CopyCallbacks(Heartbeat)
      BY <3>1, <3>3 DEF CopyCallbacks, Goto
    <3>4. ASSUME NEW r \in Receivers, Receive(Heartbeat, r)
          PROVE  /\ UNCHANGED mainVars
                 /\ UNCHANGED <<job, shown, handled>>
                 /\ \A w \in Workers : at'[w] = at[w] /\ toCall'[w] = toCall[w]
      BY <3>1, <3>4 DEF Receive
    <3> QED BY <2>3, <3>2, <3>3, <3>4 DEF PulseStep
  <2> QED BY <2>1, <2>2, <2>3
<1>3. AfterLoop' = AfterLoop
  BY <1>2 DEF AfterLoop
<1> QED BY <1>1, <1>2, <1>3, QuietDeliveries DEF AllSubscribed

(* A worker that begins has called nobody.                                 *)
LEMMA TakeDelivers ==
  ASSUME ObserverInv, Deliveries,
         NEW w \in Workers, NEW k \in HandlerKeys, TakeHandler(w, k)
  PROVE  Deliveries'
<1> USE DEF loopVars, tables, readerVars, scopeVars, mainVars
<1>1. /\ at[w] = "idle" /\ at' = [at EXCEPT ![w] = "publish"]
      /\ job' = [job EXCEPT ![w] = k] /\ toCall[w] = {}
      /\ UNCHANGED <<handled, mainVars, toCall, shown>>
  BY DEF TakeHandler, Goto, ObserverInv, JobsAreWork
<1>2. /\ at \in [Threads -> {"idle", "publish", "call", "sleep", "ended"}]
      /\ job \in [Threads -> HandlerKeys \cup {Heartbeat, NoKey}]
      /\ Workers \subseteq Threads
  BY DEF ObserverInv, ProgramTypes, Threads
<1>3. ASSUME NEW r \in Receivers, NEW l \in HandlerKeys
      PROVE  Got(r, l)' = Got(r, l)
  BY <1>1, <1>2 DEF Got
<1>4. ShownAreDelivered'
  BY <1>1, <1>3, DeliveredSame DEF Deliveries
<1>5. AllSubscribed'
  <2>1. \A v \in Workers : \A r \in toCall'[v] : job'[v] \in Hears[r]
    BY <1>1, <1>2 DEF Deliveries, AllSubscribed
  <2> QED BY <2>1, <1>1 DEF Deliveries, AllSubscribed, AfterLoop
<1> QED BY <1>4, <1>5 DEF Deliveries

(* Every registered receiver of the topic is among those it calls.         *)
LEMMA CopyDelivers ==
  ASSUME ObserverInv, Deliveries, NEW w \in Workers, CopyCallbacks(w)
  PROVE  Deliveries'
<1> USE DEF loopVars, tables, readerVars, scopeVars, mainVars
<1>1. /\ at[w] = "publish" /\ at' = [at EXCEPT ![w] = "call"]
      /\ toCall' = [toCall EXCEPT ![w] = {r \in subscribed : job[w] \in Hears[r]}]
      /\ UNCHANGED <<handled, mainVars, job, shown>>
  BY DEF CopyCallbacks, Goto
<1>2. /\ at \in [Threads -> {"idle", "publish", "call", "sleep", "ended"}]
      /\ toCall \in [Threads -> SUBSET Receivers]
      /\ Workers \subseteq Threads
  BY DEF ObserverInv, ProgramTypes, Threads
<1>3. main = "loop" /\ job[w] \in HandlerKeys
  <2>1. job[w] # NoKey
    BY <1>1 DEF ObserverInv, JobsAreWork
  <2> QED BY <2>1, HandlersInLoop
<1>4. Registered \subseteq subscribed
  BY <1>3 DEF Deliveries, AllSubscribed, AfterLoop, Registered
<1>5. ASSUME NEW r \in Receivers, NEW l \in HandlerKeys,
             r \in Registered, l \in Hears[r]
      PROVE  Got(r, l)' = Got(r, l)
  <2>1. job[w] = l => r \in toCall'[w]
    BY <1>1, <1>2, <1>4, <1>5
  <2>2. \A v \in Workers : v # w => at'[v] = at[v] /\ toCall'[v] = toCall[v]
    BY <1>1, <1>2
  <2> QED BY <2>1, <2>2, <1>1 DEF Got
<1>6. ShownAreDelivered'
  BY <1>1, <1>5, DeliveredSame DEF Deliveries
<1>7. AllSubscribed'
  <2>1. \A v \in Workers : \A r \in toCall'[v] : job'[v] \in Hears[r]
    BY <1>1, <1>2 DEF Deliveries, AllSubscribed
  <2> QED BY <2>1, <1>1 DEF Deliveries, AllSubscribed, AfterLoop
<1> QED BY <1>6, <1>7 DEF Deliveries

(* One more is shown, and one more delivered.                              *)
LEMMA ReceiveDelivers ==
  ASSUME ObserverInv, Deliveries,
         NEW w \in Workers, NEW r \in Receivers, Receive(w, r)
  PROVE  Deliveries'
<1> USE DEF mainVars, scopeVars
<1>1. w \in Threads /\ w # Heartbeat
  BY ProgramAssumption DEF Threads
<1>2. Alive(r)
  BY <1>1, WorkersCallLiving DEF Receive
<1>3. /\ at[w] = "call" /\ r \in toCall[w]
      /\ toCall' = [toCall EXCEPT ![w] = @ \ {r}]
      /\ shown' = [shown EXCEPT ![r] = @ + 1]
      /\ UNCHANGED <<handled, mainVars, at, job>>
  BY <1>1, <1>2 DEF Receive
<1>4. /\ toCall \in [Threads -> SUBSET Receivers]
      /\ shown \in [Receivers -> Nat]
      /\ handled \in [HandlerKeys -> 0 .. MaxKeys] /\ MaxKeys \in Nat
      /\ Workers \subseteq Threads
  BY KeysAssumption
  DEF ObserverInv, ProgramTypes, LoopTypeOK, Threads, Deliveries,
      ShownAreDelivered
<1>5. PICK k \in Heard(r) : k = job[w]
  <2>1. job[w] # NoKey
    BY <1>3 DEF ObserverInv, JobsAreWork
  <2>2. job[w] \in HandlerKeys
    BY <2>1, HandlersInLoop
  <2> QED BY <2>2, <1>3 DEF Heard, Deliveries, AllSubscribed
<1>6. /\ w \notin Got(r, k) /\ Got(r, k)' = Got(r, k) \cup {w}
      /\ \A l : l # k => Got(r, l)' = Got(r, l)
  BY <1>3, <1>4, <1>5 DEF Got
<1>7. ASSUME NEW s \in Receivers, s # r
      PROVE  \A l : Got(s, l)' = Got(s, l)
  BY <1>3, <1>4, <1>7 DEF Got
<1>8. Cardinality(Got(r, k)') = Cardinality(Got(r, k)) + 1
  BY <1>6, GotFinite, FS_AddElement
<1>9. Total(Delivered(r), Heard(r))' = Total(Delivered(r), Heard(r)) + 1
  <2>1. \A l \in Heard(r) :
          /\ Delivered(r)[l] = handled[l] + Cardinality(Got(r, l))
          /\ Delivered(r)'[l] = handled[l] + Cardinality(Got(r, l)')
    BY <1>3 DEF Delivered, Heard
  <2>2. \A l \in Heard(r) :
          handled[l] \in Nat /\ Cardinality(Got(r, l)) \in Nat
    BY <1>4, GotFinite, HeardFinite
  <2>3. \A l \in Heard(r) : Delivered(r)[l] \in Nat
    BY <2>1, <2>2
  <2>4. ASSUME NEW l \in Heard(r)
        PROVE  Delivered(r)'[l]
                 = IF l = k THEN Delivered(r)[l] + 1 ELSE Delivered(r)[l]
    <3>1. CASE l = k
      <4>1. Delivered(r)[l] = handled[l] + Cardinality(Got(r, l))
        BY <2>1
      <4>2. Delivered(r)'[l] = handled[l] + Cardinality(Got(r, l)')
        BY <2>1
      <4>3. Cardinality(Got(r, l)') = Cardinality(Got(r, l)) + 1
        BY <3>1, <1>8
      <4>4. handled[l] \in Nat /\ Cardinality(Got(r, l)) \in Nat
        BY <2>2
      <4>5. Delivered(r)'[l] = Delivered(r)[l] + 1
        BY <4>1, <4>2, <4>3, <4>4
      <4> QED BY <4>5, <3>1
    <3>2. CASE l # k
      <4>1. Cardinality(Got(r, l)') = Cardinality(Got(r, l))
        BY <3>2, <1>6
      <4> QED BY <4>1, <3>2, <2>1
    <3> QED BY <3>1, <3>2
  <2>5. Total(Delivered(r)', Heard(r)) = Total(Delivered(r), Heard(r)) + 1
    BY <2>3, <2>4, <1>5, HeardFinite, TotalStep
  <2> QED BY <2>5 DEF Total, IsSum, Heard
<1>10. ASSUME NEW s \in Receivers, s # r
       PROVE  Total(Delivered(s), Heard(s))' = Total(Delivered(s), Heard(s))
  <2>1. Delivered(s)' = Delivered(s)
    BY <1>3, <1>7, <1>10 DEF Delivered, Heard
  <2> QED BY <2>1 DEF Total, IsSum, Heard
<1>11. /\ shown' \in [Receivers -> Nat] /\ shown'[r] = shown[r] + 1
       /\ \A s \in Receivers : s # r => shown'[s] = shown[s]
  BY <1>3, <1>4
<1>12. Registered' = Registered
  BY <1>3 DEF Registered
<1>13. ShownAreDelivered'
  BY <1>9, <1>10, <1>11, <1>12 DEF Deliveries, ShownAreDelivered
<1>14. AllSubscribed'
  <2>1. \A v \in Workers : \A s \in toCall'[v] : job'[v] \in Hears[s]
    BY <1>3, <1>4 DEF Deliveries, AllSubscribed
  <2> QED BY <2>1, <1>3 DEF Deliveries, AllSubscribed, AfterLoop
<1> QED BY <1>13, <1>14 DEF Deliveries

(* A handler that has called everybody is handled.                         *)
LEMMA EndDelivers ==
  ASSUME ObserverInv, Deliveries, NEW w \in Workers, EndHandler(w)
  PROVE  Deliveries'
<1> USE DEF mainVars
<1> DEFINE k == job[w]
<1>1. /\ at[w] = "call" /\ at' = [at EXCEPT ![w] = "idle"] /\ toCall[w] = {}
      /\ job' = [job EXCEPT ![w] = NoKey]
      /\ handled' = [handled EXCEPT ![k] = @ + 1]
      /\ UNCHANGED <<mainVars, toCall, shown>>
  BY DEF EndHandler, Goto, RunHandler
<1>2. /\ at \in [Threads -> {"idle", "publish", "call", "sleep", "ended"}]
      /\ job \in [Threads -> HandlerKeys \cup {Heartbeat, NoKey}]
      /\ handled \in [HandlerKeys -> 0 .. MaxKeys] /\ MaxKeys \in Nat
      /\ Workers \subseteq Threads
  BY KeysAssumption DEF ObserverInv, ProgramTypes, LoopTypeOK, Threads
<1>3. k \in HandlerKeys
  BY <1>1, HandlersInLoop DEF ObserverInv, JobsAreWork
<1>4. ASSUME NEW r \in Receivers, NEW l \in HandlerKeys
      PROVE  handled'[l] + Cardinality(Got(r, l)')
               = handled[l] + Cardinality(Got(r, l))
  <2>1. /\ handled[l] \in Nat
        /\ handled'[l] = IF l = k THEN handled[l] + 1 ELSE handled[l]
    BY <1>1, <1>2
  <2>2. CASE l = k
    <3>1. w \in Got(r, l) /\ Got(r, l)' = Got(r, l) \ {w}
      BY <2>2, <1>1, <1>2 DEF Got
    <3>2. Cardinality(Got(r, l)') = Cardinality(Got(r, l)) - 1
      BY <3>1, GotFinite, FS_RemoveElement
    <3>3. Cardinality(Got(r, l)) \in Nat
      BY GotFinite
    <3> QED BY <3>2, <3>3, <2>1, <2>2
  <2>3. CASE l # k
    <3>1. Got(r, l)' = Got(r, l)
      BY <2>3, <1>1, <1>2 DEF Got
    <3> QED BY <3>1, <2>1, <2>3
  <2> QED BY <2>2, <2>3
<1>5. ShownAreDelivered'
  BY <1>1, <1>4, DeliveredSame DEF Deliveries
<1>6. AllSubscribed'
  <2>1. \A v \in Workers : \A r \in toCall'[v] : job'[v] \in Hears[r]
    BY <1>1, <1>2 DEF Deliveries, AllSubscribed
  <2> QED BY <2>1, <1>1 DEF Deliveries, AllSubscribed, AfterLoop
<1> QED BY <1>5, <1>6 DEF Deliveries

(* Deliveries are kept by every step.                                      *)
LEMMA DeliveriesNext ==
  ASSUME ObserverInv, Deliveries, [ProgramNext]_programVars
  PROVE  Deliveries'
<1>1. CASE UNCHANGED programVars
  <2>1. AllSubscribed /\ ShownAreDelivered
    BY DEF Deliveries
  <2> QED BY <1>1, <2>1, QuietDeliveries
          DEF AllSubscribed, AfterLoop, programVars, loopVars, scopeVars,
              mainVars, publishVars
<1>2. CASE ProgramNext
  <2>1. CASE MainStep /\ ~UseLoop
    <3>1. UNCHANGED <<loopVars, publishVars>>
      BY <2>1 DEF MainStep, RegisterMessageBus, Construct, StartLoop,
                  LeaveLoop, ReceiverUnsubscribe, Destroyed, ReleaseBus,
                  StopPulseThread, JoinPulseThread
    <3> QED BY <3>1, <2>1, MainDelivers DEF MainStep
  <2>2. CASE UseLoop \/ KeyStep \/ (\E k \in Keys : Type(k)) \/ PulseStep
    BY <2>2, OthersDeliver
  <2>3. ASSUME NEW w \in Workers, WorkerStep(w)
        PROVE  Deliveries'
    BY <2>3, TakeDelivers, CopyDelivers, ReceiveDelivers, EndDelivers
    DEF WorkerStep
  <2> QED BY <1>2, <2>1, <2>2, <2>3 DEF ProgramNext, MainStep
<1> QED BY <1>1, <1>2

(* When the program unwinds nothing is left in the scope, so all that was  *)
(* spawned was delivered.                                                  *)
LEMMA DeliveredAll ==
  ASSUME ObserverInv, Deliveries, AfterLoop
  PROVE  EveryKeyShown
<1>1. Empty
  BY DEF ObserverInv, LoopUsedInTurn
<1>2. ASSUME NEW r \in Receivers, NEW k \in HandlerKeys
      PROVE  Cardinality(Got(r, k)) = 0
  <2>1. \A w \in Workers : job[w] = NoKey
    BY HandlersInLoop DEF AfterLoop
  <2>2. Got(r, k) = {}
    BY <2>1, KeysAssumption DEF Got, Keys
  <2> QED BY <2>2, FS_EmptySet
<1>3. ASSUME NEW r \in Receivers, r \in Registered,
             NEW spawned,
             spawned = [K \in SUBSET Heard(r) |->
                          IF K = {} THEN 0
                          ELSE handled[Picked(K)] + pending[Picked(K)]
                                 + spawned[K \ {Picked(K)}]]
      PROVE  shown[r] = spawned[Heard(r)]
  <2>1. ASSUME NEW K \in SUBSET Heard(r), K # {}
        PROVE  handled[Picked(K)] + pending[Picked(K)] = Delivered(r)[Picked(K)]
    <3>1. Picked(K) \in Heard(r) /\ Picked(K) \in HandlerKeys
      BY <2>1, PickedFields, HeardFinite
    <3>2. pending[Picked(K)] = 0 /\ handled[Picked(K)] \in Nat
      BY <3>1, <1>1, KeysAssumption
      DEF Empty, ObserverInv, ProgramTypes, LoopTypeOK
    <3>3. Cardinality(Got(r, Picked(K))) = 0
      BY <3>1, <1>2
    <3> QED BY <3>1, <3>2, <3>3 DEF Delivered
  <2> DEFINE again ==
        [K \in SUBSET Heard(r) |->
           IF K = {} THEN 0
           ELSE Delivered(r)[Picked(K)] + spawned[K \ {Picked(K)}]]
  <2>2. [K \in SUBSET Heard(r) |->
           IF K = {} THEN 0
           ELSE handled[Picked(K)] + pending[Picked(K)]
                  + spawned[K \ {Picked(K)}]] = again
    BY <2>1
  <2>3. IsSum(spawned, Delivered(r), Heard(r))
    BY <2>2, <1>3, Zenon DEF IsSum
  <2>4. spawned[Heard(r)] = Total(Delivered(r), Heard(r))
    BY <2>3, HeardFinite, TotalIs
  <2> QED BY <2>4, <1>3 DEF Deliveries, ShownAreDelivered
<1>4. ASSUME NEW r \in Receivers
      PROVE  \E spawned :
               spawned = [K \in SUBSET Heard(r) |->
                          IF K = {} THEN 0
                          ELSE handled[Picked(K)] + pending[Picked(K)]
                                 + spawned[K \ {Picked(K)}]]
  <2> DEFINE v == [k \in HandlerKeys |-> handled[k] + pending[k]]
  <2>1. PICK spawned : IsSum(spawned, v, Heard(r))
    BY HeardFinite, SumExists
  <2>2. \A K \in SUBSET Heard(r) :
          K # {} => v[Picked(K)] = handled[Picked(K)] + pending[Picked(K)]
    BY PickedFields, HeardFinite
  <2>3. [K \in SUBSET Heard(r) |->
           IF K = {} THEN 0 ELSE v[Picked(K)] + spawned[K \ {Picked(K)}]]
         = [K \in SUBSET Heard(r) |->
              IF K = {} THEN 0
              ELSE handled[Picked(K)] + pending[Picked(K)]
                     + spawned[K \ {Picked(K)}]]
    <3> HIDE DEF v
    <3> QED BY <2>2
  <2> HIDE DEF v
  <2> QED BY <2>1, <2>3, Zenon DEF IsSum
<1> DEFINE Spawns(r, f) ==
      f = [K \in SUBSET (Hears[r] \cap HandlerKeys) |->
             IF K = {} THEN 0
             ELSE LET k == CHOOSE x \in K : TRUE
                  IN  handled[k] + pending[k] + f[K \ {k}]]
<1>5. ASSUME NEW r \in Receivers, r \in Registered
      PROVE  shown[r] = (CHOOSE f : Spawns(r, f))[Hears[r] \cap HandlerKeys]
  <2> DEFINE f == CHOOSE g : Spawns(r, g)
  <2>1. Spawns(r, f)
    BY <1>4 DEF Heard, Picked
  <2> HIDE DEF f
  <2> QED BY <2>1, <1>3, <1>5 DEF Heard, Picked, f
<1>6. \A i \in 1 .. Len(receivers) :
        receivers[i] \in Receivers /\ receivers[i] \in Registered
  BY DEF ObserverInv, ProgramTypes, Registered
<1> QED BY <1>5, <1>6 DEF EveryKeyShown

(* Every key that was spawned has reached each receiver of its topic once  *)
(* when the program unwinds: a receiver has been shown as many messages as *)
(* handlers of its keys were run.                                          *)
THEOREM KeysReachReceivers == ProgramSpec => []EveryKeyShown
<1>1. ProgramInit => ObserverInv /\ Deliveries
  BY ObserverInit, DeliveriesInit
<1>2. ObserverInv /\ Deliveries /\ [ProgramNext]_programVars
        => (ObserverInv /\ Deliveries)'
  BY ObserverNext, DeliveriesNext
<1>3. ObserverInv /\ Deliveries => EveryKeyShown
  <2>1. ~AfterLoop => EveryKeyShown
    BY DEF AfterLoop, EveryKeyShown
  <2> QED BY <2>1, DeliveredAll
<1> QED BY <1>1, <1>2, <1>3, PTL DEF ProgramSpec
=============================================================================
