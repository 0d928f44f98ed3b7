----------------------------- MODULE MessageBus -----------------------------
(***************************************************************************)
(* Dataflow::Bus, the subscription side (dataflow/source/message_bus.cpp), *)
(* with the Subscriber handles that own the links.                         *)
(*                                                                         *)
(* Each method of the bus that takes m_mutex does all its work in that one *)
(* critical section, so it is one action.  publish is two: it copies the   *)
(* callbacks under the mutex, then calls them one by one without it.       *)
(***************************************************************************)
EXTENDS Integers, Sequences, FiniteSets

CONSTANTS
  TopicCount,   (* Topic::getTopicCount()                                  *)
  Handles,      (* the owners of callbacks: Subscribers, inspector entries *)
  TopicOf,      (* the topic each handle subscribes to                     *)
  Inspectors,   (* the callers of subscribeAll                             *)
  EntryOf,      (* the handle an inspector uses for each topic             *)
  Publishers,   (* the threads that publish                                *)
  MaxLinks,     (* bound: links ever created                               *)
  MaxPublishes  (* bound: messages each thread publishes                   *)

Topics  == 0 .. TopicCount - 1
NoLink  == -1
LinkIds == 1 .. MaxLinks

ASSUME BusAssumption ==
  /\ TopicCount \in Nat
  /\ MaxLinks \in Nat
  /\ MaxPublishes \in Nat
  /\ TopicOf \in [Handles -> Topics]
  /\ EntryOf \in [Inspectors -> [Topics -> Handles]]
  /\ \A i \in Inspectors, t \in Topics : TopicOf[EntryOf[i][t]] = t
  /\ \A i, j \in Inspectors, t, u \in Topics :
       EntryOf[i][t] = EntryOf[j][u] => i = j /\ t = u

VARIABLES
  linksCreatedCount,  (* m_linksCreatedCount                               *)
  subsByTopic,        (* m_subsByTopic; a topic with no entry yet is <<>>  *)
  allSubs,            (* m_allSubs: link id -> SubData                     *)
  linkId,             (* Subscriber::m_linkId of each handle               *)
  nextTopic,          (* the iterator of each subscribeAll                 *)
  callbacks,          (* publish's local copy, what is left of it          *)
  received,           (* history: callback invocations of each handle      *)
  published           (* messages each thread has published (for the bound)*)

busVars == <<linksCreatedCount, subsByTopic, allSubs>>
vars == <<linksCreatedCount, subsByTopic, allSubs, linkId, nextTopic,
          callbacks, received, published>>

-----------------------------------------------------------------------------
(* The two critical sections that change the tables.                       *)

SubData == [topic : Topics, indexByTopic : Nat, callback : Handles]

(* Bus::subscribe with the id it hands out: the id goes to the end of the  *)
(* topic's vector.                                                         *)
AddLink(h, id) ==
  LET t == TopicOf[h]
  IN  /\ subsByTopic' = [subsByTopic EXCEPT ![t] = Append(@, id)]
      /\ allSubs' = [l \in DOMAIN allSubs \cup {id} |->
                       IF l \in DOMAIN allSubs THEN allSubs[l]
                       ELSE [topic |-> t,
                             indexByTopic |-> Len(subsByTopic[t]),
                             callback |-> h]]

(* Mutant of subscribe: the id taken from the size of the map.             *)
BusSubscribeIdFromSize(h) ==
  /\ linksCreatedCount' = Cardinality(DOMAIN allSubs) + 1
  /\ AddLink(h, linksCreatedCount')

(* Bus::subscribe: the id is fresh.                                        *)
BusSubscribe(h) ==
  /\ linksCreatedCount' = linksCreatedCount + 1
  /\ AddLink(h, linksCreatedCount + 1)

(* removeSubFromTopic on the vector: the last id takes the freed place.    *)
SwapRemove(v, index) ==
  [k \in 1 .. Len(v) - 1 |-> IF k = index + 1 THEN v[Len(v)] ELSE v[k]]

(* Mutant: the id that moved keeps its old index.                          *)
ReindexedNever(l, moved, index) == allSubs[l]

(* removeSubFromTopic on the map: the id that moved learns its new place.  *)
Reindexed(l, moved, index) ==
  IF l = moved THEN [allSubs[l] EXCEPT !.indexByTopic = index] ELSE allSubs[l]

(* Mutant: the test of the find is inverted.                               *)
BusUnsubscribeInverted(id) ==
  id \in DOMAIN allSubs /\ UNCHANGED busVars

(* Bus::unsubscribe; an id that is not in the map is ignored.              *)
BusUnsubscribe(id) ==
  IF id \in DOMAIN allSubs
  THEN LET sub == allSubs[id]
           v   == subsByTopic[sub.topic]
       IN  /\ subsByTopic' = [subsByTopic EXCEPT
                                ![sub.topic] = SwapRemove(v, sub.indexByTopic)]
           /\ allSubs' = [l \in DOMAIN allSubs \ {id} |->
                            Reindexed(l, v[Len(v)], sub.indexByTopic)]
           /\ UNCHANGED linksCreatedCount
  ELSE UNCHANGED busVars

-----------------------------------------------------------------------------
Init ==
  /\ linksCreatedCount = 0
  /\ subsByTopic = [t \in Topics |-> <<>>]
  /\ allSubs = [l \in {} |-> l]
  /\ linkId = [h \in Handles |-> NoLink]
  /\ nextTopic = [i \in Inspectors |-> 0]
  /\ callbacks = [p \in Publishers |-> <<>>]
  /\ received = [h \in Handles |-> 0]
  /\ published = [p \in Publishers |-> 0]

IsEntry(h) == \E i \in Inspectors, t \in Topics : h = EntryOf[i][t]
IsRegistered(h) == linkId[h] >= 0

(* Subscriber::subscribe, behind the isRegistered test of its callers.     *)
Subscribe(h) ==
  /\ ~IsEntry(h)
  /\ ~IsRegistered(h)
  /\ linksCreatedCount < MaxLinks
  /\ BusSubscribe(h)
  /\ linkId' = [linkId EXCEPT ![h] = linksCreatedCount']
  /\ UNCHANGED <<nextTopic, callbacks, received, published>>

(* One round of the loop of Bus::subscribeAll; the mutex is free between   *)
(* rounds.                                                                 *)
SubscribeAllStep(i) ==
  /\ nextTopic[i] < TopicCount
  /\ linksCreatedCount < MaxLinks
  /\ LET h == EntryOf[i][nextTopic[i]]
     IN  /\ BusSubscribe(h)
         /\ linkId' = [linkId EXCEPT ![h] = linksCreatedCount']
  /\ nextTopic' = [nextTopic EXCEPT ![i] = @ + 1]
  /\ UNCHANGED <<callbacks, received, published>>

(* Subscriber::unsubscribe and the entries' unsubscribe in shutDown, which *)
(* only runs after subscribeAll has returned.                              *)
Unsubscribe(h) ==
  /\ linkId[h] > -1
  /\ \A i \in Inspectors, t \in Topics :
       h = EntryOf[i][t] => nextTopic[i] = TopicCount
  /\ BusUnsubscribe(linkId[h])
  /\ linkId' = [linkId EXCEPT ![h] = NoLink]
  /\ UNCHANGED <<nextTopic, callbacks, received, published>>

(* Mutant: the loop over the links stops one early.                        *)
CallbacksOfAllButLast(t) ==
  [k \in 1 .. Len(subsByTopic[t]) - 1 |->
     allSubs[subsByTopic[t][k]].callback]

(* Bus::publish, the critical section: the callbacks of a topic's links.   *)
CallbacksOf(t) ==
  [k \in 1 .. Len(subsByTopic[t]) |-> allSubs[subsByTopic[t][k]].callback]

Publish(p, t) ==
  /\ callbacks[p] = <<>>
  /\ published[p] < MaxPublishes
  /\ callbacks' = [callbacks EXCEPT ![p] = CallbacksOf(t)]
  /\ published' = [published EXCEPT ![p] = @ + 1]
  /\ UNCHANGED <<busVars, linkId, nextTopic, received>>

(* Bus::publish after the mutex: one callback(message).                    *)
Call(p) ==
  /\ callbacks[p] # <<>>
  /\ received' = [received EXCEPT ![Head(callbacks[p])] = @ + 1]
  /\ callbacks' = [callbacks EXCEPT ![p] = Tail(@)]
  /\ UNCHANGED <<busVars, linkId, nextTopic, published>>

Next ==
  \/ \E h \in Handles : Subscribe(h) \/ Unsubscribe(h)
  \/ \E i \in Inspectors : SubscribeAllStep(i)
  \/ \E p \in Publishers : Call(p) \/ \E t \in Topics : Publish(p, t)

Spec == Init /\ [][Next]_vars

-----------------------------------------------------------------------------
IsCalled(h) ==
  \E p \in Publishers : \E k \in 1 .. Len(callbacks[p]) : callbacks[p][k] = h

(* The type of every variable; the link ids in the tables were handed out. *)
TypeOK ==
  /\ linksCreatedCount \in 0 .. MaxLinks
  /\ subsByTopic \in [Topics -> Seq(LinkIds)]
  /\ DOMAIN allSubs \subseteq 1 .. linksCreatedCount
  /\ allSubs \in [DOMAIN allSubs -> SubData]
  /\ linkId \in [Handles -> LinkIds \cup {NoLink}]
  /\ nextTopic \in [Inspectors -> 0 .. TopicCount]
  /\ callbacks \in [Publishers -> Seq(Handles)]
  /\ received \in [Handles -> Nat]
  /\ published \in [Publishers -> 0 .. MaxPublishes]

(* Every link in the map sits in its topic's vector at the index it        *)
(* remembers, and every place of a vector holds a link of that topic that  *)
(* remembers that place: the O(1) swap-and-pop of removeSubFromTopic never *)
(* leaves a stale index behind, in any order of unsubscriptions.           *)
IndexConsistent ==
  /\ \A l \in DOMAIN allSubs :
       LET sub == allSubs[l]
       IN  /\ sub.indexByTopic < Len(subsByTopic[sub.topic])
           /\ subsByTopic[sub.topic][sub.indexByTopic + 1] = l
  /\ \A t \in Topics : \A k \in 1 .. Len(subsByTopic[t]) :
       /\ subsByTopic[t][k] \in DOMAIN allSubs
       /\ allSubs[subsByTopic[t][k]].topic = t
       /\ allSubs[subsByTopic[t][k]].indexByTopic = k - 1

(* A handle that believes it is subscribed owns a link with its own topic  *)
(* and callback, and every link of the bus is owned by such a handle: no   *)
(* unsubscribe removes someone else's link and none is leaked.             *)
LinksOwned ==
  /\ \A h \in Handles : linkId[h] # NoLink =>
       /\ linkId[h] \in DOMAIN allSubs
       /\ allSubs[linkId[h]].callback = h
       /\ allSubs[linkId[h]].topic = TopicOf[h]
  /\ \A l \in DOMAIN allSubs : linkId[allSubs[l].callback] = l

(* Once a handle has unsubscribed and the publishes that had already       *)
(* copied its callback are over, no step brings its callback back: what an *)
(* owner needs before it may be destroyed.                                 *)
QuietStaysQuiet ==
  [][\A h \in Handles :
       ~IsRegistered(h) /\ ~IsCalled(h) => ~IsCalled(h)']_vars

(* The tables implement the abstract bus: every publish calls exactly the  *)
(* handles subscribed at one instant, each once.                           *)
Abstract ==
  INSTANCE TopicBus WITH
    subscribed <- {h \in Handles : linkId[h] # NoLink},
    toCall <- [p \in Publishers |->
                 {callbacks[p][k] : k \in 1 .. Len(callbacks[p])}]

ImplementsTopicBus == Abstract!Spec
=============================================================================
