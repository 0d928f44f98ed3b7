--------------------------- MODULE Profiler_proofs ---------------------------
(***************************************************************************)
(* The moving averages of the profiler are over the latest of the times    *)
(* measured and lie between their extremes, a time goes to the node of its *)
(* own scope, the walk of the tree meets the scopes in the order they were *)
(* opened, and what the table shows of a scope is sound: for any scopes,   *)
(* times, nesting and size of the window.                                  *)
(***************************************************************************)
EXTENDS Profiler, FiniteSetTheorems, WellFoundedInduction, TLAPS

-----------------------------------------------------------------------------
(* The ring of MovingAverage holds the latest items, for every size of the *)
(* window and any items.                                                   *)

(* The new ring is one, and holds the latest of no items.                  *)
LEMMA EmptyHoldsLatest ==
  ASSUME NEW Items \in SUBSET Int, 0 \in Items
  PROVE  EmptyRing \in Ring(Items) /\ HoldsLatest(EmptyRing, <<>>)
BY WindowAssumption
   DEF HoldsLatest, EmptyRing, Ring, Indices, Smaller

(* pushItem (movingaverage.h:46-55): the head stays in the vector, what is *)
(* overwritten is the oldest item, and the ring holds the latest again.    *)
LEMMA PushedHoldsLatest ==
  ASSUME NEW Items \in SUBSET Int, NEW ring \in Ring(Items),
         NEW items \in Seq(Items), HoldsLatest(ring, items),
         NEW item \in Items
  PROVE  /\ Pushed(ring, item) \in Ring(Items)
         /\ HoldsLatest(Pushed(ring, item), Append(items, item))
<1> DEFINE next == Pushed(ring, item)
           all  == Append(items, item)
<1> USE WindowAssumption
<1>1. /\ ring.head \in Indices /\ ring.cap \in 0 .. WindowSize
      /\ ring.window \in [Indices -> Items]
      /\ Len(items) \in Nat
  BY DEF Ring
<1>2. /\ next.head = NextHead(ring)
      /\ next.cap = NextCap(ring)
      /\ next.window = [ring.window EXCEPT ![ring.head] = item]
  BY DEF Pushed
<1>3. /\ next.head \in Indices
      /\ next.cap \in 0 .. WindowSize
      /\ next.window \in [Indices -> Items]
  BY <1>1, <1>2 DEF NextHead, NextCap, Indices
<1>4. /\ Len(all) = Len(items) + 1
      /\ all[Len(all)] = item
      /\ \A k \in 1 .. Len(items) : all[k] = items[k]
  BY <1>1
<1>5. next \in Ring(Items)
  BY <1>3 DEF Ring, Pushed
<1>6. /\ next.cap = Smaller(WindowSize, Len(all))
      /\ Len(all) < WindowSize => next.head = Len(all)
  BY <1>1, <1>2, <1>4 DEF HoldsLatest, Smaller, NextHead, NextCap, Indices
<1>7. ASSUME NEW j \in 0 .. next.cap - 1
      PROVE  next.window[IndexOf(next, j)] = all[Len(all) - j]
  <2>1. CASE j = 0
    <3>1. IndexOf(next, j) = ring.head
      BY <2>1, <1>1, <1>2 DEF IndexOf, NextHead, Indices
    <3> QED BY <3>1, <2>1, <1>1, <1>2, <1>4
  <2>2. CASE j > 0
    <3>1. j - 1 \in 0 .. ring.cap - 1
      BY <2>2, <1>1, <1>2 DEF NextCap
    <3>2. /\ IndexOf(next, j) = IndexOf(ring, j - 1)
          /\ IndexOf(ring, j - 1) \in Indices
          /\ IndexOf(ring, j - 1) # ring.head
      <4>1. j \in 1 .. WindowSize - 1 /\ ring.head \in 0 .. WindowSize - 1
        <5>1. /\ next.cap \in 0 .. WindowSize /\ j \in 0 .. next.cap - 1
              /\ ring.head \in 0 .. WindowSize - 1
          BY <1>1, <1>3 DEF Indices
        <5> HIDE DEF next
        <5> QED BY <5>1, <2>2
      <4>2. next.head = IF ring.head = WindowSize - 1 THEN 0 ELSE ring.head + 1
        BY <1>2 DEF NextHead
      <4>3. IndexOf(next, j) = IF j < next.head THEN next.head - 1 - j
                               ELSE next.head - 1 - j + WindowSize
        BY DEF IndexOf
      <4>4. IndexOf(ring, j - 1) =
              IF j - 1 < ring.head THEN ring.head - 1 - (j - 1)
              ELSE ring.head - 1 - (j - 1) + WindowSize
        BY DEF IndexOf
      <4> HIDE DEF next
      <4>5. CASE ring.head = WindowSize - 1
        <5>1. next.head = 0 /\ ~(j < 0)
          BY <4>1, <4>2, <4>5
        <5>2. IndexOf(next, j) = WindowSize - 1 - j
          BY <4>1, <4>3, <5>1
        <5>3. IndexOf(ring, j - 1) = WindowSize - 1 - j
          BY <4>1, <4>4, <4>5
        <5> QED BY <4>1, <4>5, <5>2, <5>3 DEF Indices
      <4>6. CASE ring.head # WindowSize - 1
        <5>1. next.head = ring.head + 1
          BY <4>2, <4>6
        <5>2. CASE j - 1 < ring.head
          <6>1. IndexOf(next, j) = ring.head - j
            BY <4>1, <4>3, <5>1, <5>2
          <6>2. IndexOf(ring, j - 1) = ring.head - j
            BY <4>1, <4>4, <5>2
          <6> QED BY <4>1, <5>2, <6>1, <6>2 DEF Indices
        <5>3. CASE ~(j - 1 < ring.head)
          <6>1. IndexOf(next, j) = ring.head - j + WindowSize
            BY <4>1, <4>3, <5>1, <5>3
          <6>2. IndexOf(ring, j - 1) = ring.head - j + WindowSize
            BY <4>1, <4>4, <5>3
          <6> QED BY <4>1, <5>3, <6>1, <6>2 DEF Indices
        <5> QED BY <5>2, <5>3
      <4> QED BY <4>5, <4>6
    <3>3. next.window[IndexOf(next, j)] = ring.window[IndexOf(ring, j - 1)]
      BY <3>2, <1>1, <1>2
    <3>4. ring.window[IndexOf(ring, j - 1)] = items[Len(items) - (j - 1)]
      BY <3>1 DEF HoldsLatest
    <3>5. /\ Len(items) - (j - 1) = Len(all) - j
          /\ Len(all) - j \in 1 .. Len(items)
      BY <2>2, <3>1, <1>1, <1>4 DEF HoldsLatest, Smaller
    <3> QED BY <3>3, <3>4, <3>5, <1>4
  <2>3. j = 0 \/ j > 0
    BY <1>3
  <2> QED BY <2>1, <2>2, <2>3
<1> QED BY <1>5, <1>6, <1>7 DEF HoldsLatest

-----------------------------------------------------------------------------
(* The invariant of the profiler.                                          *)

(* A node other than the root knows the scope it is for.                   *)
OpenNodesHaveScopes ==
  /\ nodes \in Seq(Node)
  /\ openNodes \in Seq(DOMAIN nodes)
  /\ openNodes # <<>>
  /\ \A k \in 2 .. Len(openNodes) : nodes[openNodes[k]].id \in ScopeIds

(* A scope without statistics was never measured, and every ring is one.   *)
RingsHoldTimes ==
  /\ measured \in [ScopeIds -> Seq(Times)]
  /\ \A id \in ScopeIds \ DOMAIN stats : measured[id] = <<>>
  /\ \A id \in ScopeIds \cap DOMAIN stats :
       stats[id].movingAve \in Ring(Times \cup {0})

IInv == OpenNodesHaveScopes /\ RingsHoldTimes /\ AveragesLatest

-----------------------------------------------------------------------------
LEMMA SequenceOf ==
  ASSUME NEW S, NEW n \in Nat, NEW s \in [1 .. n -> S]
  PROVE  s \in Seq(S) /\ Len(s) = n
OBVIOUS

LEMMA Prefix ==
  ASSUME NEW S, NEW s \in Seq(S), NEW n \in 0 .. Len(s)
  PROVE  /\ SubSeq(s, 1, n) \in Seq(S)
         /\ Len(SubSeq(s, 1, n)) = n
         /\ \A k \in 1 .. n : SubSeq(s, 1, n)[k] = s[k]
OBVIOUS

LEMMA WiderSequence ==
  ASSUME NEW S, NEW T, NEW s \in Seq(S), S \subseteq T
  PROVE  s \in Seq(T)
<1>1. Len(s) \in Nat /\ s \in [1 .. Len(s) -> S]
  OBVIOUS
<1>2. s \in [1 .. Len(s) -> T]
  BY <1>1
<1> QED BY <1>1, <1>2, SequenceOf

(* onNodeOpen adds a node and changes no node's scope, and no time.        *)
LEMMA LinkedKeepsIds ==
  ASSUME NEW tree \in Seq(Node), NEW parent \in Nat, NEW this \in Nat
  PROVE  /\ Linked(tree, parent, this) \in Seq(Node)
         /\ Len(Linked(tree, parent, this)) = Len(tree)
         /\ \A k \in 1 .. Len(tree) :
              /\ Linked(tree, parent, this)[k].id = tree[k].id
              /\ Linked(tree, parent, this)[k].elapsedTime = tree[k].elapsedTime
<1> DEFINE Alike(u, v) == u.id = v.id /\ u.elapsedTime = v.elapsedTime
           Same(s) == /\ s \in Seq(Node) /\ Len(s) = Len(tree)
                      /\ \A k \in 1 .. Len(tree) : Alike(s[k], tree[k])
           last == tree[parent].lastChild
<1>1. ASSUME NEW s, Same(s), NEW i
      PROVE  /\ Same([s EXCEPT ![i].nextSibling = this])
             /\ Same([s EXCEPT ![i].firstChild = this])
             /\ Same([s EXCEPT ![i].lastChild = this])
  <2>1. ASSUME NEW v, i \in 1 .. Len(tree) => v \in Node /\ Alike(v, s[i])
        PROVE  Same([s EXCEPT ![i] = v])
    <3>1. /\ DOMAIN [s EXCEPT ![i] = v] = 1 .. Len(tree)
          /\ Len(tree) \in Nat
      BY <1>1
    <3>2. ASSUME NEW k \in 1 .. Len(tree)
          PROVE  /\ [s EXCEPT ![i] = v][k] \in Node
                 /\ Alike([s EXCEPT ![i] = v][k], s[k])
      <4>1. s[k] \in Node /\ k \in DOMAIN s
        BY <1>1
      <4> QED BY <4>1, <2>1
    <3>3. s \in [1 .. Len(tree) -> Node]
      BY <1>1
    <3>4. [s EXCEPT ![i] = v] \in [1 .. Len(tree) -> Node]
      BY <3>2, <3>3
    <3>5. /\ [s EXCEPT ![i] = v] \in Seq(Node)
          /\ Len([s EXCEPT ![i] = v]) = Len(tree)
      BY <3>1, <3>4, SequenceOf
    <3>6. \A k \in 1 .. Len(tree) : Alike(s[k], tree[k])
      BY <1>1
    <3> QED BY <3>2, <3>5, <3>6
  <2>2. i \in 1 .. Len(tree) => s[i] \in Node
    BY <1>1
  <2>3. ASSUME NEW v \in Node
        PROVE  /\ [v EXCEPT !.nextSibling = this] \in Node
               /\ [v EXCEPT !.firstChild = this] \in Node
               /\ [v EXCEPT !.lastChild = this] \in Node
               /\ Alike([v EXCEPT !.nextSibling = this], v)
               /\ Alike([v EXCEPT !.firstChild = this], v)
               /\ Alike([v EXCEPT !.lastChild = this], v)
    BY DEF Node
  <2> HIDE DEF Same
  <2>4. /\ Same([s EXCEPT ![i] = [s[i] EXCEPT !.nextSibling = this]])
        /\ Same([s EXCEPT ![i] = [s[i] EXCEPT !.firstChild = this]])
        /\ Same([s EXCEPT ![i] = [s[i] EXCEPT !.lastChild = this]])
    BY <2>1, <2>2, <2>3
  <2> QED BY <2>4
<1>2. Same(tree)
  OBVIOUS
<1>3. Same(Linked(tree, parent, this))
  <2>1. CASE tree[parent].firstChild = InvalidNodeIdx
    <3>1. Linked(tree, parent, this) =
            [[tree EXCEPT ![parent].firstChild = this]
               EXCEPT ![parent].lastChild = this]
      BY <2>1 DEF Linked
    <3> HIDE DEF Same
    <3>2. Same([tree EXCEPT ![parent].firstChild = this])
      BY <1>1, <1>2
    <3>3. Same([[tree EXCEPT ![parent].firstChild = this]
                  EXCEPT ![parent].lastChild = this])
      BY <1>1, <3>2
    <3> QED BY <3>1, <3>3
  <2>2. CASE tree[parent].firstChild # InvalidNodeIdx
    <3>1. Linked(tree, parent, this) =
            [[tree EXCEPT ![last].nextSibling = this]
               EXCEPT ![parent].lastChild = this]
      BY <2>2 DEF Linked
    <3> HIDE DEF Same
    <3>2. Same([tree EXCEPT ![last].nextSibling = this])
      BY <1>1, <1>2
    <3>3. Same([[tree EXCEPT ![last].nextSibling = this]
                  EXCEPT ![parent].lastChild = this])
      BY <1>1, <3>2
    <3> QED BY <3>1, <3>3
  <2> QED BY <2>1, <2>2
<1> QED BY <1>3

(* The invariant holds at first.                                           *)
LEMMA InitIInv == Init => IInv
BY ProfilerAssumption
   DEF Init, IInv, OpenNodesHaveScopes, RingsHoldTimes, AveragesLatest,
       EmptyTree, NewNode, Node, Root, NoScope, InvalidNodeIdx

(* A scope is opened.                                                      *)
LEMMA OpenScopeIInv ==
  ASSUME IInv, NEW id \in ScopeIds, OpenScope(id)
  PROVE  IInv'
<1> DEFINE parent == Last(openNodes)
           this   == Len(nodes) + 1
           tree   == Append(nodes, NewNode(id, parent))
<1>1. /\ nodes \in Seq(Node) /\ openNodes \in Seq(DOMAIN nodes)
      /\ openNodes # <<>>
      /\ Len(nodes) \in Nat /\ Len(openNodes) \in Nat \ {0}
      /\ DOMAIN nodes = 1 .. Len(nodes)
  BY DEF IInv, OpenNodesHaveScopes
<1>2. parent \in Nat /\ this \in Nat
  BY <1>1 DEF Last
<1>3. /\ tree \in Seq(Node) /\ Len(tree) = this
      /\ tree[this].id = id
      /\ \A k \in 1 .. Len(nodes) : tree[k] = nodes[k]
  <2>1. NewNode(id, parent) \in Node
    BY <1>2 DEF NewNode, Node, InvalidNodeIdx
  <2> QED BY <2>1, <1>1 DEF NewNode
<1>4. /\ nodes' = Linked(tree, parent, this)
      /\ openNodes' = Append(openNodes, this)
      /\ UNCHANGED <<stats, measured>>
  BY DEF OpenScope
<1>5. /\ nodes' \in Seq(Node) /\ Len(nodes') = this
      /\ \A k \in 1 .. this : nodes'[k].id = tree[k].id
  <2> HIDE DEF tree, parent, this
  <2> QED BY <1>2, <1>3, <1>4, LinkedKeepsIds
<1>6. /\ DOMAIN nodes' = 1 .. this
      /\ openNodes' \in Seq(DOMAIN nodes')
      /\ Len(openNodes') = Len(openNodes) + 1
      /\ openNodes'[Len(openNodes) + 1] = this
      /\ \A k \in 1 .. Len(openNodes) : openNodes'[k] = openNodes[k]
  <2>1. DOMAIN nodes' = 1 .. this
    BY <1>5
  <2>2. openNodes \in Seq(1 .. this) /\ this \in 1 .. this
    BY <1>1
  <2> QED BY <2>1, <2>2, <1>4
<1>7. ASSUME NEW k \in 2 .. Len(openNodes')
      PROVE  nodes'[openNodes'[k]].id \in ScopeIds
  <2> HIDE DEF parent, this, tree
  <2>1. CASE k = Len(openNodes) + 1
    <3>1. openNodes'[k] = this /\ this \in 1 .. this
      BY <2>1, <1>2, <1>5, <1>6
    <3>2. nodes'[this].id = tree[this].id
      BY <3>1, <1>5
    <3> QED BY <3>1, <3>2, <1>3
  <2>2. CASE k \in 2 .. Len(openNodes)
    <3>1. openNodes'[k] = openNodes[k] /\ openNodes[k] \in 1 .. Len(nodes)
      BY <2>2, <1>1, <1>6
    <3>2. openNodes[k] \in 1 .. this
      BY <3>1, <1>1 DEF this
    <3>3. /\ nodes'[openNodes[k]].id = tree[openNodes[k]].id
          /\ tree[openNodes[k]] = nodes[openNodes[k]]
      BY <3>1, <3>2, <1>3, <1>5
    <3> QED BY <3>1, <3>3, <2>2 DEF IInv, OpenNodesHaveScopes
  <2>3. k = Len(openNodes) + 1 \/ k \in 2 .. Len(openNodes)
    BY <1>1, <1>6
  <2> QED BY <2>1, <2>2, <2>3
<1>8. OpenNodesHaveScopes'
  BY <1>5, <1>6, <1>7, <1>1, <1>4 DEF OpenNodesHaveScopes
<1> QED BY <1>4, <1>8 DEF IInv, RingsHoldTimes, AveragesLatest

(* A scope is closed, and its time stored.                                 *)
LEMMA CloseScopeIInv ==
  ASSUME IInv, NEW time \in Times, CloseScope(time)
  PROVE  IInv'
<1>1. CASE Len(openNodes) <= 1
  <2>1. UNCHANGED <<nodes, openNodes, stats, measured>>
    BY <1>1 DEF CloseScope
  <2> QED BY <2>1 DEF IInv, OpenNodesHaveScopes, RingsHoldTimes, AveragesLatest
<1>2. CASE ~(Len(openNodes) <= 1)
  <2> DEFINE this == Last(openNodes)
             sid  == nodes[this].id
  <2>1. /\ nodes' = [nodes EXCEPT ![this].elapsedTime = time]
        /\ openNodes' = Front(openNodes)
        /\ stats' = Stored(sid, time)
        /\ measured' = [measured EXCEPT ![sid] = Append(@, time)]
    BY <1>2 DEF CloseScope
  <2>2. /\ nodes \in Seq(Node) /\ openNodes \in Seq(DOMAIN nodes)
        /\ Len(nodes) \in Nat /\ Len(openNodes) \in Nat
        /\ DOMAIN nodes = 1 .. Len(nodes)
        /\ Len(openNodes) \in 2 .. Len(openNodes)
    BY <1>2 DEF IInv, OpenNodesHaveScopes
  <2>3. this \in DOMAIN nodes /\ sid \in ScopeIds
    BY <2>2 DEF IInv, OpenNodesHaveScopes, Last
  <2>4. time \in Nat /\ time \in Times \cup {0} /\ Times \cup {0} \in SUBSET Int
    BY ProfilerAssumption
  <2>5. /\ nodes' \in [1 .. Len(nodes) -> Node]
        /\ \A k \in 1 .. Len(nodes) : nodes'[k].id = nodes[k].id
    <3>1. \A v \in Node : /\ [v EXCEPT !.elapsedTime = time] \in Node
                          /\ [v EXCEPT !.elapsedTime = time].id = v.id
      BY <2>4 DEF Node
    <3>2. nodes \in [1 .. Len(nodes) -> Node]
      BY <2>2
    <3> HIDE DEF this
    <3>3. /\ nodes' = [nodes EXCEPT ![this] = [nodes[this] EXCEPT !.elapsedTime = time]]
          /\ nodes[this] \in Node
      BY <2>1, <2>2, <2>3
    <3> QED BY <3>1, <3>2, <3>3
  <2>6. /\ nodes' \in Seq(Node) /\ DOMAIN nodes' = DOMAIN nodes
    BY <2>2, <2>5, SequenceOf
  <2>7. /\ openNodes' \in Seq(DOMAIN nodes)
        /\ Len(openNodes') = Len(openNodes) - 1
        /\ \A k \in 1 .. Len(openNodes') : openNodes'[k] = openNodes[k]
    <3>1. openNodes' = SubSeq(openNodes, 1, Len(openNodes) - 1)
      BY <2>1 DEF Front
    <3>2. openNodes \in Seq(DOMAIN nodes) /\ Len(openNodes) - 1 \in 0 .. Len(openNodes)
      BY <2>2
    <3> QED BY <3>1, <3>2, Prefix
  <2>8. OpenNodesHaveScopes'
    <3>1. ASSUME NEW k \in 2 .. Len(openNodes')
          PROVE  nodes'[openNodes'[k]].id \in ScopeIds
      <4> DEFINE count == Len(openNodes)
      <4>0. /\ count \in Nat /\ Len(openNodes') = count - 1
            /\ k \in 2 .. count - 1
        BY <2>2, <2>7
      <4> HIDE DEF count
      <4>3. k \in 2 .. count /\ k \in 1 .. Len(openNodes')
        BY <4>0
      <4>1. k \in 2 .. Len(openNodes) /\ openNodes'[k] = openNodes[k]
        BY <4>3, <2>7 DEF count
      <4>2. openNodes[k] \in 1 .. Len(nodes)
        BY <4>1, <2>2
      <4> QED BY <4>1, <4>2, <2>5 DEF IInv, OpenNodesHaveScopes
    <3>2. openNodes' # <<>>
      BY <2>2, <2>7
    <3> QED BY <3>1, <3>2, <2>6, <2>7 DEF OpenNodesHaveScopes
  <2> HIDE DEF this, sid
  <2>9. /\ measured \in [ScopeIds -> Seq(Times)]
        /\ measured' \in [ScopeIds -> Seq(Times)]
        /\ measured'[sid] = Append(measured[sid], time)
        /\ \A id \in ScopeIds : id # sid => measured'[id] = measured[id]
    BY <2>1, <2>3 DEF IInv, RingsHoldTimes
  <2>10. CASE sid \in DOMAIN stats
    <3> DEFINE ring == stats[sid].movingAve
               all  == measured[sid]
    <3>1. /\ DOMAIN stats' = DOMAIN stats
          /\ stats'[sid].movingAve = Pushed(ring, time)
          /\ \A id \in DOMAIN stats : id # sid => stats'[id] = stats[id]
      BY <2>1, <2>10 DEF Stored
    <3>2. ring \in Ring(Times \cup {0}) /\ all \in Seq(Times \cup {0})
      <4>1. ring \in Ring(Times \cup {0})
        BY <2>3, <2>10 DEF IInv, RingsHoldTimes
      <4>2. all \in Seq(Times)
        BY <2>3, <2>9
      <4> HIDE DEF all
      <4> QED BY <4>1, <4>2, WiderSequence
    <3>3. \/ HoldsLatest(ring, all)
          \/ all # <<>> /\ HoldsLatest(ring, Tail(all))
      BY <2>3, <2>10 DEF IInv, AveragesLatest
    <3>4. /\ all # <<>> => /\ Tail(all) \in Seq(Times \cup {0})
                           /\ Tail(Append(all, time)) = Append(Tail(all), time)
          /\ Append(all, time) # <<>>
      BY <3>2
    <3> HIDE DEF ring, all
    <3>5. /\ Pushed(ring, time) \in Ring(Times \cup {0})
          /\ \/ HoldsLatest(Pushed(ring, time), Append(all, time))
             \/ HoldsLatest(Pushed(ring, time), Tail(Append(all, time)))
      <4>1. CASE HoldsLatest(ring, all)
        BY <4>1, <2>4, <3>2, PushedHoldsLatest
      <4>2. CASE all # <<>> /\ HoldsLatest(ring, Tail(all))
        BY <4>2, <2>4, <3>2, <3>4, PushedHoldsLatest
      <4> QED BY <4>1, <4>2, <3>3
    <3>6. measured'[sid] = Append(all, time)
      BY <2>9 DEF all
    <3>7. RingsHoldTimes'
      BY <2>9, <2>10, <3>1, <3>5 DEF IInv, RingsHoldTimes
    <3>8. AveragesLatest'
      BY <2>9, <3>1, <3>4, <3>5, <3>6 DEF IInv, AveragesLatest
    <3> QED BY <2>8, <3>7, <3>8 DEF IInv
  <2>11. CASE sid \notin DOMAIN stats
    <3>1. /\ DOMAIN stats' = DOMAIN stats \cup {sid}
          /\ stats'[sid].movingAve = EmptyRing
          /\ \A id \in DOMAIN stats : stats'[id] = stats[id]
      BY <2>1, <2>11 DEF Stored, StatsOf
    <3>2. measured[sid] = <<>>
      BY <2>3, <2>11 DEF IInv, RingsHoldTimes
    <3>3. measured'[sid] # <<>> /\ Tail(measured'[sid]) = <<>>
      BY <2>9, <3>2
    <3>4. /\ EmptyRing \in Ring(Times \cup {0})
          /\ HoldsLatest(EmptyRing, <<>>)
      BY <2>4, EmptyHoldsLatest
    <3>5. RingsHoldTimes'
      BY <2>9, <2>11, <3>1, <3>4 DEF IInv, RingsHoldTimes
    <3>6. AveragesLatest'
      BY <2>9, <2>11, <3>1, <3>3, <3>4 DEF IInv, AveragesLatest
    <3> QED BY <2>8, <3>5, <3>6 DEF IInv
  <2> QED BY <2>10, <2>11
<1> QED BY <1>1, <1>2

(* A frame starts.                                                         *)
LEMMA ResetIInv ==
  ASSUME IInv, Reset
  PROVE  IInv'
<1>1. /\ nodes' = EmptyTree /\ openNodes' = <<Root>>
      /\ UNCHANGED <<stats, measured>>
  BY DEF Reset
<1>2. OpenNodesHaveScopes'
  BY <1>1 DEF OpenNodesHaveScopes, EmptyTree, NewNode, Node, Root, NoScope,
              InvalidNodeIdx
<1> QED BY <1>1, <1>2 DEF IInv, RingsHoldTimes, AveragesLatest

(* A frame ends: whatever the traversal shows, statistics that are new are *)
(* those of scopes that were never measured.                               *)
LEMMA EndFrameIInv ==
  ASSUME IInv, EndFrame
  PROVE  IInv'
<1> DEFINE shown == {nodes[it.idx].id : it \in ToSet(Walk)}
<1>1. /\ stats' = [id \in DOMAIN stats \cup shown |->
                     IF id \in DOMAIN stats THEN stats[id] ELSE StatsOf(FltMax, 0)]
      /\ UNCHANGED <<nodes, openNodes, measured>>
  BY DEF EndFrame
<1> HIDE DEF shown
<1>2. /\ DOMAIN stats' = DOMAIN stats \cup shown
      /\ \A id \in DOMAIN stats : stats'[id] = stats[id]
      /\ \A id \in shown \ DOMAIN stats : stats'[id].movingAve = EmptyRing
  BY <1>1 DEF StatsOf
<1>3. /\ EmptyRing \in Ring(Times \cup {0})
      /\ HoldsLatest(EmptyRing, <<>>)
  BY ProfilerAssumption, EmptyHoldsLatest
<1>4. OpenNodesHaveScopes'
  BY <1>1 DEF IInv, OpenNodesHaveScopes
<1>5. RingsHoldTimes'
  BY <1>1, <1>2, <1>3 DEF IInv, RingsHoldTimes
<1>6. AveragesLatest'
  BY <1>1, <1>2, <1>3 DEF IInv, RingsHoldTimes, AveragesLatest
<1> QED BY <1>4, <1>5, <1>6 DEF IInv

LEMMA NextIInv == IInv /\ [Next]_vars => IInv'
<1> SUFFICES ASSUME IInv, [Next]_vars PROVE IInv'
  OBVIOUS
<1>1. CASE UNCHANGED vars
  BY <1>1 DEF vars, IInv, OpenNodesHaveScopes, RingsHoldTimes, AveragesLatest
<1> QED BY <1>1, OpenScopeIInv, CloseScopeIInv, ResetIInv, EndFrameIInv DEF Next

(* profiler.cpp:248-259, 299-314: however scopes nest and frames come and  *)
(* go, the moving average of a scope is over its latest times.             *)
THEOREM AveragesAreOfLatest == Spec => []AveragesLatest
<1>1. IInv => AveragesLatest
  BY DEF IInv
<1> QED BY <1>1, InitIInv, NextIInv, PTL DEF Spec

-----------------------------------------------------------------------------
(* Whose node a time goes to.                                              *)

(* The innermost scopes are those of the open nodes, in their order; all   *)
(* of them began in this frame.  The root is no scope's, and has no time.  *)
ScopesOwnNodes ==
  /\ scopes \in Seq([id : ScopeIds, node : Nat, resets : Nat])
  /\ resets \in Nat
  /\ Len(openNodes) - 1 <= Len(scopes)
  /\ openNodes[1] = Root /\ nodes[Root].elapsedTime = 0
  /\ \A k \in 2 .. Len(openNodes) :
       LET scope == scopes[Len(scopes) - Len(openNodes) + k]
       IN  /\ openNodes[k] # Root
           /\ scope.node = openNodes[k]
           /\ scope.resets = resets

(* No node but the root is open at first.                                  *)
LEMMA ScopesInit == Init => ScopesOwnNodes
BY DEF Init, ScopesOwnNodes, EmptyTree, NewNode, Root

(* The scope that is opened is the innermost, and so is its node.          *)
LEMMA ScopesOpen ==
  ASSUME IInv, ScopesOwnNodes, NEW id \in ScopeIds, OpenScope(id)
  PROVE  /\ ScopesOwnNodes'
         /\ \A k \in DOMAIN nodes : nodes'[k].elapsedTime = nodes[k].elapsedTime
<1> DEFINE parent == Last(openNodes)
           this   == Len(nodes) + 1
           tree   == Append(nodes, NewNode(id, parent))
           open   == Len(openNodes)
           live   == Len(scopes)
           scope  == [id |-> id, node |-> this, resets |-> resets]
<1>1. /\ nodes \in Seq(Node) /\ openNodes \in Seq(DOMAIN nodes)
      /\ openNodes # <<>>
      /\ Len(nodes) \in Nat /\ open \in Nat \ {0}
      /\ DOMAIN nodes = 1 .. Len(nodes)
      /\ openNodes[1] \in DOMAIN nodes
  BY DEF IInv, OpenNodesHaveScopes
<1>2. parent \in Nat /\ this \in Nat
  BY <1>1 DEF Last
<1>3. /\ tree \in Seq(Node)
      /\ \A k \in 1 .. Len(nodes) : tree[k] = nodes[k]
      /\ Len(tree) = this
  <2>1. NewNode(id, parent) \in Node
    BY <1>2 DEF NewNode, Node, InvalidNodeIdx
  <2> QED BY <2>1, <1>1
<1>4. /\ nodes' = Linked(tree, parent, this)
      /\ openNodes' = Append(openNodes, this)
      /\ scopes' = Append(scopes, scope)
      /\ resets' = resets
  BY DEF OpenScope
<1>5. \A k \in DOMAIN nodes : nodes'[k].elapsedTime = nodes[k].elapsedTime
  <2> HIDE DEF tree, parent
  <2>1. \A k \in 1 .. this : nodes'[k].elapsedTime = tree[k].elapsedTime
    BY <1>2, <1>3, <1>4, LinkedKeepsIds
  <2> QED BY <2>1, <1>1, <1>3
<1>6. /\ scopes \in Seq([id : ScopeIds, node : Nat, resets : Nat])
      /\ resets \in Nat /\ live \in Nat /\ open - 1 <= live
  BY DEF ScopesOwnNodes
<1>7. scope \in [id : ScopeIds, node : Nat, resets : Nat]
  BY <1>2, <1>6
<1>8. /\ scopes' \in Seq([id : ScopeIds, node : Nat, resets : Nat])
      /\ Len(scopes') = live + 1 /\ scopes'[live + 1] = scope
      /\ \A k \in 1 .. live : scopes'[k] = scopes[k]
  BY <1>4, <1>6, <1>7
<1>9. /\ Len(openNodes') = open + 1 /\ openNodes'[open + 1] = this
      /\ \A k \in 1 .. open : openNodes'[k] = openNodes[k]
  BY <1>4, <1>1
<1>10. /\ scope.node = this /\ scope.resets = resets /\ this # Root
  BY <1>1 DEF Root
<1>11. /\ openNodes'[1] = Root /\ nodes'[Root].elapsedTime = 0
  <2>1. openNodes[1] = Root /\ Root \in DOMAIN nodes /\ 1 \in 1 .. open
    BY <1>1 DEF ScopesOwnNodes
  <2> QED BY <2>1, <1>5, <1>9 DEF ScopesOwnNodes
<1>12. ASSUME NEW k \in 2 .. open + 1
       PROVE  /\ openNodes'[k] # Root
              /\ scopes'[(live + 1) - (open + 1) + k].node = openNodes'[k]
              /\ scopes'[(live + 1) - (open + 1) + k].resets = resets
  <2> HIDE DEF open, live, scope, this
  <2>1. CASE k = open + 1
    <3>1. (live + 1) - (open + 1) + k = live + 1
      BY <2>1, <1>1, <1>6
    <3> QED BY <3>1, <2>1, <1>8, <1>9, <1>10
  <2>2. CASE k \in 2 .. open
    <3> DEFINE at == live - open + k
    <3>1. /\ (live + 1) - (open + 1) + k = at
          /\ at \in 1 .. live /\ k \in 1 .. open
      BY <2>2, <1>1, <1>6
    <3>2. /\ openNodes[k] # Root /\ scopes[at].node = openNodes[k]
          /\ scopes[at].resets = resets
      BY <2>2 DEF ScopesOwnNodes, open, live
    <3> HIDE DEF at
    <3> QED BY <3>1, <3>2, <1>8, <1>9
  <2> QED BY <2>1, <2>2, <1>1
<1>13. ScopesOwnNodes'
  <2>1. Len(openNodes') - 1 <= Len(scopes')
    <3> HIDE DEF open, live
    <3> QED BY <1>1, <1>6, <1>8, <1>9
  <2> HIDE DEF open, live, scope, this
  <2>2. ASSUME NEW k \in 2 .. Len(openNodes')
        PROVE  /\ openNodes'[k] # Root
               /\ scopes'[Len(scopes') - Len(openNodes') + k].node = openNodes'[k]
               /\ scopes'[Len(scopes') - Len(openNodes') + k].resets = resets'
    <3>1. /\ Len(scopes') - Len(openNodes') + k = (live + 1) - (open + 1) + k
          /\ k \in 2 .. open + 1
      BY <1>8, <1>9
    <3> QED BY <3>1, <1>4, <1>12
  <2> QED BY <2>1, <2>2, <1>4, <1>6, <1>8, <1>11 DEF ScopesOwnNodes
<1> QED BY <1>5, <1>13

(* What is closed is the node of the scope that ends.                      *)
LEMMA ScopesClose ==
  ASSUME IInv, ScopesOwnNodes, NEW time \in Times, CloseScope(time)
  PROVE  /\ ScopesOwnNodes'
         /\ \A k \in DOMAIN nodes :
              nodes'[k].elapsedTime # nodes[k].elapsedTime =>
                /\ Last(scopes).node = k
                /\ Last(scopes).resets = resets
<1> DEFINE open  == Len(openNodes)
           live  == Len(scopes)
           Scope == [id : ScopeIds, node : Nat, resets : Nat]
<1>1. /\ nodes \in Seq(Node) /\ openNodes \in Seq(DOMAIN nodes)
      /\ open \in Nat \ {0}
      /\ DOMAIN nodes = 1 .. Len(nodes)
  BY DEF IInv, OpenNodesHaveScopes
<1>2. /\ scopes \in Seq(Scope) /\ scopes # <<>>
      /\ scopes' = SubSeq(scopes, 1, Len(scopes) - 1)
      /\ resets' = resets /\ resets \in Nat
      /\ live \in Nat \ {0} /\ live - 1 \in 0 .. live
      /\ open - 1 <= live
  BY DEF CloseScope, ScopesOwnNodes, Front
<1>3. /\ scopes' \in Seq(Scope) /\ Len(scopes') = live - 1
      /\ \A k \in 1 .. live - 1 : scopes'[k] = scopes[k]
  <2> HIDE DEF Scope
  <2> QED BY <1>2, Prefix
<1>4. openNodes[1] = Root /\ nodes[Root].elapsedTime = 0
  BY DEF ScopesOwnNodes
<1>5. CASE open <= 1
  <2>1. nodes' = nodes /\ openNodes' = openNodes
    BY <1>5 DEF CloseScope
  <2>2. Len(openNodes') - 1 <= Len(scopes')
    <3>1. Len(openNodes') = open
      BY <2>1
    <3> HIDE DEF open, live
    <3> QED BY <3>1, <1>1, <1>2, <1>3, <1>5
  <2>3. 2 .. Len(openNodes') = {}
    BY <2>1, <1>1, <1>5
  <2> HIDE DEF live
  <2>4. ScopesOwnNodes'
    BY <2>1, <2>2, <2>3, <1>2, <1>3, <1>4 DEF ScopesOwnNodes
  <2> QED BY <2>1, <2>4
<1>6. CASE ~(open <= 1)
  <2> DEFINE this == Last(openNodes)
  <2>1. /\ nodes' = [nodes EXCEPT ![this].elapsedTime = time]
        /\ openNodes' = SubSeq(openNodes, 1, open - 1)
    BY <1>6 DEF CloseScope, Front
  <2>2. /\ open \in 2 .. open /\ open - 1 \in 0 .. open
        /\ this = openNodes[open] /\ this \in DOMAIN nodes
        /\ Last(scopes) = scopes[live]
    BY <1>1, <1>6 DEF Last
  <2>3. /\ Len(openNodes') = open - 1
        /\ \A k \in 1 .. open - 1 : openNodes'[k] = openNodes[k]
    BY <2>1, <2>2, <1>1, Prefix
  <2>4. \A k \in DOMAIN nodes : k # this => nodes'[k] = nodes[k]
    <3> HIDE DEF this
    <3> QED BY <2>1
  <2>5. /\ this # Root /\ Last(scopes).node = this
        /\ Last(scopes).resets = resets
    <3>1. live - open + open = live
      <4> HIDE DEF open, live
      <4> QED BY <1>1, <1>2
    <3>2. /\ openNodes[open] # Root
          /\ scopes[live - open + open].node = openNodes[open]
          /\ scopes[live - open + open].resets = resets
      BY <2>2 DEF ScopesOwnNodes
    <3> HIDE DEF open, live, this
    <3> QED BY <3>1, <3>2, <2>2
  <2> HIDE DEF this
  <2>6. openNodes'[1] = Root /\ nodes'[Root].elapsedTime = 0
    <3>1. 1 \in 1 .. open - 1 /\ Root \in DOMAIN nodes
      BY <2>2, <1>1, <1>4
    <3> QED BY <3>1, <2>3, <2>4, <2>5, <1>4
  <2>7. ASSUME NEW k \in 2 .. open - 1
        PROVE  /\ openNodes'[k] # Root
               /\ scopes'[(live - 1) - (open - 1) + k].node = openNodes'[k]
               /\ scopes'[(live - 1) - (open - 1) + k].resets = resets
    <3> DEFINE at == live - open + k
    <3> HIDE DEF open, live
    <3>1. /\ (live - 1) - (open - 1) + k = at
          /\ at \in 1 .. live - 1 /\ k \in 1 .. open - 1 /\ k \in 2 .. open
      BY <1>1, <1>2
    <3>2. /\ openNodes[k] # Root /\ scopes[at].node = openNodes[k]
          /\ scopes[at].resets = resets
      BY <3>1 DEF ScopesOwnNodes, open, live
    <3> HIDE DEF at
    <3> QED BY <3>1, <3>2, <1>3, <2>3
  <2>8. ScopesOwnNodes'
    <3>1. Len(openNodes') - 1 <= Len(scopes')
      <4> HIDE DEF open, live
      <4> QED BY <1>1, <1>2, <1>3, <2>3
    <3> HIDE DEF open, live
    <3>2. ASSUME NEW k \in 2 .. Len(openNodes')
          PROVE  /\ openNodes'[k] # Root
                 /\ scopes'[Len(scopes') - Len(openNodes') + k].node = openNodes'[k]
                 /\ scopes'[Len(scopes') - Len(openNodes') + k].resets = resets'
      <4>1. /\ Len(scopes') - Len(openNodes') + k = (live - 1) - (open - 1) + k
            /\ k \in 2 .. open - 1
        BY <1>3, <2>3
      <4> QED BY <4>1, <1>2, <2>7
    <3> QED BY <3>1, <3>2, <1>2, <1>3, <2>6 DEF ScopesOwnNodes
  <2> QED BY <2>4, <2>5, <2>8
<1> QED BY <1>5, <1>6

(* In a new frame no node is open, and the root still has no time.         *)
LEMMA ScopesReset ==
  ASSUME ScopesOwnNodes, Reset
  PROVE  /\ ScopesOwnNodes'
         /\ \A k \in DOMAIN nodes \cap DOMAIN nodes' :
              nodes'[k].elapsedTime = nodes[k].elapsedTime
<1>1. /\ nodes' = EmptyTree /\ openNodes' = <<Root>>
      /\ scopes' = scopes /\ resets' = resets + 1
  BY DEF Reset
<1>2. /\ DOMAIN nodes' = {Root} /\ nodes'[Root].elapsedTime = 0
      /\ Len(openNodes') = 1 /\ openNodes'[1] = Root
      /\ 2 .. Len(openNodes') = {}
  BY <1>1 DEF EmptyTree, NewNode, Root
<1>3. Len(scopes) \in Nat /\ resets \in Nat
  BY DEF ScopesOwnNodes
<1>4. ScopesOwnNodes'
  <2>1. Len(openNodes') - 1 <= Len(scopes') /\ resets' \in Nat
    BY <1>1, <1>2, <1>3
  <2> QED BY <2>1, <1>1, <1>2 DEF ScopesOwnNodes
<1> QED BY <1>2, <1>4 DEF ScopesOwnNodes

(* ScopesOwnNodes is inductive beside IInv.                                *)
LEMMA ScopesStep ==
  ASSUME IInv, ScopesOwnNodes, [Next]_vars
  PROVE  ScopesOwnNodes'
<1>1. ASSUME EndFrame \/ UNCHANGED vars PROVE ScopesOwnNodes'
  <2>1. UNCHANGED <<nodes, openNodes, scopes, resets>>
    BY <1>1 DEF EndFrame, vars
  <2> QED BY <2>1 DEF ScopesOwnNodes
<1> QED BY <1>1, ScopesOpen, ScopesClose, ScopesReset DEF Next

(* profiler.cpp:248-256: a time is stored in the node that its own scope   *)
(* opened in this frame, or nowhere, however scopes and frames overlap.    *)
THEOREM OwnTimesOnly == Spec => TimesStayWithScopes
<1> DEFINE Kept == \A k \in DOMAIN nodes \cap DOMAIN nodes' :
                     nodes'[k].elapsedTime # nodes[k].elapsedTime =>
                       /\ Last(scopes).node = k
                       /\ Last(scopes).resets = resets
                       /\ scopes' = Front(scopes)
<1>1. ASSUME IInv, ScopesOwnNodes, [Next]_vars
      PROVE  [Kept]_vars
  <2>1. CASE EndFrame
    BY <2>1 DEF EndFrame
  <2>2. ASSUME NEW id \in ScopeIds, OpenScope(id) PROVE Kept
    BY <1>1, <2>2, ScopesOpen
  <2>3. ASSUME NEW time \in Times, CloseScope(time) PROVE Kept
    <3>1. scopes' = Front(scopes)
      BY <2>3 DEF CloseScope
    <3> QED BY <3>1, <1>1, <2>3, ScopesClose
  <2>4. CASE Reset
    BY <1>1, <2>4, ScopesReset
  <2> QED BY <1>1, <2>1, <2>2, <2>3, <2>4 DEF Next
<1>2. Spec => [](IInv /\ ScopesOwnNodes)
  <2>1. Init => IInv /\ ScopesOwnNodes
    BY InitIInv, ScopesInit
  <2>2. IInv /\ ScopesOwnNodes /\ [Next]_vars => (IInv /\ ScopesOwnNodes)'
    BY NextIInv, ScopesStep
  <2> QED BY <2>1, <2>2, PTL DEF Spec
<1> QED BY <1>1, <1>2, PTL DEF Spec, TimesStayWithScopes

-----------------------------------------------------------------------------
(* What the statistics show of the times measured.                         *)

(* The extremes of some times, or of none.                                 *)
ExtremesOf(min, max, times) ==
  IF times = <<>> THEN min = FltMax /\ max = 0
  ELSE /\ min \in ToSet(times) /\ max \in ToSet(times)
       /\ \A time \in ToSet(times) : min <= time /\ time <= max

ExtremesExact ==
  \A id \in ScopeIds \cap DOMAIN stats :
    ExtremesOf(stats[id].min, stats[id].max, measured[id])

(* The smallest and the largest time of a scope bound all that its moving  *)
(* average is over.                                                        *)
AveragedBetween ==
  \A id \in ScopeIds \cap DOMAIN stats :
    \A i \in 0 .. stats[id].movingAve.cap - 1 :
      /\ stats[id].min <= stats[id].movingAve.window[i]
      /\ stats[id].movingAve.window[i] <= stats[id].max

(* storeStats compares the new time with both extremes.                    *)
LEMMA ExtremesAppend ==
  ASSUME NEW times \in Seq(Times), NEW time \in Times,
         NEW min, NEW max, ExtremesOf(min, max, times)
  PROVE  ExtremesOf(IF time < min THEN time ELSE min,
                    IF time > max THEN time ELSE max, Append(times, time))
<1> DEFINE lo == IF time < min THEN time ELSE min
           hi == IF time > max THEN time ELSE max
<1>1. /\ ToSet(Append(times, time)) = ToSet(times) \cup {time}
      /\ Append(times, time) # <<>>
      /\ ToSet(times) \subseteq Times
      /\ times = <<>> => ToSet(times) = {}
  <2> DEFINE more == Append(times, time)
             n    == Len(times)
  <2>1. /\ n \in Nat /\ DOMAIN times = 1 .. n /\ DOMAIN more = 1 .. n + 1
        /\ more[n + 1] = time /\ more # <<>>
        /\ \A k \in 1 .. n : more[k] = times[k] /\ times[k] \in Times
        /\ times = <<>> => DOMAIN times = {}
    OBVIOUS
  <2> HIDE DEF more, n
  <2>2. ToSet(times) \subseteq Times /\ (times = <<>> => ToSet(times) = {})
    BY <2>1 DEF ToSet
  <2>3. 1 .. n + 1 = (1 .. n) \cup {n + 1}
    BY <2>1
  <2>4. ToSet(more) = ToSet(times) \cup {time}
    BY <2>1, <2>3 DEF ToSet
  <2> QED BY <2>1, <2>2, <2>4 DEF more
<1>2. Times \subseteq Int /\ 0 <= time /\ time <= FltMax
  BY ProfilerAssumption
<1>3. CASE times = <<>>
  <2>1. min = FltMax /\ max = 0 /\ ToSet(times) = {}
    BY <1>1, <1>3 DEF ExtremesOf
  <2>2. lo = time /\ hi = time
    BY <2>1, <1>2 DEF FltMax
  <2> HIDE DEF lo, hi
  <2>3. ExtremesOf(lo, hi, Append(times, time))
    BY <2>1, <2>2, <1>1, <1>2 DEF ExtremesOf
  <2> QED BY <2>3 DEF lo, hi
<1>4. CASE times # <<>>
  <2>1. /\ min \in ToSet(times) /\ max \in ToSet(times)
        /\ \A t \in ToSet(times) : min <= t /\ t <= max
    BY <1>4 DEF ExtremesOf
  <2>2. /\ lo \in ToSet(times) \cup {time} /\ hi \in ToSet(times) \cup {time}
        /\ lo <= min /\ lo <= time /\ max <= hi /\ time <= hi
        /\ lo \in Int /\ hi \in Int /\ min \in Int /\ max \in Int
    <3>1. time \in Int /\ min \in Int /\ max \in Int
      BY <2>1, <1>1, <1>2
    <3>2. /\ lo \in ToSet(times) \cup {time} /\ lo \in Int
          /\ lo <= min /\ lo <= time
      <4>1. CASE time < min
        BY <4>1, <3>1
      <4>2. CASE ~(time < min)
        BY <4>2, <3>1, <2>1
      <4> QED BY <4>1, <4>2
    <3>3. /\ hi \in ToSet(times) \cup {time} /\ hi \in Int
          /\ max <= hi /\ time <= hi
      <4>1. CASE time > max
        BY <4>1, <3>1
      <4>2. CASE ~(time > max)
        BY <4>2, <3>1, <2>1
      <4> QED BY <4>1, <4>2
    <3> QED BY <3>1, <3>2, <3>3
  <2> HIDE DEF lo, hi
  <2>3. \A t \in ToSet(times) \cup {time} : lo <= t /\ t <= hi
    <3>1. \A t \in ToSet(times) : t \in Int
      BY <1>1, <1>2
    <3> QED BY <3>1, <2>1, <2>2, <1>2
  <2>4. ExtremesOf(lo, hi, Append(times, time))
    BY <2>2, <2>3, <1>1 DEF ExtremesOf
  <2> QED BY <2>4 DEF lo, hi
<1> QED BY <1>3, <1>4

(* The filled part of a ring holds only what was pushed to it.             *)
LEMMA FilledHoldsItems ==
  ASSUME NEW Items \in SUBSET Int, NEW ring \in Ring(Items),
         NEW items \in Seq(Items), HoldsLatest(ring, items),
         NEW i \in 0 .. ring.cap - 1
  PROVE  ring.window[i] \in ToSet(items)
<1> DEFINE count == Len(items)
           j == IF i < ring.head THEN ring.head - 1 - i
                ELSE ring.head - 1 - i + WindowSize
<1>1. /\ ring.head \in Nat /\ ring.head < WindowSize /\ WindowSize \in Nat
      /\ count \in Nat
      /\ ring.cap = Smaller(WindowSize, count)
      /\ count < WindowSize => ring.head = count
  BY WindowAssumption DEF Ring, Indices, HoldsLatest
<1>2. ring.cap \in Nat /\ ring.cap <= count /\ ring.cap <= WindowSize
  BY <1>1 DEF Smaller
<1>3. j \in 0 .. ring.cap - 1 /\ IndexOf(ring, j) = i
  <2>1. i \in Nat /\ i < ring.cap /\ i < WindowSize
    BY <1>2, <1>1
  <2>2. CASE i < ring.head
    BY <2>1, <2>2, <1>1, <1>2 DEF Smaller, IndexOf
  <2>3. CASE ~(i < ring.head)
    <3>1. ring.cap = WindowSize
      BY <2>1, <2>3, <1>1 DEF Smaller
    <3>2. j = ring.head - 1 - i + WindowSize
      BY <2>3
    <3>3. j \in 0 .. ring.cap - 1 /\ ~(j < ring.head) /\ ring.head - 1 - j < 0
      BY <3>1, <3>2, <2>1, <2>3, <1>1
    <3>4. ring.head - 1 - j + WindowSize = i
      BY <3>2, <2>1, <1>1
    <3> HIDE DEF j
    <3> QED BY <3>3, <3>4 DEF IndexOf
  <2> QED BY <2>2, <2>3
<1> HIDE DEF j
<1>4. ring.window[i] = items[count - j]
  BY <1>3 DEF HoldsLatest
<1>5. count - j \in 1 .. count
  BY <1>1, <1>2, <1>3
<1> QED BY <1>4, <1>5 DEF ToSet

(* At first there are no statistics.                                       *)
LEMMA ExtremesInit == Init => ExtremesExact
BY DEF Init, ExtremesExact

(* Only a scope that closes its node changes its own statistics; a frame   *)
(* that ends creates those of scopes that were never measured.             *)
LEMMA ExtremesStep ==
  ASSUME IInv, ExtremesExact, [Next]_vars
  PROVE  ExtremesExact'
<1>1. CASE UNCHANGED <<stats, measured>>
  BY <1>1 DEF ExtremesExact
<1>2. CASE EndFrame
  <2> DEFINE shown == {nodes[it.idx].id : it \in ToSet(Walk)}
  <2>1. /\ stats' = [id \in DOMAIN stats \cup shown |->
                      IF id \in DOMAIN stats THEN stats[id]
                      ELSE StatsOf(FltMax, 0)]
        /\ measured' = measured
    BY <1>2 DEF EndFrame
  <2> HIDE DEF shown
  <2>2. ASSUME NEW id \in ScopeIds \cap DOMAIN stats'
        PROVE  ExtremesOf(stats'[id].min, stats'[id].max, measured[id])
    <3>1. CASE id \in DOMAIN stats
      BY <3>1, <2>1 DEF ExtremesExact
    <3>2. CASE id \notin DOMAIN stats
      <4>1. stats'[id].min = FltMax /\ stats'[id].max = 0
        BY <3>2, <2>1, <2>2 DEF StatsOf
      <4>2. measured[id] = <<>>
        BY <3>2, <2>2 DEF IInv, RingsHoldTimes
      <4> QED BY <4>1, <4>2 DEF ExtremesOf
    <3> QED BY <3>1, <3>2
  <2> QED BY <2>1, <2>2 DEF ExtremesExact
<1>3. ASSUME NEW time \in Times, CloseScope(time), ~(Len(openNodes) <= 1)
      PROVE  ExtremesExact'
  <2> DEFINE sid == nodes[Last(openNodes)].id
  <2>1. /\ stats' = Stored(sid, time)
        /\ measured' = [measured EXCEPT ![sid] = Append(@, time)]
    BY <1>3 DEF CloseScope
  <2>2. sid \in ScopeIds
    BY <1>3 DEF IInv, OpenNodesHaveScopes, Last
  <2> HIDE DEF sid
  <2>3. measured \in [ScopeIds -> Seq(Times)]
    BY DEF IInv, RingsHoldTimes
  <2>4. /\ measured'[sid] = Append(measured[sid], time)
        /\ \A id \in ScopeIds : id # sid => measured'[id] = measured[id]
        /\ measured[sid] \in Seq(Times)
    BY <2>1, <2>2, <2>3
  <2>5. CASE sid \in DOMAIN stats
    <3> DEFINE s == stats[sid]
    <3>1. /\ DOMAIN stats' = DOMAIN stats
          /\ stats'[sid].min = IF time < s.min THEN time ELSE s.min
          /\ stats'[sid].max = IF time > s.max THEN time ELSE s.max
          /\ \A id \in DOMAIN stats : id # sid => stats'[id] = stats[id]
      BY <2>1, <2>5 DEF Stored
    <3>2. ExtremesOf(s.min, s.max, measured[sid])
      BY <2>2, <2>5 DEF ExtremesExact
    <3> HIDE DEF s
    <3>3. ExtremesOf(stats'[sid].min, stats'[sid].max, measured'[sid])
      BY <3>1, <3>2, <2>4, ExtremesAppend
    <3> QED BY <3>1, <3>3, <2>4 DEF ExtremesExact
  <2>6. CASE sid \notin DOMAIN stats
    <3>1. /\ DOMAIN stats' = DOMAIN stats \cup {sid}
          /\ stats'[sid].min = time /\ stats'[sid].max = time
          /\ \A id \in DOMAIN stats : stats'[id] = stats[id]
      BY <2>1, <2>6 DEF Stored, StatsOf
    <3>2. measured[sid] = <<>>
      BY <2>2, <2>6 DEF IInv, RingsHoldTimes
    <3>3. ToSet(measured'[sid]) = {time} /\ measured'[sid] # <<>>
      BY <3>2, <2>4 DEF ToSet
    <3>4. time \in Int
      BY ProfilerAssumption
    <3>5. ExtremesOf(stats'[sid].min, stats'[sid].max, measured'[sid])
      BY <3>1, <3>3, <3>4 DEF ExtremesOf
    <3> QED BY <3>1, <3>5, <2>4, <2>6 DEF ExtremesExact
  <2> QED BY <2>5, <2>6
<1>4. ASSUME NEW time \in Times, CloseScope(time), Len(openNodes) <= 1
      PROVE  UNCHANGED <<stats, measured>>
  BY <1>4 DEF CloseScope
<1>5. ASSUME (\E id \in ScopeIds : OpenScope(id)) \/ Reset \/ UNCHANGED vars
      PROVE  UNCHANGED <<stats, measured>>
  BY <1>5 DEF OpenScope, Reset, vars
<1> QED BY <1>1, <1>2, <1>3, <1>4, <1>5 DEF Next

(* What is averaged was measured.                                          *)
LEMMA BetweenExtremes ==
  ASSUME IInv, ExtremesExact
  PROVE  AveragedBetween
<1>1. ASSUME NEW id \in ScopeIds \cap DOMAIN stats,
             NEW i \in 0 .. stats[id].movingAve.cap - 1
      PROVE  /\ stats[id].min <= stats[id].movingAve.window[i]
             /\ stats[id].movingAve.window[i] <= stats[id].max
  <2> DEFINE ring == stats[id].movingAve
             all  == measured[id]
  <2>1. /\ ring \in Ring(Times \cup {0}) /\ all \in Seq(Times)
        /\ \/ HoldsLatest(ring, all)
           \/ all # <<>> /\ HoldsLatest(ring, Tail(all))
        /\ ExtremesOf(stats[id].min, stats[id].max, all)
    BY DEF IInv, RingsHoldTimes, AveragesLatest, ExtremesExact
  <2> HIDE DEF ring, all
  <2>2. Times \cup {0} \in SUBSET Int
    BY ProfilerAssumption
  <2>3. all \in Seq(Times \cup {0})
    BY <2>1, WiderSequence
  <2>4. ring.window[i] \in ToSet(all)
    <3>1. CASE HoldsLatest(ring, all)
      BY <3>1, <2>1, <2>2, <2>3, <1>1, FilledHoldsItems DEF ring
    <3>2. CASE all # <<>> /\ HoldsLatest(ring, Tail(all))
      <4>1. Tail(all) \in Seq(Times \cup {0})
        BY <3>2, <2>3
      <4>2. ring.window[i] \in ToSet(Tail(all))
        BY <3>2, <4>1, <2>1, <2>2, <1>1, FilledHoldsItems DEF ring
      <4>3. ToSet(Tail(all)) \subseteq ToSet(all)
        BY <3>2, <2>3 DEF ToSet
      <4> QED BY <4>2, <4>3
    <3> QED BY <3>1, <3>2, <2>1
  <2>5. all # <<>>
    BY <2>4 DEF ToSet
  <2> QED BY <2>1, <2>4, <2>5 DEF ExtremesOf, ring
<1> QED BY <1>1 DEF AveragedBetween

LEMMA ExtremesInvariant == Spec => [](IInv /\ ExtremesExact)
<1>1. Init => IInv /\ ExtremesExact
  BY InitIInv, ExtremesInit
<1>2. IInv /\ ExtremesExact /\ [Next]_vars => (IInv /\ ExtremesExact)'
  BY NextIInv, ExtremesStep
<1> QED BY <1>1, <1>2, PTL DEF Spec

(* profiler.cpp:299-314: what is averaged lies between the extremes shown  *)
(* beside the average, from the first time a scope is shown.               *)
THEOREM AveragesBetweenExtremes == Spec => []AveragedBetween
<1>1. IInv /\ ExtremesExact => AveragedBetween
  BY BetweenExtremes
<1> QED BY <1>1, ExtremesInvariant, PTL

-----------------------------------------------------------------------------
(* The shape of the tree.  p, f, l and s are the links of its n nodes (the *)
(* parent, the first and the last child, the next sibling), d the nesting  *)
(* of their scopes: the nodes are in the order of a preorder walk.         *)

(* A parent comes before its child, and between them all is nested deeper. *)
ParentsAbove(n, p, d) ==
  /\ p[Root] = InvalidNodeIdx
  /\ \A i \in 2 .. n :
       /\ p[i] \in 1 .. i - 1 /\ d[p[i]] = d[i] - 1 /\ d[Root] < d[i]
       /\ \A k \in p[i] + 1 .. i : d[k] >= d[i]

FirstChildNext(n, p, f) ==
  \A i \in 1 .. n :
    f[i] = IF i < n /\ p[i + 1] = i THEN i + 1 ELSE InvalidNodeIdx

LastChildLast(n, p, f, l) ==
  \A i \in 1 .. n :
    \/ /\ l[i] = InvalidNodeIdx /\ f[i] = InvalidNodeIdx
       /\ \A j \in i + 1 .. n : p[j] # i
    \/ /\ l[i] \in i + 1 .. n /\ f[i] # InvalidNodeIdx /\ p[l[i]] = i
       /\ \A j \in l[i] + 1 .. n : p[j] # i

(* A next sibling is the first node after the subtree.                     *)
SiblingNext(n, p, d, s) ==
  \A i \in 1 .. n :
    \/ /\ s[i] = InvalidNodeIdx
       /\ \A j \in i + 1 .. n : p[j] # p[i]
    \/ /\ s[i] \in i + 1 .. n /\ p[s[i]] = p[i]
       /\ \A k \in i + 1 .. s[i] - 1 : d[k] > d[i]

Shape(n, p, d, f, l, s) ==
  /\ ParentsAbove(n, p, d) /\ FirstChildNext(n, p, f)
  /\ LastChildLast(n, p, f, l) /\ SiblingNext(n, p, d, s)

(* A node one level below q, with nothing as high as q between, is a child *)
(* of q.                                                                   *)
LEMMA ChildOf ==
  ASSUME NEW n \in Nat \ {0}, NEW p, NEW d \in [1 .. n -> Int],
         ParentsAbove(n, p, d),
         NEW q \in 1 .. n, NEW j \in q + 1 .. n,
         \A k \in q + 1 .. j : d[k] > d[q],
         d[j] = d[q] + 1
  PROVE  p[j] = q
<1> DEFINE r == p[j]
<1>1. /\ r \in 1 .. j - 1 /\ d[r] = d[j] - 1
      /\ \A k \in r + 1 .. j : d[k] >= d[j]
  BY DEF ParentsAbove
<1> HIDE DEF r
<1>2. ~(r < q)
  <2> SUFFICES ASSUME r < q PROVE FALSE
    OBVIOUS
  <2>1. q \in r + 1 .. j
    BY <1>1
  <2> QED BY <2>1, <1>1
<1>3. ~(q < r)
  <2> SUFFICES ASSUME q < r PROVE FALSE
    OBVIOUS
  <2>1. r \in q + 1 .. j
    BY <1>1
  <2>2. d[r] > d[q] /\ d[r] \in Int /\ d[q] \in Int
    BY <2>1
  <2> QED BY <2>2, <1>1
<1> QED BY <1>1, <1>2, <1>3 DEF r

(* The node after one that is nested less deeply than all that follow it   *)
(* is its child.                                                           *)
LEMMA NextIsChild ==
  ASSUME NEW n \in Nat \ {0}, NEW p, NEW d \in [1 .. n -> Int],
         ParentsAbove(n, p, d),
         NEW q \in 1 .. n, q < n, d[q + 1] > d[q]
  PROVE  p[q + 1] = q /\ d[q + 1] = d[q] + 1
<1> DEFINE r == p[q + 1]
<1>1. /\ r \in 1 .. q /\ d[r] = d[q + 1] - 1
      /\ \A k \in r + 1 .. q + 1 : d[k] >= d[q + 1]
  BY DEF ParentsAbove
<1> HIDE DEF r
<1>2. r = q
  <2> SUFFICES ASSUME r < q PROVE FALSE
    BY <1>1
  <2>1. q \in r + 1 .. q + 1
    BY <1>1
  <2> QED BY <2>1, <1>1
<1> QED BY <1>1, <1>2 DEF r

-----------------------------------------------------------------------------
(* A new node.                                                             *)

(* w is v with one value more.                                             *)
Longer(n, v, x, w) ==
  w[n + 1] = x /\ \A i \in 1 .. n : w[i] = v[i]

(* Nothing after q is nested as high as q.                                 *)
Innermost(n, d, q) == \A j \in q + 1 .. n : d[j] > d[q]

(* The links of Linked, with the new node.                                 *)
FirstLinked(n, f, q, ff) ==
  /\ ff[n + 1] = InvalidNodeIdx
  /\ \A i \in 1 .. n :
       ff[i] = IF i = q /\ f[q] = InvalidNodeIdx THEN n + 1 ELSE f[i]

LastLinked(n, l, q, ll) ==
  /\ ll[n + 1] = InvalidNodeIdx
  /\ \A i \in 1 .. n : ll[i] = IF i = q THEN n + 1 ELSE l[i]

SiblingLinked(n, f, l, s, q, ss) ==
  /\ ss[n + 1] = InvalidNodeIdx
  /\ \A i \in 1 .. n :
       ss[i] = IF f[q] # InvalidNodeIdx /\ i = l[q] THEN n + 1 ELSE s[i]

(* The new node comes after its parent, below all between them.            *)
LEMMA ParentsGrow ==
  ASSUME NEW n \in Nat \ {0}, NEW p, NEW d \in [1 .. n -> Int],
         ParentsAbove(n, p, d),
         NEW q \in 1 .. n, Innermost(n, d, q),
         NEW pp, Longer(n, p, q, pp), NEW dd, Longer(n, d, d[q] + 1, dd)
  PROVE  ParentsAbove(n + 1, pp, dd)
<1> USE DEF Root, InvalidNodeIdx
<1>0. /\ \A i \in 1 .. n : pp[i] = p[i] /\ dd[i] = d[i] /\ d[i] \in Int
      /\ pp[n + 1] = q /\ dd[n + 1] = d[q] + 1
  BY DEF Longer
<1>1. ASSUME NEW i \in 2 .. n
      PROVE  /\ pp[i] \in 1 .. i - 1 /\ dd[pp[i]] = dd[i] - 1
             /\ dd[1] < dd[i]
             /\ \A k \in pp[i] + 1 .. i : dd[k] >= dd[i]
  <2>1. /\ p[i] \in 1 .. i - 1 /\ d[p[i]] = d[i] - 1 /\ d[1] < d[i]
        /\ \A k \in p[i] + 1 .. i : d[k] >= d[i]
    BY DEF ParentsAbove
  <2>2. /\ i \in 1 .. n /\ p[i] \in 1 .. n /\ 1 \in 1 .. n
        /\ \A k \in p[i] + 1 .. i : k \in 1 .. n
    BY <2>1
  <2> QED BY <2>1, <2>2, <1>0
<1>2. /\ pp[n + 1] \in 1 .. n /\ dd[pp[n + 1]] = dd[n + 1] - 1
      /\ dd[1] < dd[n + 1]
      /\ \A k \in pp[n + 1] + 1 .. n + 1 : dd[k] >= dd[n + 1]
  <2>1. dd[q] = d[q] /\ d[q] \in Int /\ dd[1] = d[1] /\ d[1] \in Int
    BY <1>0
  <2>2. d[1] <= d[q]
    <3>1. q = 1 \/ q \in 2 .. n
      OBVIOUS
    <3>2. CASE q \in 2 .. n
      <4>1. d[1] < d[q]
        BY <3>2 DEF ParentsAbove
      <4> QED BY <4>1, <2>1
    <3> QED BY <3>1, <3>2, <2>1
  <2>3. ASSUME NEW k \in q + 1 .. n + 1 PROVE dd[k] >= d[q] + 1
    <3>1. CASE k = n + 1
      BY <3>1, <2>1, <1>0
    <3>2. CASE k # n + 1
      <4>1. k \in q + 1 .. n /\ k \in 1 .. n
        BY <3>2
      <4>2. dd[k] = d[k] /\ d[k] > d[q] /\ d[k] \in Int
        BY <4>1, <1>0 DEF Innermost
      <4> QED BY <4>2, <2>1
    <3> QED BY <3>1, <3>2
  <2> QED BY <2>1, <2>2, <2>3, <1>0
<1>3. pp[1] = 0
  <2>1. p[1] = 0 /\ 1 \in 1 .. n
    BY DEF ParentsAbove
  <2> QED BY <2>1, <1>0
<1>4. \A i \in 2 .. n + 1 : i \in 2 .. n \/ i = n + 1
  OBVIOUS
<1>5. (n + 1) - 1 = n
  OBVIOUS
<1> QED BY <1>1, <1>2, <1>3, <1>4, <1>5 DEF ParentsAbove

(* A parent that had no child is the node just before its first.           *)
LEMMA FirstGrows ==
  ASSUME NEW n \in Nat \ {0}, NEW p, NEW d \in [1 .. n -> Int], NEW f,
         ParentsAbove(n, p, d), FirstChildNext(n, p, f),
         NEW q \in 1 .. n, Innermost(n, d, q),
         NEW pp, Longer(n, p, q, pp), NEW ff, FirstLinked(n, f, q, ff)
  PROVE  FirstChildNext(n + 1, pp, ff)
<1> USE DEF Root, InvalidNodeIdx
<1>0. /\ \A i \in 1 .. n : pp[i] = p[i]
      /\ \A i \in 1 .. n : ff[i] = IF i = q /\ f[q] = 0 THEN n + 1 ELSE f[i]
      /\ pp[n + 1] = q /\ ff[n + 1] = 0
  BY DEF Longer, FirstLinked
<1>1. ASSUME NEW i \in 1 .. n, i < n
      PROVE  ff[i] = IF pp[i + 1] = i THEN i + 1 ELSE 0
  <2>1. f[i] = IF p[i + 1] = i THEN i + 1 ELSE 0
    BY <1>1 DEF FirstChildNext
  <2>2. pp[i + 1] = p[i + 1]
    <3>1. i + 1 \in 1 .. n
      BY <1>1
    <3> QED BY <3>1, <1>0
  <2>3. CASE i = q
    <3>1. d[q + 1] > d[q]
      <4>1. q + 1 \in q + 1 .. n
        BY <2>3, <1>1
      <4> QED BY <4>1 DEF Innermost
    <3>2. p[i + 1] = i
      BY <2>3, <1>1, <3>1, NextIsChild
    <3>3. f[i] # 0
      BY <2>1, <3>2
    <3> QED BY <2>1, <2>2, <2>3, <3>2, <3>3, <1>0
  <2>4. CASE i # q
    BY <2>1, <2>2, <2>4, <1>0
  <2> QED BY <2>3, <2>4
<1>2. ff[n] = IF pp[n + 1] = n THEN n + 1 ELSE 0
  <2>1. f[n] = 0 /\ n \in 1 .. n
    BY DEF FirstChildNext
  <2> QED BY <2>1, <1>0
<1>3. ASSUME NEW i \in 1 .. n + 1
      PROVE  ff[i] = IF i < n + 1 /\ pp[i + 1] = i THEN i + 1 ELSE 0
  <2>1. (i \in 1 .. n /\ i < n) \/ i = n \/ i = n + 1
    OBVIOUS
  <2>2. CASE i \in 1 .. n /\ i < n
    BY <2>2, <1>1
  <2>3. CASE i = n
    BY <2>3, <1>2
  <2>4. CASE i = n + 1
    BY <2>4, <1>0
  <2> QED BY <2>1, <2>2, <2>3, <2>4
<1> QED BY <1>3 DEF FirstChildNext

(* The new node is the last child of its parent; it has none itself.       *)
LEMMA LastGrows ==
  ASSUME NEW n \in Nat \ {0}, NEW p, NEW f, NEW l,
         LastChildLast(n, p, f, l),
         NEW q \in 1 .. n,
         NEW pp, Longer(n, p, q, pp), NEW ff, FirstLinked(n, f, q, ff),
         NEW ll, LastLinked(n, l, q, ll)
  PROVE  LastChildLast(n + 1, pp, ff, ll)
<1> USE DEF InvalidNodeIdx
<1>0. /\ \A i \in 1 .. n : pp[i] = p[i]
      /\ \A i \in 1 .. n : ff[i] = IF i = q /\ f[q] = 0 THEN n + 1 ELSE f[i]
      /\ \A i \in 1 .. n : ll[i] = IF i = q THEN n + 1 ELSE l[i]
      /\ pp[n + 1] = q /\ ff[n + 1] = 0 /\ ll[n + 1] = 0
  BY DEF Longer, FirstLinked, LastLinked
<1> DEFINE None(i) == /\ ll[i] = 0 /\ ff[i] = 0
                      /\ \A j \in i + 1 .. n + 1 : pp[j] # i
           Some(i) == /\ ll[i] \in i + 1 .. n + 1 /\ ff[i] # 0
                      /\ pp[ll[i]] = i
                      /\ \A j \in ll[i] + 1 .. n + 1 : pp[j] # i
<1>1. ASSUME NEW i \in 1 .. n, i # q
      PROVE  None(i) \/ Some(i)
  <2>1. ll[i] = l[i] /\ ff[i] = f[i]
    BY <1>1, <1>0
  <2>2. ASSUME NEW j \in 1 .. n + 1, j \in 1 .. n => p[j] # i
        PROVE  pp[j] # i
    <3>1. j \in 1 .. n \/ j = n + 1
      OBVIOUS
    <3> QED BY <3>1, <2>2, <1>0, <1>1
  <2>3. CASE l[i] = 0 /\ f[i] = 0 /\ \A j \in i + 1 .. n : p[j] # i
    <3>1. ASSUME NEW j \in i + 1 .. n + 1 PROVE pp[j] # i
      <4>1. j \in 1 .. n + 1 /\ (j \in 1 .. n => j \in i + 1 .. n)
        OBVIOUS
      <4> QED BY <4>1, <2>2, <2>3
    <3> QED BY <3>1, <2>1, <2>3
  <2>4. CASE /\ l[i] \in i + 1 .. n /\ f[i] # 0 /\ p[l[i]] = i
             /\ \A j \in l[i] + 1 .. n : p[j] # i
    <3>1. ASSUME NEW j \in l[i] + 1 .. n + 1 PROVE pp[j] # i
      <4>1. l[i] \in i + 1 .. n
        BY <2>4
      <4>2. j \in 1 .. n + 1 /\ (j \in 1 .. n => j \in l[i] + 1 .. n)
        BY <4>1
      <4> QED BY <4>2, <2>2, <2>4
    <3>2. l[i] \in 1 .. n /\ l[i] \in i + 1 .. n + 1
      BY <2>4
    <3>3. pp[l[i]] = i
      BY <3>2, <2>4, <1>0
    <3> QED BY <3>1, <3>2, <3>3, <2>1, <2>4
  <2> QED BY <2>3, <2>4 DEF LastChildLast
<1>2. Some(q)
  <2>1. ll[q] = n + 1
    BY <1>0
  <2>2. ff[q] # 0
    BY <1>0
  <2>3. \A j \in ll[q] + 1 .. n + 1 : pp[j] # q
    BY <2>1
  <2>4. n + 1 \in q + 1 .. n + 1
    OBVIOUS
  <2> QED BY <2>1, <2>2, <2>3, <2>4, <1>0
<1>3. None(n + 1)
  <2>1. (n + 1) + 1 .. n + 1 = {}
    OBVIOUS
  <2> QED BY <2>1, <1>0
<1>4. \A i \in 1 .. n + 1 : i \in 1 .. n \/ i = n + 1
  OBVIOUS
<1>5. \A i \in 1 .. n + 1 : None(i) \/ Some(i)
  <2> HIDE DEF None, Some
  <2> QED BY <1>1, <1>2, <1>3, <1>4
<1> QED BY <1>5 DEF LastChildLast

(* Only the last child so far gets a sibling: all after it is deeper.      *)
LEMMA SiblingGrows ==
  ASSUME NEW n \in Nat \ {0}, NEW p, NEW d \in [1 .. n -> Int],
         NEW f, NEW l, NEW s,
         ParentsAbove(n, p, d), LastChildLast(n, p, f, l),
         SiblingNext(n, p, d, s),
         NEW q \in 1 .. n, Innermost(n, d, q),
         NEW pp, Longer(n, p, q, pp), NEW dd, Longer(n, d, d[q] + 1, dd),
         NEW ss, SiblingLinked(n, f, l, s, q, ss)
  PROVE  SiblingNext(n + 1, pp, dd, ss)
<1> USE DEF Root, InvalidNodeIdx
<1>0. /\ \A i \in 1 .. n : pp[i] = p[i] /\ dd[i] = d[i] /\ d[i] \in Int
      /\ \A i \in 1 .. n :
           ss[i] = IF f[q] # 0 /\ i = l[q] THEN n + 1 ELSE s[i]
      /\ pp[n + 1] = q /\ ss[n + 1] = 0
  BY DEF Longer, SiblingLinked
<1> DEFINE None(i) == /\ ss[i] = 0
                      /\ \A j \in i + 1 .. n + 1 : pp[j] # pp[i]
           Some(i) == /\ ss[i] \in i + 1 .. n + 1 /\ pp[ss[i]] = pp[i]
                      /\ \A k \in i + 1 .. ss[i] - 1 : dd[k] > dd[i]
<1>1. None(n + 1)
  <2>1. (n + 1) + 1 .. n + 1 = {}
    OBVIOUS
  <2> QED BY <2>1, <1>0
<1>2. ASSUME NEW i \in 1 .. n, ~(f[q] # 0 /\ i = l[q])
      PROVE  None(i) \/ Some(i)
  <2>1. ss[i] = s[i] /\ pp[i] = p[i] /\ dd[i] = d[i]
    BY <1>2, <1>0
  <2>2. CASE s[i] = 0 /\ \A j \in i + 1 .. n : p[j] # p[i]
    <3>1. p[i] # q
      <4> SUFFICES ASSUME p[i] = q PROVE FALSE
        OBVIOUS
      <4>1. i \in q + 1 .. n
        <5>1. p[1] = 0
          BY DEF ParentsAbove
        <5>2. i \in 2 .. n
          BY <5>1
        <5>3. p[i] \in 1 .. i - 1
          BY <5>2 DEF ParentsAbove
        <5> QED BY <5>3
      <4>2. CASE \A j \in q + 1 .. n : p[j] # q
        BY <4>1, <4>2
      <4>3. CASE /\ l[q] \in q + 1 .. n /\ f[q] # 0 /\ p[l[q]] = q
                 /\ \A j \in l[q] + 1 .. n : p[j] # q
        <5>1. i # l[q] /\ ~(i \in l[q] + 1 .. n)
          BY <4>3, <1>2
        <5>2. l[q] \in q + 1 .. n
          BY <4>3
        <5>3. l[q] \in i + 1 .. n
          BY <5>1, <5>2, <4>1
        <5> QED BY <5>3, <4>3, <2>2
      <4> QED BY <4>2, <4>3 DEF LastChildLast
    <3>2. ASSUME NEW j \in i + 1 .. n + 1 PROVE pp[j] # pp[i]
      <4>1. (j \in i + 1 .. n /\ j \in 1 .. n) \/ j = n + 1
        OBVIOUS
      <4> QED BY <4>1, <3>1, <2>1, <2>2, <1>0
    <3> QED BY <3>2, <2>1, <2>2
  <2>3. CASE /\ s[i] \in i + 1 .. n /\ p[s[i]] = p[i]
             /\ \A k \in i + 1 .. s[i] - 1 : d[k] > d[i]
    <3>0. s[i] \in i + 1 .. n
      BY <2>3
    <3>1. \A k \in i + 1 .. s[i] - 1 : k \in 1 .. n
      BY <3>0
    <3>2. s[i] \in 1 .. n /\ s[i] \in i + 1 .. n + 1
      BY <3>0
    <3>3. pp[s[i]] = p[s[i]]
      BY <3>2, <1>0
    <3>4. \A k \in i + 1 .. s[i] - 1 : dd[k] > dd[i]
      BY <3>1, <2>1, <2>3, <1>0
    <3> QED BY <3>2, <3>3, <3>4, <2>1, <2>3
  <2> QED BY <2>2, <2>3 DEF SiblingNext
<1>3. ASSUME NEW i \in 1 .. n, f[q] # 0, i = l[q]
      PROVE  Some(i)
  <2>1. /\ i \in q + 1 .. n /\ p[i] = q
        /\ \A j \in i + 1 .. n : p[j] # q
    BY <1>3 DEF LastChildLast
  <2>2. ss[i] = n + 1 /\ pp[i] = q /\ dd[i] = d[i]
    BY <1>3, <2>1, <1>0
  <2>3. d[q] = d[i] - 1 /\ d[q] \in Int /\ d[i] \in Int
    <3>1. i \in 2 .. n
      BY <2>1
    <3> QED BY <3>1, <2>1 DEF ParentsAbove
  <2>4. ASSUME NEW k \in i + 1 .. n PROVE dd[k] > dd[i]
    <3>1. k \in q + 1 .. n /\ k \in 1 .. n
      BY <2>1
    <3>2. dd[k] = d[k] /\ d[k] > d[q] /\ d[k] \in Int
      BY <3>1, <1>0 DEF Innermost
    <3>3. d[k] # d[q] + 1
      <4> SUFFICES ASSUME d[k] = d[q] + 1 PROVE FALSE
        OBVIOUS
      <4>1. \A m \in q + 1 .. k : d[m] > d[q]
        <5>1. \A m \in q + 1 .. k : m \in q + 1 .. n
          BY <3>1
        <5> QED BY <5>1 DEF Innermost
      <4>2. p[k] = q
        BY <3>1, <4>1, ChildOf
      <4> QED BY <4>2, <2>1
    <3> QED BY <3>2, <3>3, <2>2, <2>3
  <2>5. n + 1 \in i + 1 .. n + 1 /\ (n + 1) - 1 = n
    OBVIOUS
  <2> QED BY <2>2, <2>4, <2>5, <1>0
<1>4. \A i \in 1 .. n + 1 : i \in 1 .. n \/ i = n + 1
  OBVIOUS
<1>5. \A i \in 1 .. n + 1 : None(i) \/ Some(i)
  <2> HIDE DEF None, Some
  <2> QED BY <1>1, <1>2, <1>3, <1>4
<1> QED BY <1>5 DEF SiblingNext

-----------------------------------------------------------------------------
(* The walk over a tree of this shape.                                     *)

(* Of some naturals one is the least.                                      *)
LEMMA LeastOf ==
  ASSUME NEW S \in SUBSET Nat, S # {}
  PROVE  \E m \in S : \A k \in S : m <= k
<1>1. PICK m \in S : \A k \in S : ~(<<k, m>> \in OpToRel(<, Nat))
  BY NatLessThanWellFounded, WFMin, Zenon
<1>2. ASSUME NEW k \in S PROVE m <= k
  <2>1. ~(k < m)
    BY <1>1 DEF OpToRel
  <2> QED BY <2>1
<1> QED BY <1>2

(* x is the first node after i that is not in the subtree of i, if any.    *)
AfterSubtree(n, d, i, x) ==
  \/ x = InvalidNodeIdx /\ \A j \in i + 1 .. n : d[j] > d[i]
  \/ /\ x \in i + 1 .. n /\ d[x] <= d[i]
     /\ \A j \in i + 1 .. x - 1 : d[j] > d[i]

LEMMA AfterSubtreeExists ==
  ASSUME NEW n \in Nat, NEW d \in [1 .. n -> Int], NEW i \in 1 .. n
  PROVE  \E x \in 0 .. n : AfterSubtree(n, d, i, x)
<1> DEFINE S == {j \in i + 1 .. n : d[j] <= d[i]}
<1>1. CASE S = {}
  <2>1. \A j \in i + 1 .. n : d[j] \in Int /\ d[i] \in Int
    OBVIOUS
  <2>2. AfterSubtree(n, d, i, 0)
    BY <1>1, <2>1 DEF AfterSubtree, InvalidNodeIdx
  <2> QED BY <2>2
<1>2. CASE S # {}
  <2>1. PICK x \in S : \A k \in S : x <= k
    <3>1. S \in SUBSET Nat
      OBVIOUS
    <3> HIDE DEF S
    <3> QED BY <3>1, <1>2, LeastOf
  <2>2. \A j \in i + 1 .. x - 1 : j \notin S
    BY <2>1
  <2>3. \A j \in i + 1 .. x - 1 : j \in i + 1 .. n /\ d[j] \in Int /\ d[i] \in Int
    BY <2>1
  <2>4. AfterSubtree(n, d, i, x)
    BY <2>1, <2>2, <2>3 DEF AfterSubtree
  <2> QED BY <2>1, <2>4
<1> QED BY <1>1, <1>2

LEMMA AfterSubtreeUnique ==
  ASSUME NEW n \in Nat, NEW d \in [1 .. n -> Int], NEW i \in 1 .. n,
         NEW x, AfterSubtree(n, d, i, x), NEW y, AfterSubtree(n, d, i, y)
  PROVE  x = y
<1> DEFINE Ends(z) == /\ z \in i + 1 .. n /\ d[z] <= d[i]
                      /\ \A j \in i + 1 .. z - 1 : d[j] > d[i]
           None(z) == z = InvalidNodeIdx /\ \A j \in i + 1 .. n : d[j] > d[i]
<1>1. (None(x) \/ Ends(x)) /\ (None(y) \/ Ends(y))
  BY DEF AfterSubtree
<1>2. ASSUME NEW v, NEW w, Ends(v), None(w) PROVE FALSE
  <2>1. v \in 1 .. n /\ v \in i + 1 .. n /\ d[v] <= d[i] /\ d[v] > d[i]
    BY <1>2
  <2>2. d[v] \in Int /\ d[i] \in Int
    BY <2>1
  <2> QED BY <2>1, <2>2
<1>3. ASSUME NEW v, NEW w, Ends(v), Ends(w), v < w PROVE FALSE
  <2>1. v \in i + 1 .. w - 1 /\ v \in 1 .. n
    BY <1>3
  <2>2. d[v] <= d[i] /\ d[v] > d[i] /\ d[v] \in Int /\ d[i] \in Int
    BY <2>1, <1>3
  <2> QED BY <2>2
<1>4. \A z : Ends(z) => z \in Int
  OBVIOUS
<1> HIDE DEF Ends
<1>5. CASE Ends(x) /\ Ends(y)
  <2>1. x \in Int /\ y \in Int /\ ~(x < y) /\ ~(y < x)
    BY <1>3, <1>4, <1>5
  <2> QED BY <2>1
<1> QED BY <1>1, <1>2, <1>5

(* A sibling is what comes after a subtree; after that of a last child     *)
(* comes what comes after its parent's, and nothing after that of the root.*)
LEMMA AfterSubtreeOf ==
  ASSUME NEW n \in Nat \ {0}, NEW p, NEW d \in [1 .. n -> Int], NEW s,
         ParentsAbove(n, p, d), SiblingNext(n, p, d, s),
         NEW i \in 1 .. n, NEW x, AfterSubtree(n, d, i, x)
  PROVE  /\ s[i] # InvalidNodeIdx => x = s[i] /\ d[x] = d[i]
         /\ s[i] = InvalidNodeIdx /\ p[i] = InvalidNodeIdx =>
              x = InvalidNodeIdx
         /\ s[i] = InvalidNodeIdx /\ p[i] # InvalidNodeIdx =>
              /\ p[i] \in 1 .. i - 1 /\ d[p[i]] = d[i] - 1
              /\ AfterSubtree(n, d, p[i], x)
<1> USE DEF Root, InvalidNodeIdx
<1>0. \A j \in 1 .. n : d[j] \in Int
  OBVIOUS
<1>1. /\ p[1] = 0
      /\ \A j \in 2 .. n : /\ p[j] \in 1 .. j - 1 /\ d[p[j]] = d[j] - 1
                           /\ d[1] < d[j]
                           /\ \A k \in p[j] + 1 .. j : d[k] >= d[j]
  BY DEF ParentsAbove
<1>2. ASSUME s[i] # 0 PROVE x = s[i] /\ d[x] = d[i]
  <2>1. /\ s[i] \in i + 1 .. n /\ p[s[i]] = p[i]
        /\ \A k \in i + 1 .. s[i] - 1 : d[k] > d[i]
    BY <1>2 DEF SiblingNext
  <2>2. d[s[i]] = d[i]
    <3>1. s[i] \in 2 .. n
      BY <2>1
    <3>2. i \in 2 .. n
      <4>1. p[s[i]] # 0
        <5>1. p[s[i]] \in 1 .. s[i] - 1
          BY <3>1, <1>1
        <5> QED BY <5>1
      <4>2. i # 1
        BY <4>1, <2>1, <1>1
      <4> QED BY <4>2
    <3>3. d[p[i]] = d[i] - 1
      BY <3>2, <1>1
    <3>4. d[p[s[i]]] = d[s[i]] - 1
      BY <3>1, <1>1
    <3>5. d[i] \in Int /\ d[s[i]] \in Int
      BY <3>1, <1>0
    <3> QED BY <3>3, <3>4, <3>5, <2>1
  <2>3. x = s[i]
    <3>1. ~(x = 0 /\ \A j \in i + 1 .. n : d[j] > d[i])
      BY <2>1, <2>2, <1>0
    <3>2. /\ x \in i + 1 .. n /\ d[x] <= d[i]
          /\ \A j \in i + 1 .. x - 1 : d[j] > d[i]
      BY <3>1 DEF AfterSubtree
    <3>3. ~(x < s[i])
      <4> SUFFICES ASSUME x < s[i] PROVE FALSE
        OBVIOUS
      <4>1. x \in i + 1 .. s[i] - 1
        BY <2>1, <3>2
      <4>2. d[x] > d[i] /\ d[x] \in Int /\ d[i] \in Int
        BY <4>1, <2>1, <3>2
      <4> QED BY <4>2, <3>2
    <3>4. ~(s[i] < x)
      <4> SUFFICES ASSUME s[i] < x PROVE FALSE
        OBVIOUS
      <4>1. s[i] \in i + 1 .. x - 1
        BY <2>1, <3>2
      <4>2. d[s[i]] > d[i] /\ d[i] \in Int
        BY <4>1, <3>2
      <4> QED BY <4>2, <2>2
    <3> QED BY <3>2, <3>3, <3>4, <2>1
  <2> QED BY <2>2, <2>3
<1>3. ASSUME s[i] = 0, p[i] = 0 PROVE x = 0
  <2>1. i = 1
    BY <1>1, <1>3
  <2>2. ~(x \in i + 1 .. n /\ d[x] <= d[i])
    <3> SUFFICES ASSUME x \in 2 .. n, d[x] <= d[1] PROVE FALSE
      BY <2>1
    <3>1. d[1] < d[x] /\ d[1] \in Int /\ d[x] \in Int
      BY <1>0, <1>1
    <3> QED BY <3>1
  <2> QED BY <2>2 DEF AfterSubtree
<1>4. ASSUME s[i] = 0, p[i] # 0
      PROVE  /\ p[i] \in 1 .. i - 1 /\ d[p[i]] = d[i] - 1
             /\ AfterSubtree(n, d, p[i], x)
  <2> DEFINE q == p[i]
  <2>1. i \in 2 .. n
    BY <1>1, <1>4
  <2>2. /\ q \in 1 .. i - 1 /\ d[q] = d[i] - 1
        /\ \A k \in q + 1 .. i : d[k] >= d[i]
    BY <2>1, <1>1
  <2>3. \A j \in i + 1 .. n : p[j] # q
    BY <1>4 DEF SiblingNext
  <2> HIDE DEF q
  <2>4. q \in 1 .. n /\ d[q] \in Int /\ d[i] \in Int
    BY <2>2, <1>0
  <2>5. ASSUME NEW j \in q + 1 .. n, j <= i \/ d[j] > d[i]
        PROVE  d[j] > d[q]
    <3>1. j \in 1 .. n /\ (j \in q + 1 .. i \/ d[j] > d[i])
      BY <2>5, <2>2
    <3>2. d[j] \in Int /\ d[j] >= d[i]
      BY <3>1, <2>2, <2>4, <1>0
    <3> QED BY <3>2, <2>2, <2>4
  <2>6. AfterSubtree(n, d, q, x)
    <3>1. CASE x = 0 /\ \A j \in i + 1 .. n : d[j] > d[i]
      <4>1. \A j \in q + 1 .. n : j <= i \/ j \in i + 1 .. n
        OBVIOUS
      <4>2. \A j \in q + 1 .. n : d[j] > d[q]
        BY <4>1, <3>1, <2>5
      <4> QED BY <4>2, <3>1 DEF AfterSubtree
    <3>2. CASE /\ x \in i + 1 .. n /\ d[x] <= d[i]
               /\ \A j \in i + 1 .. x - 1 : d[j] > d[i]
      <4>0. x \in i + 1 .. n /\ x \in q + 1 .. n /\ x \in 1 .. n /\ d[x] \in Int
        BY <3>2, <2>2, <1>0
      <4>1. ASSUME NEW j \in q + 1 .. x - 1 PROVE d[j] > d[q]
        <5>1. j \in q + 1 .. n /\ (j <= i \/ j \in i + 1 .. x - 1)
          BY <4>0
        <5> QED BY <5>1, <3>2, <2>5
      <4>2. d[x] <= d[q]
        <5> SUFFICES ASSUME d[x] > d[q] PROVE FALSE
          BY <4>0, <2>4
        <5>1. d[x] = d[q] + 1
          BY <4>0, <3>2, <2>2, <2>4
        <5>2. ASSUME NEW k \in q + 1 .. x PROVE d[k] > d[q]
          <6>1. k \in q + 1 .. x - 1 \/ k = x
            BY <4>0, <2>2
          <6>2. CASE k = x
            BY <6>2, <5>1, <2>4
          <6>3. CASE k \in q + 1 .. x - 1
            BY <6>3, <4>1
          <6> QED BY <6>1, <6>2, <6>3
        <5>3. p[x] = q
          <6>1. x \in q + 1 .. n /\ q \in 1 .. n
            BY <4>0, <2>4
          <6>2. \A k \in q + 1 .. x : d[k] > d[q]
            BY <5>2
          <6> DEFINE r == p[x]
          <6>3. /\ r \in 1 .. x - 1 /\ d[r] = d[x] - 1
                /\ \A k \in r + 1 .. x : d[k] >= d[x]
            BY <6>1, <1>1
          <6> HIDE DEF r
          <6>4. ~(r < q)
            <7>1. r < q => q \in r + 1 .. x
              BY <6>1, <6>3
            <7> QED BY <7>1, <6>3, <5>1, <2>4
          <6>5. ~(r > q)
            <7>1. r > q => r \in q + 1 .. x
              BY <6>1, <6>3
            <7> QED BY <7>1, <6>2, <6>3, <5>1, <2>4
          <6> QED BY <6>1, <6>3, <6>4, <6>5 DEF r
        <5> QED BY <5>3, <4>0, <2>3
      <4> QED BY <4>0, <4>1, <4>2 DEF AfterSubtree
    <3> QED BY <3>1, <3>2 DEF AfterSubtree
  <2> QED BY <2>2, <2>6 DEF q
<1> QED BY <1>2, <1>3, <1>4

-----------------------------------------------------------------------------
(* The tree of the frame.                                                  *)

(* The links of the nodes, and how deep their scopes are nested.           *)
Parent  == [i \in 1 .. Len(nodes) |-> nodes[i].parent]
First   == [i \in 1 .. Len(nodes) |-> nodes[i].firstChild]
Final   == [i \in 1 .. Len(nodes) |-> nodes[i].lastChild]
Sibling == [i \in 1 .. Len(nodes) |-> nodes[i].nextSibling]
Level   == [i \in 1 .. Len(nodes) |-> IF i = Root THEN -1 ELSE depths[i - 1]]

TreeTypes ==
  /\ nodes \in Seq(Node) /\ nodes # <<>>
  /\ depths \in Seq(Int) /\ Len(nodes) = Len(depths) + 1

TreeShape == Shape(Len(nodes), Parent, Level, First, Final, Sibling)

LEMMA TreeColumns ==
  ASSUME TreeTypes
  PROVE  /\ Len(nodes) \in Nat \ {0} /\ DOMAIN nodes = 1 .. Len(nodes)
         /\ Parent \in [1 .. Len(nodes) -> Nat]
         /\ First \in [1 .. Len(nodes) -> Nat]
         /\ Final \in [1 .. Len(nodes) -> Nat]
         /\ Sibling \in [1 .. Len(nodes) -> Nat]
         /\ Level \in [1 .. Len(nodes) -> Int]
<1>1. /\ Len(nodes) \in Nat \ {0} /\ DOMAIN nodes = 1 .. Len(nodes)
      /\ \A i \in 1 .. Len(nodes) : nodes[i] \in Node
  BY DEF TreeTypes
<1>2. \A v \in Node : /\ v.parent \in Nat /\ v.firstChild \in Nat
                      /\ v.lastChild \in Nat /\ v.nextSibling \in Nat
  BY DEF Node
<1>3. ASSUME NEW i \in 1 .. Len(nodes)
      PROVE  (IF i = Root THEN -1 ELSE depths[i - 1]) \in Int
  <2>1. depths \in Seq(Int) /\ Len(depths) = Len(nodes) - 1
    BY <1>1 DEF TreeTypes
  <2>2. i # 1 => i - 1 \in 1 .. Len(nodes) - 1
    BY <1>1
  <2> QED BY <2>1, <2>2 DEF Root
<1> QED BY <1>1, <1>2, <1>3 DEF Parent, First, Final, Sibling, Level

(* Where the links lead from a node, with what comes after its subtree.    *)
LEMMA TreeAfter ==
  ASSUME TreeTypes, TreeShape, NEW i \in 1 .. Len(nodes),
         NEW x, AfterSubtree(Len(nodes), Level, i, x)
  PROVE  /\ Sibling[i] # 0 => x = Sibling[i] /\ Level[x] = Level[i]
         /\ Sibling[i] = 0 /\ Parent[i] = 0 => x = 0
         /\ Sibling[i] = 0 /\ Parent[i] # 0 =>
              /\ Parent[i] \in 1 .. i - 1 /\ Level[Parent[i]] = Level[i] - 1
              /\ AfterSubtree(Len(nodes), Level, Parent[i], x)
<1> DEFINE n == Len(nodes)
<1>1. /\ n \in Nat \ {0} /\ Level \in [1 .. n -> Int]
      /\ ParentsAbove(n, Parent, Level) /\ SiblingNext(n, Parent, Level, Sibling)
      /\ i \in 1 .. n /\ AfterSubtree(n, Level, i, x)
  BY TreeColumns DEF TreeShape, Shape
<1> HIDE DEF n
<1> SUFFICES
         /\ Sibling[i] # 0 => x = Sibling[i] /\ Level[x] = Level[i]
         /\ Sibling[i] = 0 /\ Parent[i] = 0 => x = 0
         /\ Sibling[i] = 0 /\ Parent[i] # 0 =>
              /\ Parent[i] \in 1 .. i - 1 /\ Level[Parent[i]] = Level[i] - 1
              /\ AfterSubtree(n, Level, Parent[i], x)
  BY DEF n
<1> DEFINE p == Parent
           d == Level
           s == Sibling
<1>2. /\ n \in Nat \ {0} /\ d \in [1 .. n -> Int]
      /\ ParentsAbove(n, p, d) /\ SiblingNext(n, p, d, s)
      /\ i \in 1 .. n /\ AfterSubtree(n, d, i, x)
  BY <1>1
<1> HIDE DEF p, d, s
<1>3. /\ s[i] # InvalidNodeIdx => x = s[i] /\ d[x] = d[i]
      /\ s[i] = InvalidNodeIdx /\ p[i] = InvalidNodeIdx => x = InvalidNodeIdx
      /\ s[i] = InvalidNodeIdx /\ p[i] # InvalidNodeIdx =>
           /\ p[i] \in 1 .. i - 1 /\ d[p[i]] = d[i] - 1
           /\ AfterSubtree(n, d, p[i], x)
  BY <1>2, AfterSubtreeOf, SMTT(30)
<1>4. InvalidNodeIdx = 0
  BY DEF InvalidNodeIdx
<1> QED BY <1>3, <1>4 DEF p, d, s

(* The equation that defines Climbed.                                      *)
IsClimb(c) ==
  c = [it \in [idx : DOMAIN nodes, depth : Int] |->
         IF nodes[it.idx].nextSibling # InvalidNodeIdx
           THEN [idx |-> nodes[it.idx].nextSibling, depth |-> it.depth]
         ELSE IF nodes[it.idx].parent = InvalidNodeIdx
           THEN [idx |-> InvalidNodeIdx, depth |-> -1]
         ELSE c[[idx |-> nodes[it.idx].parent, depth |-> it.depth - 1]]]

(* Where the walk goes from node i to x, keeping count of its depth.       *)
Moved(i, depth, x) ==
  IF x = InvalidNodeIdx THEN [idx |-> InvalidNodeIdx, depth |-> -1]
  ELSE [idx |-> x, depth |-> depth + Level[x] - Level[i]]

LEMMA ClimbExists ==
  ASSUME TreeTypes, TreeShape
  PROVE  \E c : IsClimb(c)
<1> USE DEF InvalidNodeIdx
<1> DEFINE n == Len(nodes)
           After(i) == CHOOSE x \in 0 .. n : AfterSubtree(n, Level, i, x)
           Dom == [idx : 1 .. n, depth : Int]
           g == [it \in Dom |-> Moved(it.idx, it.depth, After(it.idx))]
           Step(c, i, depth) ==
             IF Sibling[i] # 0 THEN [idx |-> Sibling[i], depth |-> depth]
             ELSE IF Parent[i] = 0 THEN [idx |-> 0, depth |-> -1]
             ELSE c[[idx |-> Parent[i], depth |-> depth - 1]]
<1>1. /\ n \in Nat \ {0} /\ DOMAIN nodes = 1 .. n
      /\ Level \in [1 .. n -> Int]
      /\ ParentsAbove(n, Parent, Level) /\ SiblingNext(n, Parent, Level, Sibling)
  BY TreeColumns DEF TreeShape, Shape
<1>2. \A i \in 1 .. n : After(i) \in 0 .. n /\ AfterSubtree(n, Level, i, After(i))
  BY <1>1, AfterSubtreeExists
<1>3. \A i \in 1 .. n, depth \in Int :
        g[[idx |-> i, depth |-> depth]] = Moved(i, depth, After(i))
  OBVIOUS
<1> HIDE DEF After, g
<1>4. ASSUME NEW i \in 1 .. n, NEW depth \in Int
      PROVE  Moved(i, depth, After(i)) = Step(g, i, depth)
  <2>1. Level[i] \in Int
    BY <1>1
  <2>2. CASE Sibling[i] # 0
    <3>1. After(i) = Sibling[i] /\ Level[After(i)] = Level[i]
      BY <1>2, <2>2, TreeAfter
    <3>2. depth + Level[i] - Level[i] = depth
      BY <2>1
    <3> QED BY <3>1, <3>2, <2>2 DEF Moved
  <2>3. CASE Sibling[i] = 0 /\ Parent[i] = 0
    <3>1. After(i) = 0
      BY <1>2, <2>3, TreeAfter
    <3> QED BY <3>1, <2>3 DEF Moved
  <2>4. CASE Sibling[i] = 0 /\ Parent[i] # 0
    <3> DEFINE q == Parent[i]
               x == After(i)
               y == After(q)
    <3>1. /\ q \in 1 .. i - 1 /\ Level[q] = Level[i] - 1
          /\ AfterSubtree(n, Level, q, x)
      BY <1>2, <2>4, TreeAfter
    <3>2. q \in 1 .. n /\ AfterSubtree(n, Level, q, y) /\ y \in 0 .. n /\ x \in 0 .. n
      BY <3>1, <1>2
    <3> HIDE DEF q, x, y
    <3>3. x = y
      BY <3>1, <3>2, <1>1, AfterSubtreeUnique
    <3>4. g[[idx |-> q, depth |-> depth - 1]] = Moved(q, depth - 1, x)
      BY <1>3, <3>2, <3>3 DEF y
    <3>5. x # 0 => (depth - 1) + Level[x] - Level[q] = depth + Level[x] - Level[i]
      <4>1. x # 0 => Level[x] \in Int
        BY <1>1, <3>2
      <4> QED BY <4>1, <2>1, <3>1
    <3>6. Moved(q, depth - 1, x) = Moved(i, depth, x)
      BY <3>5 DEF Moved
    <3> QED BY <2>4, <3>4, <3>6 DEF q, x
  <2> QED BY <2>2, <2>3, <2>4
<1>5. \A it \in Dom : g[it] = Step(g, it.idx, it.depth)
  <2>1. ASSUME NEW it \in Dom PROVE g[it] = Step(g, it.idx, it.depth)
    <3>1. it = [idx |-> it.idx, depth |-> it.depth] /\ it.idx \in 1 .. n /\ it.depth \in Int
      OBVIOUS
    <3> HIDE DEF Step
    <3> QED BY <3>1, <1>3, <1>4
  <2> QED BY <2>1
<1>6. g = [it \in Dom |-> Step(g, it.idx, it.depth)]
  <2>1. g = [it \in Dom |-> g[it]]
    BY DEF g
  <2> HIDE DEF Step
  <2> QED BY <2>1, <1>5
<1>7. \A it \in Dom : /\ Sibling[it.idx] = nodes[it.idx].nextSibling
                      /\ Parent[it.idx] = nodes[it.idx].parent
  BY DEF Sibling, Parent
<1>8. IsClimb(g)
  <2>1. Dom = [idx : DOMAIN nodes, depth : Int]
    BY <1>1
  <2>2. \A it \in Dom :
          Step(g, it.idx, it.depth) =
            IF nodes[it.idx].nextSibling # InvalidNodeIdx
              THEN [idx |-> nodes[it.idx].nextSibling, depth |-> it.depth]
            ELSE IF nodes[it.idx].parent = InvalidNodeIdx
              THEN [idx |-> InvalidNodeIdx, depth |-> -1]
            ELSE g[[idx |-> nodes[it.idx].parent, depth |-> it.depth - 1]]
    <3> HIDE DEF g, Dom
    <3> QED BY <1>7
  <2> HIDE DEF g, Dom, Step
  <2> QED BY <2>1, <2>2, <1>6 DEF IsClimb
<1> QED BY <1>8

(* Climbed moves to what comes after the subtree.                          *)
LEMMA ClimbedMoves ==
  ASSUME TreeTypes, TreeShape,
         NEW i \in 1 .. Len(nodes), NEW depth \in Int,
         NEW x, AfterSubtree(Len(nodes), Level, i, x)
  PROVE  Climbed[[idx |-> i, depth |-> depth]] = Moved(i, depth, x)
<1> USE DEF InvalidNodeIdx
<1> DEFINE n == Len(nodes)
           At(j, e) == [idx |-> j, depth |-> e]
           Wrong == {j \in 1 .. n : \E e \in Int : \E y :
                       /\ AfterSubtree(n, Level, j, y)
                       /\ Climbed[At(j, e)] # Moved(j, e, y)}
<1>1. /\ n \in Nat \ {0} /\ DOMAIN nodes = 1 .. n
      /\ Level \in [1 .. n -> Int]
      /\ ParentsAbove(n, Parent, Level) /\ SiblingNext(n, Parent, Level, Sibling)
  BY TreeColumns DEF TreeShape, Shape
<1>2. IsClimb(Climbed)
  <2>1. Iterators(DOMAIN nodes) = [idx : DOMAIN nodes, depth : Int]
    BY DEF Iterators
  <2> QED BY <2>1, ClimbExists DEF IsClimb, Climbed
<1>3. ASSUME NEW j \in 1 .. n, NEW e \in Int
      PROVE  Climbed[At(j, e)] =
               IF Sibling[j] # 0 THEN At(Sibling[j], e)
               ELSE IF Parent[j] = 0 THEN At(0, -1)
               ELSE Climbed[At(Parent[j], e - 1)]
  <2>1. /\ Sibling[j] = nodes[j].nextSibling /\ Parent[j] = nodes[j].parent
        /\ At(j, e) \in [idx : DOMAIN nodes, depth : Int]
    BY <1>1 DEF Sibling, Parent
  <2> DEFINE c == Climbed
  <2>2. IsClimb(c)
    BY <1>2
  <2> HIDE DEF c
  <2>3. c[At(j, e)] = IF Sibling[j] # 0 THEN At(Sibling[j], e)
               ELSE IF Parent[j] = 0 THEN At(0, -1)
               ELSE c[At(Parent[j], e - 1)]
    <3>1. PICK it \in [idx : DOMAIN nodes, depth : Int] : it = At(j, e)
      BY <2>1
    <3>2. it.idx = j /\ it.depth = e
      BY <3>1
    <3>3. c[it] = IF nodes[j].nextSibling # 0
                    THEN [idx |-> nodes[j].nextSibling, depth |-> e]
                  ELSE IF nodes[j].parent = 0 THEN [idx |-> 0, depth |-> -1]
                  ELSE c[[idx |-> nodes[j].parent, depth |-> e - 1]]
      BY <3>2, <2>2 DEF IsClimb
    <3> QED BY <3>1, <3>3, <2>1
  <2> QED BY <2>3 DEF c
<1>4. ASSUME Wrong # {} PROVE FALSE
  <2>1. PICK j \in Wrong : \A k \in Wrong : j <= k
    <3>1. Wrong \in SUBSET Nat
      OBVIOUS
    <3> HIDE DEF Wrong
    <3> QED BY <3>1, <1>4, LeastOf
  <2>0. PICK e \in Int : \E y : /\ AfterSubtree(n, Level, j, y)
                               /\ Climbed[At(j, e)] # Moved(j, e, y)
    OBVIOUS
  <2>2. PICK y : /\ AfterSubtree(n, Level, j, y)
                 /\ Climbed[At(j, e)] # Moved(j, e, y)
    BY <2>0
  <2>3. j \in 1 .. n /\ Level[j] \in Int
    BY <1>1
  <2>4. CASE Sibling[j] # 0
    <3>1. y = Sibling[j] /\ Level[y] = Level[j]
      BY <2>2, <2>3, <2>4, TreeAfter
    <3>2. e + Level[j] - Level[j] = e
      BY <2>3
    <3>3. Climbed[At(j, e)] = At(Sibling[j], e)
      BY <1>3, <2>3, <2>4
    <3> QED BY <3>1, <3>2, <3>3, <2>2, <2>4 DEF Moved
  <2>5. CASE Sibling[j] = 0 /\ Parent[j] = 0
    <3>1. y = 0
      BY <2>2, <2>3, <2>5, TreeAfter
    <3>2. Climbed[At(j, e)] = At(0, -1)
      BY <1>3, <2>3, <2>5
    <3> QED BY <3>1, <3>2, <2>2 DEF Moved
  <2>6. CASE Sibling[j] = 0 /\ Parent[j] # 0
    <3> DEFINE q == Parent[j]
    <3>1. /\ q \in 1 .. j - 1 /\ Level[q] = Level[j] - 1
          /\ AfterSubtree(n, Level, q, y)
      BY <2>2, <2>3, <2>6, TreeAfter
    <3>2. Climbed[At(j, e)] = Climbed[At(q, e - 1)]
      BY <1>3, <2>3, <2>6
    <3> HIDE DEF q
    <3>3. q \in 1 .. n /\ q < j /\ e - 1 \in Int
      BY <3>1, <2>3
    <3>4. Climbed[At(q, e - 1)] = Moved(q, e - 1, y)
      <4>1. q \notin Wrong
        <5> HIDE DEF Wrong
        <5> QED BY <2>1, <2>3, <3>3
      <4> QED BY <4>1, <3>1, <3>3
    <3>5. y # 0 => (e - 1) + Level[y] - Level[q] = e + Level[y] - Level[j]
      <4>1. y # 0 => Level[y] \in Int
        <5>1. y # 0 => y \in q + 1 .. n
          BY <3>1 DEF AfterSubtree
        <5> QED BY <5>1, <3>3, <1>1
      <4>2. Level[j] \in Int /\ Level[q] = Level[j] - 1 /\ e \in Int
        BY <2>3, <3>1
      <4> HIDE DEF Wrong
      <4> QED BY <4>1, <4>2
    <3>6. Moved(q, e - 1, y) = Moved(j, e, y)
      BY <3>5 DEF Moved
    <3> QED BY <3>2, <3>4, <3>6, <2>2
  <2> QED BY <2>4, <2>5, <2>6
<1> QED BY <1>4

(* operator++ goes to the next node of the vector, one level deeper or any *)
(* number of levels up; from the last node it goes to the end.             *)
LEMMA AdvanceMoves ==
  ASSUME TreeTypes, TreeShape,
         NEW i \in 1 .. Len(nodes), NEW depth \in Int
  PROVE  Advance([idx |-> i, depth |-> depth]) =
           Moved(i, depth, IF i < Len(nodes) THEN i + 1 ELSE 0)
<1> USE DEF InvalidNodeIdx
<1> DEFINE n == Len(nodes)
           it == [idx |-> i, depth |-> depth]
<1>1. /\ n \in Nat \ {0} /\ Level \in [1 .. n -> Int]
      /\ ParentsAbove(n, Parent, Level) /\ FirstChildNext(n, Parent, First)
      /\ nodes[i].firstChild = First[i]
  BY TreeColumns DEF TreeShape, Shape, First
<1>2. First[i] = IF i < n /\ Parent[i + 1] = i THEN i + 1 ELSE 0
  BY <1>1 DEF FirstChildNext
<1>3. i < n => /\ i + 1 \in 2 .. n /\ i + 1 \in 1 .. n
               /\ Parent[i + 1] \in 1 .. i
               /\ Level[Parent[i + 1]] = Level[i + 1] - 1
               /\ \A k \in Parent[i + 1] + 1 .. i + 1 : Level[k] >= Level[i + 1]
               /\ Level[i + 1] \in Int /\ Level[i] \in Int
  <2> HIDE DEF n
  <2> SUFFICES ASSUME i < n
               PROVE  /\ i + 1 \in 2 .. n /\ i + 1 \in 1 .. n
                      /\ Parent[i + 1] \in 1 .. i
                      /\ Level[Parent[i + 1]] = Level[i + 1] - 1
                      /\ \A k \in Parent[i + 1] + 1 .. i + 1 :
                           Level[k] >= Level[i + 1]
                      /\ Level[i + 1] \in Int /\ Level[i] \in Int
    OBVIOUS
  <2>0. i \in 1 .. n
    BY DEF n
  <2>1. i + 1 \in 2 .. n /\ i + 1 \in 1 .. n /\ (i + 1) - 1 = i
    BY <2>0, <1>1
  <2> QED BY <2>0, <2>1, <1>1 DEF ParentsAbove
<1>4. CASE First[i] # 0
  <2>1. i < n /\ First[i] = i + 1 /\ Parent[i + 1] = i
    BY <1>2, <1>4
  <2>2. Advance(it) = [idx |-> i + 1, depth |-> depth + 1]
    BY <1>1, <1>4, <2>1 DEF Advance
  <2>3. depth + Level[i + 1] - Level[i] = depth + 1 /\ i + 1 # 0
    BY <2>1, <1>3
  <2> QED BY <2>1, <2>2, <2>3 DEF Moved
<1>5. CASE First[i] = 0
  <2> DEFINE x == IF i < n THEN i + 1 ELSE 0
  <2>1. Advance(it) = Climbed[it]
    BY <1>1, <1>5 DEF Advance
  <2>2. AfterSubtree(n, Level, i, x)
    <3>1. CASE i < n
      <4> DEFINE q == Parent[i + 1]
      <4>1. q # i
        BY <1>2, <1>3, <1>5, <3>1
      <4>2. i \in q + 1 .. i + 1
        BY <4>1, <1>3, <3>1
      <4>3. Level[i + 1] <= Level[i]
        BY <4>2, <1>3, <3>1
      <4>4. i + 1 .. (i + 1) - 1 = {}
        OBVIOUS
      <4>5. i + 1 \in i + 1 .. n
        BY <1>3, <3>1
      <4> HIDE DEF q, n
      <4> QED BY <3>1, <4>3, <4>4, <4>5 DEF AfterSubtree
    <3>2. CASE ~(i < n)
      <4>1. i + 1 .. n = {}
        BY <3>2, <1>1
      <4> HIDE DEF n
      <4> QED BY <3>2, <4>1 DEF AfterSubtree
    <3> QED BY <3>1, <3>2
  <2> HIDE DEF x
  <2>3. Climbed[it] = Moved(i, depth, x)
    BY <2>2, ClimbedMoves
  <2> QED BY <2>1, <2>3 DEF x
<1> QED BY <1>4, <1>5

-----------------------------------------------------------------------------
(* The whole walk.                                                         *)

IsVisit(v) ==
  v = [it \in [idx : {InvalidNodeIdx} \cup DOMAIN nodes, depth : Int] |->
         IF it.idx = InvalidNodeIdx THEN <<>> ELSE <<it>> \o v[Advance(it)]]

(* All nodes from i on, in their order.                                    *)
Onward(i, depth) ==
  [k \in 1 .. Len(nodes) - i + 1 |->
     [idx |-> i + k - 1, depth |-> depth + Level[i + k - 1] - Level[i]]]

LEMMA OnwardStep ==
  ASSUME TreeTypes, NEW i \in 1 .. Len(nodes), NEW depth \in Int
  PROVE  Onward(i, depth) =
           <<[idx |-> i, depth |-> depth]>> \o
             (IF i < Len(nodes)
              THEN Onward(i + 1, depth + Level[i + 1] - Level[i]) ELSE <<>>)
<1> DEFINE n == Len(nodes)
           V == [idx : Nat, depth : Int]
           it == [idx |-> i, depth |-> depth]
           rest == IF i < n
                   THEN Onward(i + 1, depth + Level[i + 1] - Level[i])
                   ELSE <<>>
           all == Onward(i, depth)
<1>1. n \in Nat \ {0} /\ \A j \in 1 .. n : Level[j] \in Int
  BY TreeColumns
<1>2. ASSUME NEW j \in 1 .. n, NEW e \in Int
      PROVE  /\ Onward(j, e) \in Seq(V) /\ Len(Onward(j, e)) = n - j + 1
             /\ \A k \in 1 .. n - j + 1 :
                  Onward(j, e)[k] = [idx |-> j + k - 1,
                                     depth |-> e + Level[j + k - 1] - Level[j]]
  <2>1. ASSUME NEW k \in 1 .. n - j + 1
        PROVE  [idx |-> j + k - 1, depth |-> e + Level[j + k - 1] - Level[j]] \in V
    <3>1. j + k - 1 \in 1 .. n
      BY <1>1
    <3> QED BY <3>1, <1>1
  <2>2. n - j + 1 \in Nat
    BY <1>1
  <2> HIDE DEF V
  <2>3. Onward(j, e) \in [1 .. n - j + 1 -> V]
    BY <2>1 DEF Onward
  <2> QED BY <2>2, <2>3, SequenceOf DEF Onward
<1>3. rest \in Seq(V) /\ Len(rest) = n - i
  <2>1. CASE i < n
    <3>1. i + 1 \in 1 .. n /\ depth + Level[i + 1] - Level[i] \in Int
      BY <2>1, <1>1
    <3>2. n - (i + 1) + 1 = n - i
      BY <1>1
    <3> HIDE DEF n, V
    <3> QED BY <3>1, <3>2, <2>1, <1>2
  <2>2. CASE ~(i < n)
    BY <2>2, <1>1
  <2> QED BY <2>1, <2>2
<1>4. <<it>> \o rest \in Seq(V) /\ Len(<<it>> \o rest) = n - i + 1
  <2>1. it \in V
    BY <1>1
  <2> HIDE DEF it, rest, V
  <2> QED BY <2>1, <1>3, <1>1
<1>5. ASSUME NEW k \in 1 .. n - i + 1
      PROVE  (<<it>> \o rest)[k] = all[k]
  <2>0. all[k] = [idx |-> i + k - 1, depth |-> depth + Level[i + k - 1] - Level[i]]
    BY <1>2
  <2>1. CASE k = 1
    <3>1. i + k - 1 = i /\ depth + Level[i] - Level[i] = depth
      BY <2>1, <1>1
    <3>2. (<<it>> \o rest)[1] = it
      <4> HIDE DEF it, rest, V
      <4> QED BY <1>3
    <3> QED BY <2>0, <2>1, <3>1, <3>2
  <2>2. CASE k # 1
    <3> DEFINE m == k - 1
    <3>1. m \in 1 .. n - i /\ i < n /\ m \in 1 .. Len(rest) /\ k = 1 + m
      BY <2>2, <1>1, <1>3
    <3>2. (<<it>> \o rest)[k] = rest[m]
      <4> HIDE DEF it, rest, V, m
      <4> QED BY <3>1, <1>3
    <3>3. /\ i + 1 \in 1 .. n /\ m \in 1 .. n - (i + 1) + 1
          /\ depth + Level[i + 1] - Level[i] \in Int
      BY <3>1, <1>1
    <3> DEFINE e == depth + Level[i + 1] - Level[i]
    <3>4. rest[m] = [idx |-> (i + 1) + m - 1,
                     depth |-> e + Level[(i + 1) + m - 1] - Level[i + 1]]
      <4> HIDE DEF m, n, e
      <4> QED BY <3>1, <3>3, <1>2 DEF e
    <3>5. (i + 1) + m - 1 = i + k - 1 /\ i + k - 1 \in 1 .. n
      <4>1. n \in Nat /\ i \in 1 .. n
        BY <1>1
      <4> HIDE DEF m, n
      <4> QED BY <4>1, <3>1
    <3>6. e + Level[i + k - 1] - Level[i + 1] = depth + Level[i + k - 1] - Level[i]
      <4>1. /\ Level[i + k - 1] \in Int /\ Level[i + 1] \in Int
            /\ Level[i] \in Int
        BY <3>3, <3>5, <1>1
      <4> HIDE DEF m, n, rest, it, all
      <4> QED BY <4>1
    <3> HIDE DEF m, e, rest, it
    <3> QED BY <2>0, <3>2, <3>4, <3>5, <3>6
  <2> QED BY <2>1, <2>2
<1>6. all \in Seq(V) /\ Len(all) = n - i + 1
  BY <1>2
<1> HIDE DEF all, it, rest, V
<1>7. <<it>> \o rest = all
  BY <1>4, <1>5, <1>6
<1> QED BY <1>7 DEF all, it, rest

LEMMA VisitExists ==
  ASSUME TreeTypes, TreeShape
  PROVE  \E v : IsVisit(v)
<1> USE DEF InvalidNodeIdx
<1> DEFINE n == Len(nodes)
           Dom == [idx : {0} \cup (1 .. n), depth : Int]
           g == [it \in Dom |->
                   IF it.idx = 0 THEN <<>> ELSE Onward(it.idx, it.depth)]
<1>1. n \in Nat \ {0} /\ DOMAIN nodes = 1 .. n /\ Level \in [1 .. n -> Int]
  BY TreeColumns
<1>2. ASSUME NEW it \in Dom
      PROVE  g[it] = IF it.idx = 0 THEN <<>> ELSE <<it>> \o g[Advance(it)]
  <2>1. CASE it.idx = 0
    BY <2>1
  <2>2. CASE it.idx # 0
    <3> DEFINE i == it.idx
               depth == it.depth
               next == Moved(i, depth, IF i < n THEN i + 1 ELSE 0)
    <3>1. it = [idx |-> i, depth |-> depth] /\ i \in 1 .. n /\ depth \in Int
      BY <2>2
    <3>2. Advance(it) = next
      <4> HIDE DEF i, depth
      <4> QED BY <3>1, AdvanceMoves
    <3>3. g[next] = IF i < n THEN Onward(i + 1, depth + Level[i + 1] - Level[i])
                    ELSE <<>>
      <4>1. CASE i < n
        <5>1. /\ next = [idx |-> i + 1, depth |-> depth + Level[i + 1] - Level[i]]
              /\ i + 1 \in 1 .. n /\ i + 1 # 0
          <6> HIDE DEF n, i, depth
          <6> QED BY <4>1, <3>1, <1>1 DEF Moved
        <5>2. depth + Level[i + 1] - Level[i] \in Int
          <6> HIDE DEF n, i, depth
          <6> QED BY <5>1, <3>1, <1>1
        <5> HIDE DEF i, depth, next, n
        <5>3. next \in Dom
          BY <5>1, <5>2
        <5> QED BY <4>1, <5>1, <5>3
      <4>2. CASE ~(i < n)
        <5>1. next = [idx |-> 0, depth |-> -1]
          BY <4>2 DEF Moved
        <5> HIDE DEF i, depth, next, n
        <5> QED BY <4>2, <5>1
      <4> QED BY <4>1, <4>2
    <3>4. g[it] = Onward(i, depth)
      BY <2>2
    <3>5. Onward(i, depth) = <<it>> \o g[next]
      <4> HIDE DEF i, depth, next, g
      <4> QED BY <3>1, <3>3, OnwardStep
    <3> HIDE DEF g, next, i, depth
    <3> QED BY <2>2, <3>2, <3>4, <3>5
  <2> QED BY <2>1, <2>2
<1>3. g = [it \in Dom |->
             IF it.idx = 0 THEN <<>> ELSE <<it>> \o g[Advance(it)]]
  <2>1. g = [it \in Dom |-> g[it]]
    OBVIOUS
  <2> HIDE DEF g, Dom
  <2> QED BY <2>1, <1>2
<1>4. IsVisit(g)
  <2> HIDE DEF g
  <2> QED BY <1>1, <1>3 DEF IsVisit
<1> QED BY <1>4

(* From a node on, the iterator visits all nodes that follow it.           *)
LEMMA VisitedIs ==
  ASSUME TreeTypes, TreeShape, NEW i \in 1 .. Len(nodes), NEW depth \in Int
  PROVE  Visited[[idx |-> i, depth |-> depth]] = Onward(i, depth)
<1> USE DEF InvalidNodeIdx
<1> DEFINE n == Len(nodes)
           At(j, e) == [idx |-> j, depth |-> e]
           Wrong == {m \in 0 .. n - 1 : \E e \in Int :
                       Visited[At(n - m, e)] # Onward(n - m, e)}
<1>1. n \in Nat \ {0} /\ DOMAIN nodes = 1 .. n /\ Level \in [1 .. n -> Int]
  BY TreeColumns
<1>2. IsVisit(Visited)
  BY VisitExists DEF IsVisit, Visited, Iterators
<1>3. /\ \A e \in Int : Visited[At(0, e)] = <<>>
      /\ \A j \in 1 .. n, e \in Int :
           Visited[At(j, e)] = <<At(j, e)>> \o Visited[Advance(At(j, e))]
  <2> DEFINE v == Visited
  <2>1. IsVisit(v)
    BY <1>2
  <2> HIDE DEF v
  <2>2. ASSUME NEW j \in {0} \cup (1 .. n), NEW e \in Int
        PROVE  v[At(j, e)] = IF j = 0 THEN <<>>
                             ELSE <<At(j, e)>> \o v[Advance(At(j, e))]
    <3>1. At(j, e) \in [idx : {0} \cup DOMAIN nodes, depth : Int]
      BY <1>1
    <3>2. \A it \in [idx : {0} \cup DOMAIN nodes, depth : Int] :
            v[it] = IF it.idx = 0 THEN <<>> ELSE <<it>> \o v[Advance(it)]
      BY <2>1, Zenon DEF IsVisit
    <3>3. At(j, e).idx = j
      OBVIOUS
    <3> DEFINE it == At(j, e)
    <3>4. it \in [idx : {0} \cup DOMAIN nodes, depth : Int] /\ it.idx = j
      BY <3>1, <3>3
    <3> HIDE DEF it
    <3>5. v[it] = IF it.idx = 0 THEN <<>> ELSE <<it>> \o v[Advance(it)]
      BY <3>2, <3>4, Zenon
    <3>6. v[it] = IF j = 0 THEN <<>> ELSE <<it>> \o v[Advance(it)]
      BY <3>4, <3>5
    <3> QED BY <3>6 DEF it
  <2> HIDE DEF At
  <2>3. \A e \in Int : v[At(0, e)] = <<>>
    BY <2>2
  <2>4. ASSUME NEW j \in 1 .. n, NEW e \in Int
        PROVE  v[At(j, e)] = <<At(j, e)>> \o v[Advance(At(j, e))]
    <3>1. j \in {0} \cup (1 .. n) /\ j # 0
      BY <1>1
    <3>2. v[At(j, e)] = IF j = 0 THEN <<>>
                        ELSE <<At(j, e)>> \o v[Advance(At(j, e))]
      BY <3>1, <2>2
    <3> QED BY <3>1, <3>2
  <2> QED BY <2>3, <2>4 DEF v
<1>4. ASSUME Wrong # {} PROVE FALSE
  <2>1. PICK m \in Wrong : \A k \in Wrong : m <= k
    <3>1. Wrong \in SUBSET Nat
      OBVIOUS
    <3> HIDE DEF Wrong
    <3> QED BY <3>1, <1>4, LeastOf
  <2> DEFINE j == n - m
  <2>2. PICK e \in Int : Visited[At(j, e)] # Onward(j, e)
    OBVIOUS
  <2>3. m \in 0 .. n - 1 /\ j \in 1 .. n
    BY <1>1
  <2> DEFINE up == e + Level[j + 1] - Level[j]
  <2>4. Advance(At(j, e)) = Moved(j, e, IF j < n THEN j + 1 ELSE 0)
    <3> HIDE DEF j
    <3> QED BY <2>3, AdvanceMoves
  <2>5. CASE j < n
    <3>1. /\ j + 1 \in 1 .. n /\ j + 1 = n - (m - 1) /\ m - 1 \in 0 .. n - 1
          /\ m - 1 < m /\ up \in Int
      <4>1. j + 1 \in 1 .. n /\ j + 1 = n - (m - 1) /\ m - 1 \in 0 .. n - 1
        BY <2>3, <2>5, <1>1
      <4>2. Level[j] \in Int /\ Level[j + 1] \in Int
        <5> HIDE DEF j
        <5> QED BY <4>1, <2>3, <1>1
      <4>3. m - 1 < m
        BY <2>3
      <4> HIDE DEF j
      <4> QED BY <4>1, <4>2, <4>3
    <3>2. m - 1 \notin Wrong
      <4> HIDE DEF Wrong
      <4> QED BY <2>1, <2>3, <3>1
    <3>3. Visited[At(j + 1, up)] = Onward(j + 1, up)
      <4> HIDE DEF j, up
      <4>1. Visited[At(n - (m - 1), up)] = Onward(n - (m - 1), up)
        BY <3>1, <3>2
      <4> QED BY <4>1, <3>1
    <3>4. Advance(At(j, e)) = At(j + 1, up)
      <4>1. j + 1 # 0
        BY <2>3
      <4> HIDE DEF j
      <4> QED BY <4>1, <2>4, <2>5 DEF Moved
    <3>5. Onward(j, e) = <<At(j, e)>> \o Onward(j + 1, up)
      <4> HIDE DEF j
      <4> QED BY <2>3, <2>5, OnwardStep
    <3> HIDE DEF j, up, At
    <3>6. Visited[At(j, e)] = <<At(j, e)>> \o Visited[Advance(At(j, e))]
      BY <1>3, <2>3
    <3> QED BY <3>3, <3>4, <3>5, <3>6, <2>2
  <2>6. CASE ~(j < n)
    <3>1. Advance(At(j, e)) = At(0, -1)
      BY <2>4, <2>6 DEF Moved
    <3>2. Onward(j, e) = <<At(j, e)>> \o <<>>
      <4> HIDE DEF j
      <4> QED BY <2>3, <2>6, OnwardStep
    <3> HIDE DEF j, At
    <3>3. Visited[At(j, e)] = <<At(j, e)>> \o Visited[Advance(At(j, e))]
      BY <1>3, <2>3
    <3>4. Visited[At(0, -1)] = <<>>
      BY <1>3
    <3> QED BY <3>1, <3>2, <3>3, <3>4, <2>2
  <2> QED BY <2>5, <2>6
<1>5. n - i \in 0 .. n - 1 /\ n - (n - i) = i
  BY <1>1
<1>6. n - i \notin Wrong
  <2> HIDE DEF Wrong
  <2> QED BY <1>4
<1>7. Visited[At(n - (n - i), depth)] = Onward(n - (n - i), depth)
  BY <1>5, <1>6
<1> HIDE DEF n
<1> QED BY <1>5, <1>7

LEMMA EmptyRange ==
  ASSUME NEW f, DOMAIN f = {}, f = [k \in DOMAIN f |-> f[k]]
  PROVE  f = <<>>
OBVIOUS

(* The walk is in the order of the vector, and its depth is the nesting.   *)
LEMMA WalkIs ==
  ASSUME TreeTypes, TreeShape
  PROVE  WalkInOrder
<1> DEFINE n == Len(nodes)
           m == Len(depths)
           listed == [k \in 1 .. m |-> [idx |-> k + 1, depth |-> depths[k]]]
<1>1. /\ n \in Nat \ {0} /\ m \in Nat /\ n = m + 1
      /\ \A k \in 1 .. m : depths[k] \in Int
  BY TreeColumns DEF TreeTypes
<1>2. CASE n < StartIdx
  <2>1. Walk = <<>>
    BY <1>2 DEF Walk
  <2>2. 1 .. m = {}
    BY <1>1, <1>2 DEF StartIdx
  <2>3. listed = <<>>
    BY <2>2
  <2> QED BY <2>1, <2>3 DEF WalkInOrder
<1>3. CASE ~(n < StartIdx)
  <2>1. StartIdx \in 1 .. n /\ 2 \in 2 .. n
    BY <1>1, <1>3 DEF StartIdx
  <2>2. Walk = Onward(StartIdx, 0)
    <3>1. Walk = Visited[[idx |-> StartIdx, depth |-> 0]]
      BY <1>3 DEF Walk
    <3> QED BY <3>1, <2>1, VisitedIs
  <2>3. \A k \in 1 .. m : Level[k + 1] = depths[k]
    <3>1. \A k \in 1 .. m : k + 1 \in 1 .. n /\ k + 1 # Root /\ (k + 1) - 1 = k
      BY <1>1 DEF Root
    <3> QED BY <3>1 DEF Level
  <2>4. Level[2] = 0
    <3>1. ParentsAbove(n, Parent, Level)
      BY DEF TreeShape, Shape
    <3>2. Parent[2] \in 1 .. 2 - 1 /\ Level[Parent[2]] = Level[2] - 1
      BY <2>1, <3>1 DEF ParentsAbove
    <3>3. Level[1] = -1
      BY <1>1 DEF Level, Root
    <3>4. Level[2] \in Int
      BY <2>1, TreeColumns
    <3> QED BY <3>2, <3>3, <3>4
  <2>5. n - StartIdx + 1 = m
    BY <1>1 DEF StartIdx
  <2>6. \A k \in 1 .. m : /\ StartIdx + k - 1 = k + 1
                          /\ 0 + Level[k + 1] - Level[StartIdx] = depths[k]
    BY <1>1, <2>3, <2>4 DEF StartIdx
  <2>7. Onward(StartIdx, 0) =
          [k \in 1 .. m |-> [idx |-> StartIdx + k - 1,
                             depth |-> 0 + Level[StartIdx + k - 1] - Level[StartIdx]]]
    BY <2>5 DEF Onward
  <2> HIDE DEF m, n
  <2>8. Onward(StartIdx, 0) = listed
    BY <2>6, <2>7
  <2> QED BY <2>2, <2>8 DEF WalkInOrder, m
<1> QED BY <1>2, <1>3

-----------------------------------------------------------------------------
(* The tree keeps its shape.                                               *)

(* The open nodes are one in each level from the root down, and nothing    *)
(* after one of them is nested as high.                                    *)
OpenPath ==
  /\ openNodes \in Seq(Nat) /\ openNodes # <<>>
  /\ \A k \in 1 .. Len(openNodes) :
       /\ openNodes[k] \in 1 .. Len(nodes)
       /\ Level[openNodes[k]] = k - 2
       /\ Innermost(Len(nodes), Level, openNodes[k])

TreeInv == TreeTypes /\ TreeShape /\ OpenPath

(* The links that Linked sets.                                             *)
LEMMA LinkedLinks ==
  ASSUME NEW tree \in Seq(Node), NEW this \in Nat,
         NEW parent \in 1 .. Len(tree), NEW k \in 1 .. Len(tree)
  PROVE  LET linked == Linked(tree, parent, this)[k]
             none   == tree[parent].firstChild = InvalidNodeIdx
         IN  /\ linked.parent = tree[k].parent
             /\ linked.firstChild = IF k = parent /\ none THEN this
                                    ELSE tree[k].firstChild
             /\ linked.lastChild = IF k = parent THEN this
                                   ELSE tree[k].lastChild
             /\ linked.nextSibling = IF ~none /\ k = tree[parent].lastChild
                                     THEN this ELSE tree[k].nextSibling
<1> DEFINE last == tree[parent].lastChild
<1>1. /\ k \in DOMAIN tree /\ parent \in DOMAIN tree
      /\ tree[k] \in Node /\ tree[parent] \in Node
  OBVIOUS
<1>2. CASE tree[parent].firstChild = InvalidNodeIdx
  <2>1. Linked(tree, parent, this) =
          [tree EXCEPT ![parent].firstChild = this, ![parent].lastChild = this]
    BY <1>2 DEF Linked
  <2> DEFINE all == [tree EXCEPT ![parent].firstChild = this, ![parent].lastChild = this]
  <2>2. CASE k = parent
    <3>1. all[k] = [[tree[parent] EXCEPT !.firstChild = this] EXCEPT !.lastChild = this]
      BY <1>1, <2>2
    <3>2. PICK v \in Node : v = tree[parent]
      BY <1>1
    <3>3. LET w == [[v EXCEPT !.firstChild = this] EXCEPT !.lastChild = this]
          IN  /\ w.parent = v.parent /\ w.firstChild = this
              /\ w.lastChild = this /\ w.nextSibling = v.nextSibling
      BY DEF Node
    <3> HIDE DEF all
    <3> QED BY <2>1, <2>2, <1>2, <3>1, <3>2, <3>3 DEF all
  <2>3. CASE k # parent
    <3>1. all[k] = tree[k]
      BY <1>1, <2>3
    <3> QED BY <2>1, <2>3, <1>2, <3>1
  <2> QED BY <2>2, <2>3
<1>3. CASE tree[parent].firstChild # InvalidNodeIdx
  <2> DEFINE half == [tree EXCEPT ![last].nextSibling = this]
             all == [half EXCEPT ![parent].lastChild = this]
  <2>1. Linked(tree, parent, this) = all
    BY <1>3 DEF Linked
  <2>2. ASSUME NEW i \in DOMAIN tree
        PROVE  /\ half[i] = IF i = last THEN [tree[i] EXCEPT !.nextSibling = this]
                            ELSE tree[i]
               /\ i \in DOMAIN half
    OBVIOUS
  <2> HIDE DEF half
  <2>3. all[k] = IF k = parent THEN [half[k] EXCEPT !.lastChild = this] ELSE half[k]
    BY <1>1, <2>2
  <2>4. PICK v \in Node : v = tree[k]
    BY <1>1
  <2>5. PICK h \in Node : h = half[k]
    <3>1. [tree[k] EXCEPT !.nextSibling = this] \in Node
      BY <1>1 DEF Node
    <3> QED BY <3>1, <1>1, <2>2
  <2>6. /\ h.parent = v.parent /\ h.firstChild = v.firstChild
        /\ h.lastChild = v.lastChild
        /\ h.nextSibling = IF k = last THEN this ELSE v.nextSibling
    <3>1. h = IF k = last THEN [v EXCEPT !.nextSibling = this] ELSE v
      BY <1>1, <2>2, <2>4, <2>5
    <3> QED BY <3>1 DEF Node
  <2>7. LET w == [h EXCEPT !.lastChild = this]
        IN  /\ w.parent = h.parent /\ w.firstChild = h.firstChild
            /\ w.lastChild = this /\ w.nextSibling = h.nextSibling
    BY DEF Node
  <2> HIDE DEF all, last
  <2> QED BY <1>3, <2>1, <2>3, <2>4, <2>5, <2>6, <2>7 DEF last
<1> QED BY <1>2, <1>3

(* The empty tree has the shape.                                           *)
LEMMA EmptyTreeInv ==
  nodes = EmptyTree /\ openNodes = <<Root>> /\ depths = <<>> => TreeInv
<1> USE DEF Root, InvalidNodeIdx
<1> SUFFICES ASSUME nodes = EmptyTree, openNodes = <<Root>>, depths = <<>>
             PROVE  TreeInv
  OBVIOUS
<1>1. /\ Len(nodes) = 1 /\ nodes[1] = NewNode(NoScope, 0) /\ nodes \in Seq(Node)
      /\ nodes # <<>> /\ depths \in Seq(Int) /\ Len(depths) = 0
  BY DEF EmptyTree, NewNode, Node, NoScope
<1>2. /\ Parent[1] = 0 /\ First[1] = 0 /\ Final[1] = 0 /\ Sibling[1] = 0
      /\ Level[1] = -1
  BY <1>1 DEF Parent, First, Final, Sibling, Level, NewNode
<1>3. 2 .. 1 = {} /\ \A i \in 1 .. 1 : i = 1 /\ i + 1 .. 1 = {}
  OBVIOUS
<1>4. TreeShape
  <2>1. ParentsAbove(1, Parent, Level)
    BY <1>2, <1>3 DEF ParentsAbove
  <2>2. FirstChildNext(1, Parent, First)
    BY <1>2, <1>3 DEF FirstChildNext
  <2>3. LastChildLast(1, Parent, First, Final)
    BY <1>2, <1>3 DEF LastChildLast
  <2>4. SiblingNext(1, Parent, Level, Sibling)
    BY <1>2, <1>3 DEF SiblingNext
  <2> QED BY <2>1, <2>2, <2>3, <2>4, <1>1 DEF TreeShape, Shape
<1>5. OpenPath
  <2>1. Innermost(1, Level, 1)
    BY <1>3 DEF Innermost
  <2>2. openNodes \in Seq(Nat) /\ Len(openNodes) = 1 /\ openNodes[1] = 1
    OBVIOUS
  <2> QED BY <2>1, <2>2, <1>1, <1>2 DEF OpenPath
<1> QED BY <1>1, <1>4, <1>5 DEF TreeInv, TreeTypes

(* onNodeOpen.                                                             *)
LEMMA TreeOpen ==
  ASSUME TreeInv, NEW id \in ScopeIds, OpenScope(id)
  PROVE  TreeInv'
<1> USE DEF InvalidNodeIdx
<1> DEFINE n    == Len(nodes)
           m    == Len(openNodes)
           q    == Last(openNodes)
           tree == Append(nodes, NewNode(id, q))
<1>1. /\ n \in Nat \ {0} /\ DOMAIN nodes = 1 .. n /\ nodes \in Seq(Node)
      /\ Parent \in [1 .. n -> Nat] /\ First \in [1 .. n -> Nat]
      /\ Final \in [1 .. n -> Nat] /\ Sibling \in [1 .. n -> Nat]
      /\ Level \in [1 .. n -> Int]
      /\ depths \in Seq(Int) /\ n = Len(depths) + 1
      /\ ParentsAbove(n, Parent, Level) /\ FirstChildNext(n, Parent, First)
      /\ LastChildLast(n, Parent, First, Final)
      /\ SiblingNext(n, Parent, Level, Sibling)
  BY TreeColumns DEF TreeInv, TreeShape, Shape, TreeTypes
<1>2. /\ openNodes \in Seq(Nat) /\ m \in Nat \ {0}
      /\ q \in 1 .. n /\ Level[q] = m - 2 /\ Innermost(n, Level, q)
  <2>1. openNodes \in Seq(Nat) /\ openNodes # <<>>
    BY DEF TreeInv, OpenPath
  <2>2. m \in Nat \ {0} /\ m \in 1 .. m /\ q = openNodes[m]
    BY <2>1 DEF Last
  <2> QED BY <2>1, <2>2 DEF TreeInv, OpenPath
<1>3. /\ nodes' = Linked(tree, q, n + 1)
      /\ openNodes' = Append(openNodes, n + 1)
      /\ depths' = Append(depths, m - 1)
  BY DEF OpenScope
<1>4. /\ tree \in Seq(Node) /\ Len(tree) = n + 1
      /\ tree[n + 1] = NewNode(id, q)
      /\ \A k \in 1 .. n : tree[k] = nodes[k]
  <2>1. NewNode(id, q) \in Node
    BY <1>2 DEF NewNode, Node
  <2> QED BY <2>1, <1>1
<1> HIDE DEF tree
<1>5. nodes' \in Seq(Node) /\ Len(nodes') = n + 1
  BY <1>1, <1>2, <1>3, <1>4, LinkedKeepsIds
<1>6. TreeTypes'
  <2>1. depths' \in Seq(Int) /\ Len(depths') = n /\ nodes' # <<>>
    BY <1>1, <1>2, <1>3, <1>5
  <2> QED BY <2>1, <1>1, <1>5 DEF TreeTypes
<1>7. ASSUME NEW k \in 1 .. n + 1
      PROVE  /\ Parent'[k] = tree[k].parent
             /\ First'[k] = IF k = q /\ tree[q].firstChild = 0 THEN n + 1
                            ELSE tree[k].firstChild
             /\ Final'[k] = IF k = q THEN n + 1 ELSE tree[k].lastChild
             /\ Sibling'[k] = IF tree[q].firstChild # 0 /\ k = tree[q].lastChild
                              THEN n + 1 ELSE tree[k].nextSibling
  <2>1. /\ Parent'[k] = nodes'[k].parent /\ First'[k] = nodes'[k].firstChild
        /\ Final'[k] = nodes'[k].lastChild
        /\ Sibling'[k] = nodes'[k].nextSibling
    BY <1>5 DEF Parent, First, Final, Sibling
  <2>2. q \in 1 .. Len(tree) /\ k \in 1 .. Len(tree) /\ n + 1 \in Nat
    BY <1>1, <1>2, <1>4
  <2> HIDE DEF n, q
  <2> QED BY <2>1, <2>2, <1>3, <1>4, LinkedLinks
<1>8. /\ tree[n + 1].parent = q /\ tree[n + 1].firstChild = 0
      /\ tree[n + 1].lastChild = 0 /\ tree[n + 1].nextSibling = 0
  BY <1>4 DEF NewNode
<1>9. \A k \in 1 .. n :
        /\ tree[k].parent = Parent[k] /\ tree[k].firstChild = First[k]
        /\ tree[k].lastChild = Final[k] /\ tree[k].nextSibling = Sibling[k]
  BY <1>4 DEF Parent, First, Final, Sibling
<1>10. ASSUME NEW k \in 1 .. n
       PROVE  /\ Parent'[k] = Parent[k]
              /\ First'[k] = IF k = q /\ First[q] = 0 THEN n + 1 ELSE First[k]
              /\ Final'[k] = IF k = q THEN n + 1 ELSE Final[k]
              /\ Sibling'[k] = IF First[q] # 0 /\ k = Final[q] THEN n + 1
                               ELSE Sibling[k]
  <2>1. k \in 1 .. n + 1
    BY <1>1
  <2>2. tree[q].firstChild = First[q] /\ tree[q].lastChild = Final[q]
    BY <1>2, <1>9
  <2> HIDE DEF n, q
  <2> QED BY <2>1, <2>2, <1>7, <1>9
<1>11. /\ Parent'[n + 1] = q /\ First'[n + 1] = 0 /\ Final'[n + 1] = 0
       /\ Sibling'[n + 1] = 0
  <2>1. n + 1 \in 1 .. n + 1 /\ n + 1 # q
    BY <1>1, <1>2
  <2>2. First[q] # 0 => Final[q] # n + 1
    BY <1>1, <1>2 DEF LastChildLast
  <2>3. tree[q].firstChild = First[q] /\ tree[q].lastChild = Final[q]
    BY <1>2, <1>9
  <2> HIDE DEF n, q
  <2> QED BY <2>1, <2>2, <2>3, <1>7, <1>8
<1>12. /\ Longer(n, Parent, q, Parent') /\ FirstLinked(n, First, q, First')
       /\ LastLinked(n, Final, q, Final')
  <2> HIDE DEF n, q
  <2>1. Longer(n, Parent, q, Parent')
    BY <1>10, <1>11 DEF Longer
  <2>2. FirstLinked(n, First, q, First')
    BY <1>10, <1>11 DEF FirstLinked
  <2>3. LastLinked(n, Final, q, Final')
    BY <1>10, <1>11 DEF LastLinked
  <2> QED BY <2>1, <2>2, <2>3
<1>13. SiblingLinked(n, First, Final, Sibling, q, Sibling')
  <2> HIDE DEF n, q
  <2> QED BY <1>10, <1>11 DEF SiblingLinked
<1>14. Longer(n, Level, Level[q] + 1, Level')
  <2>1. \A k \in 1 .. n + 1 : Level'[k] = IF k = Root THEN -1 ELSE depths'[k - 1]
    BY <1>5 DEF Level
  <2>2. \A k \in 1 .. n : Level[k] = IF k = Root THEN -1 ELSE depths[k - 1]
    BY DEF Level
  <2>3. /\ depths'[n] = m - 1
        /\ \A k \in 1 .. n - 1 : depths'[k] = depths[k]
    BY <1>1, <1>2, <1>3
  <2> HIDE DEF n, m, q
  <2>4. \A k \in 1 .. n : k # 1 => k - 1 \in 1 .. n - 1
    BY <1>1
  <2>5. (n + 1) - 1 = n /\ n + 1 # 1 /\ n + 1 \in 1 .. n + 1 /\ Level[q] + 1 = m - 1
    BY <1>1, <1>2
  <2>6. Level'[n + 1] = Level[q] + 1
    BY <2>1, <2>3, <2>5 DEF Root
  <2>7. ASSUME NEW k \in 1 .. n PROVE Level'[k] = Level[k]
    <3>1. k \in 1 .. n + 1
      BY <1>1
    <3> QED BY <3>1, <2>1, <2>2, <2>3, <2>4 DEF Root
  <2> QED BY <2>6, <2>7 DEF Longer
<1>15. TreeShape'
  <2> HIDE DEF n, m, q
  <2>1. ParentsAbove(n + 1, Parent', Level')
    BY <1>1, <1>2, <1>12, <1>14, ParentsGrow
  <2>2. FirstChildNext(n + 1, Parent', First')
    BY <1>1, <1>2, <1>12, FirstGrows
  <2>3. LastChildLast(n + 1, Parent', First', Final')
    BY <1>1, <1>2, <1>12, LastGrows
  <2>4. SiblingNext(n + 1, Parent', Level', Sibling')
    BY <1>1, <1>2, <1>12, <1>13, <1>14, SiblingGrows
  <2> QED BY <2>1, <2>2, <2>3, <2>4, <1>5 DEF TreeShape, Shape
<1>16. OpenPath'
  <2>1. /\ openNodes' \in Seq(Nat) /\ openNodes' # <<>>
        /\ Len(openNodes') = m + 1 /\ openNodes'[m + 1] = n + 1
        /\ \A k \in 1 .. m : openNodes'[k] = openNodes[k]
    <3>1. n + 1 \in Nat
      BY <1>1
    <3> HIDE DEF n
    <3> QED BY <3>1, <1>2, <1>3
  <2>2. \A k \in 1 .. m : /\ openNodes[k] \in 1 .. n
                          /\ Level[openNodes[k]] = k - 2
                          /\ Innermost(n, Level, openNodes[k])
    BY DEF TreeInv, OpenPath
  <2> HIDE DEF n, m, q
  <2>3. /\ Level'[n + 1] = m - 1 /\ \A k \in 1 .. n : Level'[k] = Level[k]
    BY <1>1, <1>2, <1>14 DEF Longer
  <2>4. ASSUME NEW k \in 1 .. m
        PROVE  /\ openNodes'[k] \in 1 .. n + 1
               /\ Level'[openNodes'[k]] = k - 2
               /\ Innermost(n + 1, Level', openNodes'[k])
    <3>1. PICK o \in 1 .. n : /\ o = openNodes[k] /\ o = openNodes'[k]
                              /\ Level[o] = k - 2 /\ Innermost(n, Level, o)
      BY <2>1, <2>2
    <3>2. o \in 1 .. n + 1 /\ Level'[o] = k - 2
      BY <3>1, <2>3, <1>1
    <3>3. ASSUME NEW j \in o + 1 .. n + 1 PROVE Level'[j] > Level'[o]
      <4>1. CASE j = n + 1
        <5>1. Level'[j] = m - 1
          BY <4>1, <2>3
        <5>2. m - 1 > k - 2
          BY <1>2
        <5> QED BY <5>1, <5>2, <3>2
      <4>2. CASE j # n + 1
        <5>1. j \in o + 1 .. n /\ j \in 1 .. n
          <6>1. o \in 1 .. n /\ n \in Nat
            BY <3>1, <1>1
          <6> QED BY <6>1, <4>2
        <5> QED BY <5>1, <3>1, <2>3 DEF Innermost
      <4> QED BY <4>1, <4>2
    <3> QED BY <3>1, <3>2, <3>3 DEF Innermost
  <2>5. /\ n + 1 \in 1 .. n + 1 /\ Level'[n + 1] = (m + 1) - 2
        /\ Innermost(n + 1, Level', n + 1)
    <3>1. (n + 1) + 1 .. n + 1 = {} /\ (m + 1) - 2 = m - 1 /\ n + 1 \in 1 .. n + 1
      BY <1>1, <1>2
    <3> QED BY <3>1, <2>3 DEF Innermost
  <2>6. \A k \in 1 .. m + 1 : k \in 1 .. m \/ k = m + 1
    BY <1>2
  <2>7. \A k \in 1 .. m + 1 : /\ openNodes'[k] \in 1 .. n + 1
                              /\ Level'[openNodes'[k]] = k - 2
                              /\ Innermost(n + 1, Level', openNodes'[k])
    BY <2>1, <2>4, <2>5, <2>6
  <2> QED BY <2>1, <2>7, <1>5 DEF OpenPath
<1> QED BY <1>6, <1>15, <1>16 DEF TreeInv

(* onNodeClose only writes a time, and takes the last node from the path.  *)
LEMMA TreeClose ==
  ASSUME TreeInv, NEW time \in Times, CloseScope(time)
  PROVE  TreeInv'
<1>1. CASE Len(openNodes) <= 1
  <2>1. UNCHANGED <<nodes, openNodes, depths>>
    BY <1>1 DEF CloseScope
  <2> QED BY <2>1 DEF TreeInv, TreeTypes, TreeShape, OpenPath, Parent, First,
                      Final, Sibling, Level
<1>2. CASE ~(Len(openNodes) <= 1)
  <2> DEFINE n    == Len(nodes)
             m    == Len(openNodes)
             this == Last(openNodes)
  <2>1. /\ nodes' = [nodes EXCEPT ![this].elapsedTime = time]
        /\ openNodes' = SubSeq(openNodes, 1, m - 1)
        /\ depths' = depths
    BY <1>2 DEF CloseScope, Front
  <2>2. /\ nodes \in Seq(Node) /\ n \in Nat /\ openNodes \in Seq(Nat)
        /\ m \in Nat /\ m - 1 \in 0 .. m /\ m - 1 # 0
    <3>1. nodes \in Seq(Node) /\ openNodes \in Seq(Nat)
      BY DEF TreeInv, TreeTypes, OpenPath
    <3>2. n \in Nat /\ m \in Nat /\ ~(m <= 1)
      BY <3>1, <1>2
    <3> HIDE DEF n, m
    <3>3. m - 1 \in 0 .. m /\ m - 1 # 0
      BY <3>2
    <3> QED BY <3>1, <3>2, <3>3
  <2> HIDE DEF this
  <2>3. ASSUME NEW k \in 1 .. n
        PROVE  /\ nodes'[k] \in Node
               /\ nodes'[k].parent = nodes[k].parent
               /\ nodes'[k].firstChild = nodes[k].firstChild
               /\ nodes'[k].lastChild = nodes[k].lastChild
               /\ nodes'[k].nextSibling = nodes[k].nextSibling
    <3>1. PICK v \in Node : v = nodes[k]
      BY <2>2
    <3>2. nodes'[k] = IF k = this THEN [v EXCEPT !.elapsedTime = time] ELSE v
      <4>1. k \in DOMAIN nodes
        BY <2>2
      <4>2. CASE k = this
        BY <4>1, <4>2, <3>1, <2>1
      <4>3. CASE k # this
        BY <4>1, <4>3, <3>1, <2>1
      <4> QED BY <4>2, <4>3
    <3>3. time \in Nat
      BY ProfilerAssumption
    <3>4. \A u \in Node :
            LET w == [u EXCEPT !.elapsedTime = time]
            IN  /\ w \in Node
                /\ w.parent = u.parent /\ w.firstChild = u.firstChild
                /\ w.lastChild = u.lastChild
                /\ w.nextSibling = u.nextSibling
      BY <3>3 DEF Node
    <3>5. CASE k = this
      <4>1. nodes'[k] = [v EXCEPT !.elapsedTime = time]
        BY <3>2, <3>5
      <4> QED BY <4>1, <3>1, <3>4
    <3>6. CASE k # this
      BY <3>1, <3>2, <3>6
    <3> QED BY <3>5, <3>6
  <2>4. DOMAIN nodes' = 1 .. n /\ nodes' \in [1 .. n -> Node]
    <3>1. DOMAIN nodes = 1 .. n
      BY <2>2
    <3> HIDE DEF n
    <3>2. DOMAIN nodes' = 1 .. n
      BY <3>1, <2>1
    <3>3. nodes' = [k \in DOMAIN nodes |-> nodes'[k]]
      BY <2>1
    <3> QED BY <3>1, <3>2, <3>3, <2>3
  <2>5. nodes' \in Seq(Node) /\ Len(nodes') = n
    BY <2>2, <2>4, SequenceOf
  <2>6. /\ Parent' = Parent /\ First' = First /\ Final' = Final
        /\ Sibling' = Sibling /\ Level' = Level
    BY <2>1, <2>3, <2>5 DEF Parent, First, Final, Sibling, Level
  <2>7. TreeTypes'
    <3>1. n # 0
      BY DEF TreeInv, TreeTypes
    <3>2. nodes' # <<>>
      BY <3>1, <2>5
    <3> QED BY <3>2, <2>1, <2>5 DEF TreeInv, TreeTypes
  <2>8. TreeShape'
    BY <2>5, <2>6 DEF TreeInv, TreeShape
  <2>9. /\ openNodes' \in Seq(Nat) /\ Len(openNodes') = m - 1
        /\ \A k \in 1 .. m - 1 : openNodes'[k] = openNodes[k]
    BY <2>1, <2>2, Prefix
  <2>10. OpenPath'
    <3>1. openNodes' # <<>>
      BY <2>2, <2>9
    <3>2. \A k \in 1 .. m - 1 : k \in 1 .. m
      BY <2>2
    <3> QED BY <3>1, <3>2, <2>5, <2>6, <2>9 DEF TreeInv, OpenPath
  <2> QED BY <2>7, <2>8, <2>10 DEF TreeInv
<1> QED BY <1>1, <1>2

LEMMA TreeStep ==
  ASSUME TreeInv, [Next]_vars
  PROVE  TreeInv'
<1>1. CASE Reset
  <2>1. (nodes = EmptyTree /\ openNodes = <<Root>> /\ depths = <<>> => TreeInv)'
    BY EmptyTreeInv, PTL
  <2> QED BY <1>1, <2>1 DEF Reset
<1>2. CASE EndFrame \/ UNCHANGED vars
  <2>1. UNCHANGED <<nodes, openNodes, depths>>
    BY <1>2 DEF EndFrame, vars
  <2> QED BY <2>1 DEF TreeInv, TreeTypes, TreeShape, OpenPath, Parent, First,
                      Final, Sibling, Level
<1> QED BY <1>1, <1>2, TreeOpen, TreeClose DEF Next

(* profiler.cpp:107-183, 394-411: the table lists the scopes of the frame  *)
(* in the order in which they were opened, each once and indented by its   *)
(* nesting, for any number of scopes that open and close in any shape.     *)
THEOREM ScopesListedInOrder == Spec => []WalkInOrder
<1>1. Init => TreeInv
  BY EmptyTreeInv DEF Init
<1>2. TreeInv /\ [Next]_vars => TreeInv'
  BY TreeStep
<1>3. TreeInv => WalkInOrder
  BY WalkIs DEF TreeInv
<1> QED BY <1>1, <1>2, <1>3, PTL DEF Spec

-----------------------------------------------------------------------------
(* The sum that is averaged.                                               *)

(* The sums of w over the first 0 .. n indices.                            *)
IsSumUpTo(f, n, w) ==
  f = [i \in 0 .. n |-> IF i = 0 THEN 0 ELSE f[i - 1] + w[i - 1]]

LEMMA SumUpToExists ==
  ASSUME NEW n \in Nat, NEW w
  PROVE  \E f : IsSumUpTo(f, n, w)
<1> DEFINE Wrong == {m \in Nat : \A f : ~IsSumUpTo(f, m, w)}
<1>1. ASSUME Wrong # {} PROVE FALSE
  <2>1. PICK m \in Wrong : \A k \in Wrong : m <= k
    <3>1. Wrong \in SUBSET Nat
      OBVIOUS
    <3> HIDE DEF Wrong
    <3> QED BY <3>1, <1>1, LeastOf
  <2>2. m \in Nat /\ \A f : ~IsSumUpTo(f, m, w)
    OBVIOUS
  <2>3. CASE m = 0
    <3> DEFINE f == [i \in 0 .. 0 |-> 0]
    <3>1. f = [i \in 0 .. 0 |-> IF i = 0 THEN 0 ELSE f[i - 1] + w[i - 1]]
      OBVIOUS
    <3> HIDE DEF f
    <3>2. IsSumUpTo(f, 0, w)
      BY <3>1 DEF IsSumUpTo
    <3> QED BY <2>2, <2>3, <3>2
  <2>4. CASE m # 0
    <3>1. m - 1 \in Nat /\ m - 1 < m
      BY <2>2, <2>4
    <3>2. m - 1 \notin Wrong
      <4> HIDE DEF Wrong
      <4> QED BY <2>1, <2>2, <3>1
    <3>3. PICK g : IsSumUpTo(g, m - 1, w)
      BY <3>1, <3>2
    <3> DEFINE f == [i \in 0 .. m |->
                       IF i = m THEN g[m - 1] + w[m - 1] ELSE g[i]]
    <3>4. \A i \in 0 .. m - 1 :
            g[i] = IF i = 0 THEN 0 ELSE g[i - 1] + w[i - 1]
      BY <3>3, Zenon DEF IsSumUpTo
    <3>5. ASSUME NEW i \in 0 .. m
          PROVE  f[i] = IF i = 0 THEN 0 ELSE f[i - 1] + w[i - 1]
      <4>1. CASE i = m
        <5>1. f[m] = g[m - 1] + w[m - 1]
          BY <2>2
        <5>2. f[m - 1] = g[m - 1]
          BY <3>1
        <5> HIDE DEF f
        <5> QED BY <4>1, <5>1, <5>2, <2>4
      <4>2. CASE i # m
        <5>1. i \in 0 .. m - 1
          BY <4>2, <2>2
        <5>2. f[i] = g[i]
          BY <4>2
        <5>3. i # 0 => i - 1 \in 0 .. m /\ i - 1 # m
          BY <5>1, <2>2
        <5>4. i # 0 => f[i - 1] = g[i - 1]
          BY <5>3
        <5> HIDE DEF f
        <5> QED BY <5>1, <5>2, <5>4, <3>4
      <4> QED BY <4>1, <4>2
    <3>6. f = [i \in 0 .. m |-> f[i]]
      OBVIOUS
    <3> HIDE DEF f
    <3>7. IsSumUpTo(f, m, w)
      BY <3>5, <3>6 DEF IsSumUpTo
    <3> QED BY <3>7, <2>2
  <2> QED BY <2>3, <2>4
<1> QED BY <1>1

LEMMA OneTimeMore ==
  ASSUME NEW x \in Int, NEW i \in Int
  PROVE  x * (i - 1) + x = x * i /\ x * 0 = 0 /\ x * i \in Int
OBVIOUS

(* The average of numbers between two bounds lies between them.            *)
LEMMA SumBetween ==
  ASSUME NEW r, r.cap \in Nat, NEW lo \in Int, NEW hi \in Int,
         \A i \in 0 .. r.cap - 1 :
           /\ r.window[i] \in Int
           /\ lo <= r.window[i] /\ r.window[i] <= hi
  PROVE  lo * r.cap <= WindowSum(r) /\ WindowSum(r) <= hi * r.cap
<1> DEFINE f == CHOOSE f : IsSumUpTo(f, r.cap, r.window)
<1>1. WindowSum(r) = f[r.cap]
  BY DEF WindowSum, IsSumUpTo
<1>2. IsSumUpTo(f, r.cap, r.window)
  BY SumUpToExists
<1> HIDE DEF f
<1>3. \A i \in 0 .. r.cap :
        f[i] = IF i = 0 THEN 0 ELSE f[i - 1] + r.window[i - 1]
  BY <1>2, Zenon DEF IsSumUpTo
<1> DEFINE In(i) == f[i] \in Int /\ lo * i <= f[i] /\ f[i] <= hi * i
           Wrong == {i \in 0 .. r.cap : ~In(i)}
<1>4. ASSUME Wrong # {} PROVE FALSE
  <2>1. PICK i \in Wrong : \A k \in Wrong : i <= k
    <3>1. Wrong \in SUBSET Nat
      OBVIOUS
    <3> HIDE DEF Wrong
    <3> QED BY <3>1, <1>4, LeastOf
  <2>2. i \in 0 .. r.cap /\ ~In(i)
    OBVIOUS
  <2>3. CASE i = 0
    <3>1. f[0] = 0
      BY <1>3, <2>2, <2>3
    <3>2. lo * 0 = 0 /\ hi * 0 = 0
      BY OneTimeMore
    <3> QED BY <2>2, <2>3, <3>1, <3>2
  <2>4. CASE i # 0
    <3>1. i - 1 \in 0 .. r.cap - 1 /\ i - 1 \in 0 .. r.cap /\ i - 1 < i
      BY <2>2, <2>4
    <3>2. i - 1 \notin Wrong
      <4> HIDE DEF Wrong
      <4> QED BY <2>1, <2>2, <3>1
    <3>3. In(i - 1)
      BY <3>1, <3>2
    <3>4. f[i] = f[i - 1] + r.window[i - 1]
      BY <1>3, <2>2, <2>4
    <3> DEFINE a == f[i - 1]
               v == r.window[i - 1]
               b == lo * (i - 1)
               c == hi * (i - 1)
    <3>5. /\ a \in Int /\ v \in Int /\ b <= a /\ a <= c /\ lo <= v /\ v <= hi
          /\ b \in Int /\ c \in Int
      BY <3>1, <3>3, OneTimeMore
    <3>6. b + lo = lo * i /\ c + hi = hi * i
      BY <2>2, OneTimeMore
    <3>7. f[i] = a + v
      BY <3>4
    <3> HIDE DEF a, v, b, c
    <3>8. f[i] \in Int /\ b + lo <= f[i] /\ f[i] <= c + hi
      BY <3>5, <3>7
    <3>9. In(i)
      BY <3>6, <3>8
    <3> QED BY <3>9, <2>2
  <2> QED BY <2>3, <2>4
<1>5. In(r.cap)
  <2>1. r.cap \in 0 .. r.cap
    OBVIOUS
  <2> HIDE DEF In
  <2> QED BY <2>1, <1>4
<1> QED BY <1>1, <1>5

-----------------------------------------------------------------------------
(* All that the table shows.                                               *)

(* Every node but the root is for a scope, and only scopes have statistics.*)
ScopesHaveStats ==
  /\ \A k \in 2 .. Len(nodes) : nodes[k].id \in ScopeIds
  /\ DOMAIN stats \subseteq ScopeIds
  /\ \A id \in DOMAIN stats :
       /\ stats[id] \in Stats
       /\ measured[id] = <<>> => stats[id] = StatsOf(FltMax, 0)

LEMMA ScopesHaveStatsInit == Init => ScopesHaveStats
<1>1. Init => Len(nodes) = 1
  BY DEF Init, EmptyTree
<1>2. 2 .. 1 = {}
  OBVIOUS
<1>3. Init => DOMAIN stats = {}
  BY DEF Init
<1> QED BY <1>1, <1>2, <1>3 DEF ScopesHaveStats

LEMMA StatsOpen ==
  ASSUME IInv, ScopesHaveStats, NEW id \in ScopeIds, OpenScope(id)
  PROVE  ScopesHaveStats'
<1> DEFINE n    == Len(nodes)
           q    == Last(openNodes)
           tree == Append(nodes, NewNode(id, q))
<1>1. /\ nodes \in Seq(Node) /\ n \in Nat /\ q \in Nat
  BY DEF IInv, OpenNodesHaveScopes, Last
<1>2. /\ tree \in Seq(Node) /\ Len(tree) = n + 1 /\ tree[n + 1].id = id
      /\ \A k \in 1 .. n : tree[k] = nodes[k]
  <2>1. NewNode(id, q) \in Node
    BY <1>1 DEF NewNode, Node, InvalidNodeIdx
  <2> QED BY <2>1, <1>1 DEF NewNode
<1>3. nodes' = Linked(tree, q, n + 1) /\ UNCHANGED <<stats, measured>>
  BY DEF OpenScope
<1> HIDE DEF tree, q
<1>4. Len(nodes') = n + 1 /\ \A k \in 1 .. n + 1 : nodes'[k].id = tree[k].id
  <2>1. n + 1 \in Nat
    BY <1>1
  <2>2. /\ Len(Linked(tree, q, n + 1)) = Len(tree)
        /\ \A k \in 1 .. Len(tree) : Linked(tree, q, n + 1)[k].id = tree[k].id
    BY <1>1, <1>2, <2>1, LinkedKeepsIds
  <2> QED BY <2>2, <1>2, <1>3
<1>5. ASSUME NEW k \in 2 .. n + 1 PROVE nodes'[k].id \in ScopeIds
  <2>1. k \in 1 .. n + 1 /\ (k = n + 1 \/ k \in 2 .. n)
    BY <1>1
  <2>2. CASE k = n + 1
    BY <2>1, <2>2, <1>2, <1>4
  <2>3. CASE k \in 2 .. n
    <3>1. tree[k] = nodes[k] /\ nodes[k].id \in ScopeIds
      BY <2>3, <1>2 DEF ScopesHaveStats
    <3> QED BY <2>1, <3>1, <1>4
  <2> QED BY <2>1, <2>2, <2>3
<1> QED BY <1>3, <1>4, <1>5 DEF ScopesHaveStats

LEMMA StatsClose ==
  ASSUME IInv, ScopesHaveStats, NEW time \in Times, CloseScope(time)
  PROVE  ScopesHaveStats'
<1>1. CASE Len(openNodes) <= 1
  <2>1. UNCHANGED <<nodes, stats, measured>>
    BY <1>1 DEF CloseScope
  <2> QED BY <2>1 DEF ScopesHaveStats
<1>2. CASE ~(Len(openNodes) <= 1)
  <2> DEFINE n    == Len(nodes)
             this == Last(openNodes)
             sid  == nodes[this].id
  <2>1. /\ nodes' = [nodes EXCEPT ![this].elapsedTime = time]
        /\ stats' = Stored(sid, time)
        /\ measured' = [measured EXCEPT ![sid] = Append(@, time)]
    BY <1>2 DEF CloseScope
  <2>2. /\ nodes \in Seq(Node) /\ n \in Nat /\ sid \in ScopeIds
        /\ measured \in [ScopeIds -> Seq(Times)]
    <3>1. /\ nodes \in Seq(Node) /\ openNodes \in Seq(DOMAIN nodes)
          /\ measured \in [ScopeIds -> Seq(Times)]
      BY DEF IInv, OpenNodesHaveScopes, RingsHoldTimes
    <3>2. Len(openNodes) \in 2 .. Len(openNodes)
      BY <3>1, <1>2
    <3> QED BY <3>1, <3>2 DEF IInv, OpenNodesHaveScopes, Last
  <2> HIDE DEF this, sid
  <2>3. /\ Len(nodes') = n
        /\ \A k \in 1 .. n : nodes'[k].id = nodes[k].id
    <3>1. DOMAIN nodes = 1 .. n /\ DOMAIN nodes' = 1 .. n
      BY <2>1, <2>2
    <3>2. ASSUME NEW k \in 1 .. n
          PROVE  nodes'[k] \in Node /\ nodes'[k].id = nodes[k].id
      <4>1. PICK v \in Node : v = nodes[k]
        BY <2>2
      <4>2. time \in Nat
        BY ProfilerAssumption
      <4>3. CASE k = this
        <5>1. nodes'[k] = [v EXCEPT !.elapsedTime = time]
          BY <4>1, <4>3, <3>1, <2>1
        <5> QED BY <5>1, <4>1, <4>2 DEF Node
      <4>4. CASE k # this
        BY <4>1, <4>4, <3>1, <2>1
      <4> QED BY <4>3, <4>4
    <3>3. nodes' = [k \in DOMAIN nodes |-> nodes'[k]]
      BY <2>1
    <3> HIDE DEF n
    <3>4. nodes' \in [1 .. n -> Node]
      BY <3>1, <3>2, <3>3
    <3> QED BY <3>2, <3>4, <2>2, SequenceOf
  <2>4. \A k \in 2 .. Len(nodes') : nodes'[k].id \in ScopeIds
    <3>1. \A k \in 2 .. n : k \in 1 .. n
      OBVIOUS
    <3> QED BY <3>1, <2>3 DEF ScopesHaveStats
  <2>5. /\ measured'[sid] # <<>>
        /\ \A id \in ScopeIds : id # sid => measured'[id] = measured[id]
    BY <2>1, <2>2
  <2>6. time \in Nat /\ time \in Times \cup {0} /\ Times \cup {0} \in SUBSET Int
    BY ProfilerAssumption
  <2>7. CASE sid \in DOMAIN stats
    <3> DEFINE ring == stats[sid].movingAve
    <3>1. /\ DOMAIN stats' = DOMAIN stats
          /\ stats'[sid] = [min |-> IF time < stats[sid].min THEN time
                                    ELSE stats[sid].min,
                            max |-> IF time > stats[sid].max THEN time
                                    ELSE stats[sid].max,
                            movingAve |-> Pushed(ring, time)]
          /\ \A id \in DOMAIN stats : id # sid => stats'[id] = stats[id]
      BY <2>1, <2>7 DEF Stored
    <3>2. stats[sid].min \in Nat /\ stats[sid].max \in Nat
      BY <2>7 DEF ScopesHaveStats, Stats
    <3>3. stats'[sid].movingAve \in Ring(Times \cup {0})
      <4>1. RingsHoldTimes'
        BY CloseScopeIInv DEF IInv
      <4> QED BY <4>1, <3>1, <2>2, <2>7 DEF RingsHoldTimes
    <3>4. stats'[sid] \in Stats
      <4>1. Pushed(ring, time) \in Ring(Times \cup {0})
        BY <3>1, <3>3
      <4> HIDE DEF ring
      <4> QED BY <4>1, <3>1, <3>2, <2>6 DEF Stats
    <3> QED BY <3>1, <3>4, <2>2, <2>4, <2>5 DEF ScopesHaveStats
  <2>8. CASE sid \notin DOMAIN stats
    <3>1. /\ DOMAIN stats' = DOMAIN stats \cup {sid}
          /\ stats'[sid] = StatsOf(time, time)
          /\ \A id \in DOMAIN stats : stats'[id] = stats[id]
      BY <2>1, <2>8 DEF Stored
    <3>2. StatsOf(time, time) \in Stats
      BY <2>6, EmptyHoldsLatest DEF Stats, StatsOf
    <3> QED BY <3>1, <3>2, <2>2, <2>4, <2>5, <2>8 DEF ScopesHaveStats
  <2> QED BY <2>7, <2>8
<1> QED BY <1>1, <1>2

(* What getFrame shows are nodes of scopes: the walk meets no other.       *)
LEMMA StatsEndFrame ==
  ASSUME IInv, TreeInv, ScopesHaveStats, EndFrame
  PROVE  ScopesHaveStats'
<1> DEFINE shown == {nodes[it.idx].id : it \in ToSet(Walk)}
<1>1. /\ stats' = [id \in DOMAIN stats \cup shown |->
                     IF id \in DOMAIN stats THEN stats[id] ELSE StatsOf(FltMax, 0)]
      /\ UNCHANGED <<nodes, measured>>
  BY DEF EndFrame
<1>2. shown \subseteq ScopeIds
  <2>1. Walk = [k \in 1 .. Len(depths) |-> [idx |-> k + 1, depth |-> depths[k]]]
    BY WalkIs DEF TreeInv, WalkInOrder
  <2>2. Len(depths) \in Nat /\ Len(nodes) = Len(depths) + 1
    BY DEF TreeInv, TreeTypes
  <2>3. ASSUME NEW it \in ToSet(Walk) PROVE nodes[it.idx].id \in ScopeIds
    <3>1. PICK k \in 1 .. Len(depths) : it.idx = k + 1
      BY <2>1 DEF ToSet
    <3>2. k + 1 \in 2 .. Len(nodes)
      BY <3>1, <2>2
    <3> QED BY <3>1, <3>2 DEF ScopesHaveStats
  <2> QED BY <2>3
<1> HIDE DEF shown
<1>3. StatsOf(FltMax, 0) \in Stats
  <2>1. Times \cup {0} \in SUBSET Int /\ 0 \in Times \cup {0}
    BY ProfilerAssumption
  <2> QED BY <2>1, EmptyHoldsLatest DEF Stats, StatsOf, FltMax
<1> QED BY <1>1, <1>2, <1>3 DEF ScopesHaveStats

LEMMA ScopesHaveStatsStep ==
  ASSUME IInv, TreeInv, ScopesHaveStats, [Next]_vars
  PROVE  ScopesHaveStats'
<1>1. CASE UNCHANGED vars
  BY <1>1 DEF vars, ScopesHaveStats
<1>2. CASE Reset
  <2>1. Len(nodes') = 1 /\ 2 .. 1 = {} /\ UNCHANGED <<stats, measured>>
    BY <1>2 DEF Reset, EmptyTree
  <2> QED BY <2>1 DEF ScopesHaveStats
<1> QED BY <1>1, <1>2, StatsOpen, StatsClose, StatsEndFrame DEF Next

(* profiler.cpp:296-330: what the table shows of a scope, the extremes and *)
(* the average, is sound for all the times measured, from the first row.   *)
THEOREM StatisticsSound == Spec => []StatsSound
<1>1. ASSUME IInv, ExtremesExact, ScopesHaveStats PROVE StatsSound
  <2>1. TypeOK
    BY <1>1
    DEF TypeOK, IInv, OpenNodesHaveScopes, RingsHoldTimes, ScopesHaveStats
  <2>2. ASSUME NEW id \in DOMAIN stats
        PROVE  LET s == stats[id]
                   sum == WindowSum(s.movingAve)
                   all == ToSet(measured[id])
               IN  IF all = {} THEN s = StatsOf(FltMax, 0)
                   ELSE /\ s.min \in all /\ s.max \in all
                        /\ \A time \in all : s.min <= time /\ time <= s.max
                        /\ s.min * s.movingAve.cap <= sum
                        /\ sum <= s.max * s.movingAve.cap
    <3> DEFINE s    == stats[id]
               ring == s.movingAve
    <3>1. /\ id \in ScopeIds /\ s \in Stats
          /\ measured[id] \in Seq(Times)
          /\ measured[id] = <<>> => s = StatsOf(FltMax, 0)
          /\ ExtremesOf(s.min, s.max, measured[id])
      BY <1>1 DEF ScopesHaveStats, IInv, RingsHoldTimes, ExtremesExact
    <3>2. measured[id] = <<>> <=> ToSet(measured[id]) = {}
      <4>1. PICK m \in Seq(Times) : m = measured[id]
        BY <3>1
      <4>2. m # <<>> => m[1] \in ToSet(m)
        BY DEF ToSet
      <4>3. m = <<>> => ToSet(m) = {}
        BY DEF ToSet
      <4> QED BY <4>1, <4>2, <4>3
    <3>3. /\ ring \in Ring(Times \cup {0}) /\ s.min \in Int /\ s.max \in Int
      BY <3>1 DEF Stats
    <3>4. \A i \in 0 .. ring.cap - 1 :
            /\ ring.window[i] \in Int
            /\ s.min <= ring.window[i] /\ ring.window[i] <= s.max
      <4>1. AveragedBetween
        BY <1>1, BetweenExtremes
      <4>2. \A i \in 0 .. ring.cap - 1 : i \in Indices
        BY <3>3, WindowAssumption DEF Ring, Indices
      <4>3. \A i \in Indices : ring.window[i] \in Int
        <5>1. Times \cup {0} \in SUBSET Int
          BY ProfilerAssumption
        <5>2. ring.window \in [Indices -> Times \cup {0}]
          BY <3>3 DEF Ring
        <5> HIDE DEF ring
        <5> QED BY <5>1, <5>2
      <4> QED BY <4>1, <4>2, <4>3, <3>1 DEF AveragedBetween
    <3>5. ring.cap \in Nat
      BY <3>3, WindowAssumption DEF Ring
    <3>6. /\ s.min * ring.cap <= WindowSum(ring)
          /\ WindowSum(ring) <= s.max * ring.cap
      <4> HIDE DEF ring, s
      <4> QED BY <3>3, <3>4, <3>5, SumBetween
    <3> HIDE DEF ring
    <3> QED BY <3>1, <3>2, <3>6 DEF ExtremesOf, ring
  <2> QED BY <2>1, <2>2 DEF StatsSound
<1>2. Spec => [](IInv /\ ExtremesExact /\ TreeInv /\ ScopesHaveStats)
  <2>1. Init => TreeInv /\ ScopesHaveStats
    BY EmptyTreeInv, ScopesHaveStatsInit DEF Init
  <2>2. IInv /\ TreeInv /\ ScopesHaveStats /\ [Next]_vars
          => (TreeInv /\ ScopesHaveStats)'
    BY TreeStep, ScopesHaveStatsStep
  <2> QED BY <2>1, <2>2, ExtremesInvariant, PTL DEF Spec
<1> QED BY <1>1, <1>2, PTL
=============================================================================

