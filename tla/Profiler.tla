------------------------------ MODULE Profiler ------------------------------
(***************************************************************************)
(* The scope profiler (shared/source/profiler.cpp): ScopeTimers open and   *)
(* close nodes of a tree that is kept for one frame, and statistics that   *)
(* are kept for ever.  A ScopeTimer is a local variable, so the last one   *)
(* opened is the first to close; one may be open across frames.            *)
(*                                                                         *)
(* Indices of nodes are one higher than in the code; nothing in the        *)
(* repository sets sIsPaused, which is left out.                           *)
(***************************************************************************)
EXTENDS MovingAverage, SequencesExt

CONSTANTS
  ScopeIds,   (* FILELINE_ID of each PROFILE_SCOPE                          *)
  Times,      (* how long a scope may take, in microseconds                 *)
  MaxScopes,  (* bound: scopes ever opened                                  *)
  MaxResets   (* bound: frames ever started                                 *)

InvalidNodeIdx == 0
Root           == 1    (* a node of no scope                                *)
StartIdx       == 2    (* m_sStartIdx: begin() skips the root               *)
NoScope        == -1
FltMax         == 1000000

ASSUME ProfilerAssumption ==
  /\ ScopeIds \subseteq Nat /\ Times \subseteq 0 .. FltMax
  /\ MaxScopes \in Nat /\ MaxResets \in Nat

VARIABLES
  nodes,      (* m_nodes                                                    *)
  openNodes,  (* m_openNodes                                                *)
  stats,      (* m_stats                                                    *)
  scopes,     (* the live ScopeTimers, each with the node it opened         *)
  opened,     (* how many scopes were ever opened (for the bound)           *)
  resets,     (* history: how often the tree was emptied                    *)
  depths,     (* history: the nesting of the scopes of the tree's nodes     *)
  measured    (* history: the times each scope's node was closed with       *)

vars == <<nodes, openNodes, stats, scopes, opened, resets, depths, measured>>

Node ==
  [id : ScopeIds \cup {NoScope}, elapsedTime : Nat, parent : Nat,
   firstChild : Nat, lastChild : Nat, nextSibling : Nat]

NewNode(id, parent) ==
  [id |-> id, elapsedTime |-> 0, parent |-> parent,
   firstChild |-> InvalidNodeIdx, lastChild |-> InvalidNodeIdx,
   nextSibling |-> InvalidNodeIdx]

EmptyTree == <<NewNode(NoScope, InvalidNodeIdx)>>

Stats == [min : Nat, max : Nat, movingAve : Ring(Times \cup {0})]

StatsOf(min, max) == [min |-> min, max |-> max, movingAve |-> EmptyRing]

-----------------------------------------------------------------------------
(* iterator: preorder over first children and next siblings.               *)

Iterators(indices) == [idx : indices, depth : Int]

(* advance() without a first child: to the next sibling of the node, or of *)
(* the nearest parent that has one.  Past the root the walk ends.          *)
Climbed[it \in Iterators(DOMAIN nodes)] ==
  IF nodes[it.idx].nextSibling # InvalidNodeIdx
    THEN [idx |-> nodes[it.idx].nextSibling, depth |-> it.depth]
  ELSE IF nodes[it.idx].parent = InvalidNodeIdx
    THEN [idx |-> InvalidNodeIdx, depth |-> -1]
  ELSE Climbed[[idx |-> nodes[it.idx].parent, depth |-> it.depth - 1]]

Advance(it) ==
  IF nodes[it.idx].firstChild # InvalidNodeIdx
  THEN [idx |-> nodes[it.idx].firstChild, depth |-> it.depth + 1]
  ELSE Climbed[it]

(* What the iterator visits from a node on, to the end of the tree.        *)
Visited[it \in Iterators({InvalidNodeIdx} \cup DOMAIN nodes)] ==
  IF it.idx = InvalidNodeIdx THEN <<>> ELSE <<it>> \o Visited[Advance(it)]

(* What for (it = begin(); it != end(); it++) visits.                      *)
Walk ==
  IF Len(nodes) < StartIdx THEN <<>>
  ELSE Visited[[idx |-> StartIdx, depth |-> 0]]

-----------------------------------------------------------------------------
Init ==
  /\ nodes = EmptyTree
  /\ openNodes = <<Root>>
  /\ stats = <<>>
  /\ scopes = <<>>
  /\ opened = 0
  /\ resets = 0
  /\ depths = <<>>
  /\ measured = [id \in ScopeIds |-> <<>>]

(* Mutant: a further child does not become the last child.                 *)
LinkedKeepingLast(tree, parent, this) ==
  IF tree[parent].firstChild = InvalidNodeIdx
  THEN [tree EXCEPT ![parent].firstChild = this, ![parent].lastChild = this]
  ELSE [tree EXCEPT ![tree[parent].lastChild].nextSibling = this]

(* The new node becomes the last child of its parent.                      *)
Linked(tree, parent, this) ==
  IF tree[parent].firstChild = InvalidNodeIdx
  THEN [tree EXCEPT ![parent].firstChild = this, ![parent].lastChild = this]
  ELSE [tree EXCEPT ![tree[parent].lastChild].nextSibling = this,
                    ![parent].lastChild = this]

(* ScopeTimer(id): onNodeOpen.                                             *)
OpenScope(id) ==
  LET parent == Last(openNodes)
      this == Len(nodes) + 1
  IN  /\ opened < MaxScopes
      /\ nodes' = Linked(Append(nodes, NewNode(id, parent)), parent, this)
      /\ openNodes' = Append(openNodes, this)
      /\ scopes' = Append(scopes, [id |-> id, node |-> this, resets |-> resets])
      /\ depths' = Append(depths, Len(openNodes) - 1)
      /\ opened' = opened + 1
      /\ UNCHANGED <<stats, resets, measured>>

(* Mutant: a time is compared with the minimum only if it is no maximum.   *)
StoredElseMin(id, time) ==
  IF id \in DOMAIN stats
  THEN [stats EXCEPT
          ![id] = [min |-> IF time <= @.max /\ time < @.min THEN time ELSE @.min,
                   max |-> IF time > @.max THEN time ELSE @.max,
                   movingAve |-> Pushed(@.movingAve, time)]]
  ELSE [i \in DOMAIN stats \cup {id} |->
          IF i = id THEN StatsOf(time, time) ELSE stats[i]]

(* storeStats; a scope's first time is not pushed to its moving average.   *)
Stored(id, time) ==
  IF id \in DOMAIN stats
  THEN [stats EXCEPT
          ![id] = [min |-> IF time < @.min THEN time ELSE @.min,
                   max |-> IF time > @.max THEN time ELSE @.max,
                   movingAve |-> Pushed(@.movingAve, time)]]
  ELSE [i \in DOMAIN stats \cup {id} |->
          IF i = id THEN StatsOf(time, time) ELSE stats[i]]

(* Mutant: the newest node is closed instead of the last open one.         *)
CloseNewest(time) ==
  /\ scopes # <<>>
  /\ scopes' = Front(scopes)
  /\ IF Len(openNodes) <= 1
     THEN UNCHANGED <<nodes, openNodes, stats, measured>>
     ELSE LET this == Len(nodes)
              id == nodes[this].id
          IN  /\ nodes' = [nodes EXCEPT ![this].elapsedTime = time]
              /\ openNodes' = Front(openNodes)
              /\ stats' = Stored(id, time)
              /\ measured' = [measured EXCEPT ![id] = Append(@, time)]
  /\ UNCHANGED <<opened, resets, depths>>

(* ~ScopeTimer: onNodeClose, which closes the last open node.              *)
CloseScope(time) ==
  /\ scopes # <<>>
  /\ scopes' = Front(scopes)
  /\ IF Len(openNodes) <= 1
     THEN UNCHANGED <<nodes, openNodes, stats, measured>>
     ELSE LET this == Last(openNodes)
              id == nodes[this].id
          IN  /\ nodes' = [nodes EXCEPT ![this].elapsedTime = time]
              /\ openNodes' = Front(openNodes)
              /\ stats' = Stored(id, time)
              /\ measured' = [measured EXCEPT ![id] = Append(@, time)]
  /\ UNCHANGED <<opened, resets, depths>>

(* onStartFrame and endProfiler: reset.                                    *)
Reset ==
  /\ resets < MaxResets
  /\ nodes' = EmptyTree
  /\ openNodes' = <<Root>>
  /\ depths' = <<>>
  /\ resets' = resets + 1
  /\ UNCHANGED <<stats, scopes, opened, measured>>

(* onEndFrame: getFrame shows every node of the tree, and creates the      *)
(* statistics of scopes that never closed.                                 *)
EndFrame ==
  LET shown == {nodes[it.idx].id : it \in ToSet(Walk)}
  IN  /\ stats' = [id \in DOMAIN stats \cup shown |->
                     IF id \in DOMAIN stats THEN stats[id] ELSE StatsOf(FltMax, 0)]
      /\ UNCHANGED <<nodes, openNodes, scopes, opened, resets, depths, measured>>

Next ==
  \/ \E id \in ScopeIds : OpenScope(id)
  \/ \E time \in Times : CloseScope(time)
  \/ Reset
  \/ EndFrame

Spec == Init /\ [][Next]_vars

-----------------------------------------------------------------------------
(* Types.                                                                  *)
TypeOK ==
  /\ nodes \in Seq(Node)
  /\ openNodes \in Seq(DOMAIN nodes)
  /\ openNodes # <<>>
  /\ DOMAIN stats \subseteq ScopeIds
  /\ \A id \in DOMAIN stats : stats[id] \in Stats
  /\ measured \in [ScopeIds -> Seq(Times)]

(* The table lists every scope of the frame, once, in the order in which   *)
(* they were opened and indented by their nesting, whatever the shape of   *)
(* the tree and whichever scopes are still open.                           *)
WalkInOrder ==
  Walk = [k \in 1 .. Len(depths) |-> [idx |-> k + 1, depth |-> depths[k]]]

(* A time is stored in the node that its own scope opened in this frame; a *)
(* scope that was opened before the frame started stores none, and takes   *)
(* no node of another scope with it.                                       *)
TimesStayWithScopes ==
  [][\A k \in DOMAIN nodes \cap DOMAIN nodes' :
       nodes'[k].elapsedTime # nodes[k].elapsedTime =>
         /\ Last(scopes).node = k
         /\ Last(scopes).resets = resets
         /\ scopes' = Front(scopes)]_vars

(* The statistics are those of all the times measured; the average of what *)
(* is in the ring lies between the extremes shown beside it, also when the *)
(* row was shown before the scope first closed.                            *)
StatsSound ==
  /\ TypeOK
  /\ \A id \in DOMAIN stats :
       LET s == stats[id]
           sum == WindowSum(s.movingAve)
           all == ToSet(measured[id])
       IN  IF all = {} THEN s = StatsOf(FltMax, 0)
           ELSE /\ s.min \in all /\ s.max \in all
                /\ \A time \in all : s.min <= time /\ time <= s.max
                /\ s.min * s.movingAve.cap <= sum
                /\ sum <= s.max * s.movingAve.cap

(* The moving average of a scope is over its latest times, as many as fit  *)
(* the window and in their order, and over nothing that was overwritten or *)
(* never filled.  Only the time that creates the entry may be missing: it  *)
(* is not pushed.                                                          *)
AveragesLatest ==
  \A id \in ScopeIds \cap DOMAIN stats :
    LET ring == stats[id].movingAve
    IN  \/ HoldsLatest(ring, measured[id])
        \/ measured[id] # <<>> /\ HoldsLatest(ring, Tail(measured[id]))
=============================================================================
