---------------------------- MODULE MovingAverage ----------------------------
(***************************************************************************)
(* Datastructs::MovingAverage (datastructs/movingaverage.h): a ring of the *)
(* latest items, whose filled part is averaged.                            *)
(***************************************************************************)
EXTENDS Integers, Sequences

CONSTANT WindowSize

ASSUME WindowAssumption == WindowSize \in Nat \ {0}

Indices == 0 .. WindowSize - 1

Ring(Items) ==
  [head : Indices, cap : 0 .. WindowSize, window : [Indices -> Items]]

EmptyRing == [head |-> 0, cap |-> 0, window |-> [i \in Indices |-> 0]]

NextHead(r) == IF r.head = WindowSize - 1 THEN 0 ELSE r.head + 1

NextCap(r) == IF r.cap < WindowSize THEN r.cap + 1 ELSE r.cap

(* Mutant: the head moves before the item is stored.                       *)
PushedAhead(r, item) ==
  [head |-> NextHead(r), cap |-> NextCap(r),
   window |-> [r.window EXCEPT ![NextHead(r)] = item]]

(* pushItem                                                                *)
Pushed(r, item) ==
  [head |-> NextHead(r), cap |-> NextCap(r),
   window |-> [r.window EXCEPT ![r.head] = item]]

(* getMovingAverage is WindowSum / cap, and zero while there is no item.   *)
WindowSum(r) ==
  LET upTo[i \in 0 .. r.cap] ==
        IF i = 0 THEN 0 ELSE upTo[i - 1] + r.window[i - 1]
  IN  upTo[r.cap]

-----------------------------------------------------------------------------
(* The specification of the ring: it holds the latest of a sequence of     *)
(* items, as many as fit, each where the next wrap-around will find it.    *)

Smaller(a, b) == IF a < b THEN a ELSE b

(* Where the item pushed j items ago is.                                   *)
IndexOf(r, j) ==
  IF j < r.head THEN r.head - 1 - j ELSE r.head - 1 - j + WindowSize

HoldsLatest(r, items) ==
  /\ r.cap = Smaller(WindowSize, Len(items))
  /\ Len(items) < WindowSize => r.head = Len(items)
  /\ \A j \in 0 .. r.cap - 1 :
       r.window[IndexOf(r, j)] = items[Len(items) - j]
=============================================================================
