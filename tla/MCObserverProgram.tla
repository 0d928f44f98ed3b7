-------------------------- MODULE MCObserverProgram --------------------------
(* The test program, and the same with the health monitor registered, that *)
(* it leaves out "in order for it not to compete with the inspector's      *)
(* output": the two handlers, a stop key and any other key, and two        *)
(* threads of the pool.                                                    *)
EXTENDS ObserverProgram

MCHears ==
  [inspector |-> HandlerKeys \cup {Heartbeat}, healthTracker |-> {Heartbeat},
   collisionTracker |-> {"s"}, display |-> {"c"}]

MCPrograms ==
  {<<"inspector", "collisionTracker", "display">>,
   <<"inspector", "healthTracker", "collisionTracker", "display">>}
=============================================================================
