--------------------------- MODULE MCMessageQueue ---------------------------
(* The two users of the queue, one after the other.  First the program: a  *)
(* producer of damage 3 and one of healing 6, ten frames.  Then any client *)
(* with six messages: enough for the vector to grow twice and to have      *)
(* spare capacity, a non-empty overflow and inactive messages at once.     *)
EXTENDS ConsumerProducer, MessageQueueClient

CONSTANTS damage, heal

MCPayload == [p \in {damage, heal} |-> IF p = damage THEN -3 ELSE 6]

ProgramIsOver == \A t \in Threads : pc[t] = "done"

MCInit == ProgramInit /\ Init

MCNext ==
  \/ ProgramNext /\ UNCHANGED vars
  \/ ProgramIsOver /\ Next /\ UNCHANGED programVars

MCSpec == MCInit /\ [][MCNext]_<<programVars, vars>> /\ Fairness
=============================================================================
