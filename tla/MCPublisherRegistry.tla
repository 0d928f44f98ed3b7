------------------------ MODULE MCPublisherRegistry ------------------------
(* Three handles of one topic and one of another: a handle can leave while *)
(* others of its own and of the other topic come and go.                   *)
EXTENDS PublisherRegistry

CONSTANTS t1, t2, p1, p2, p3, p4

MCTopicOf == [p \in {p1, p2, p3, p4} |-> IF p = p4 THEN t2 ELSE t1]
=============================================================================
