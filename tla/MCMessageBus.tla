---------------------------- MODULE MCMessageBus ----------------------------
(* Three handles on topic 0 and two on topic 1, of which subscribeAll owns *)
(* one each: an unsubscribe moves another link into the place it frees.    *)
EXTENDS MessageBus

CONSTANTS s1, s2, s3, i1, p1

MCHandles == {s1, s2, s3, <<i1, 0>>, <<i1, 1>>}
MCTopicOf == [h \in MCHandles |->
                IF h \in {s1, s2} \/ h = <<i1, 0>> THEN 0 ELSE 1]
MCEntryOf == [i \in {i1} |-> [t \in 0 .. 1 |-> <<i, t>>]]
=============================================================================
