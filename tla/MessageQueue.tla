---------------------------- MODULE MessageQueue ----------------------------
(***************************************************************************)
(* ConsumerProducer::MessageQueue (tests/test_consumer_producer): a vector *)
(* whose prefix of active messages may be iterated, and an overflow vector *)
(* for messages that would make the first one reallocate.  One operator    *)
(* per method, from a queue to the queue it leaves behind.                 *)
(***************************************************************************)
EXTENDS Naturals, Sequences

Larger(a, b) == IF a > b THEN a ELSE b

EmptyQueue ==
  [messages |-> <<>>,             (* messages_                             *)
   capacity |-> 0,                (* messages_.capacity()                  *)
   overflowMessages |-> <<>>,
   activeMessageStart |-> 0,
   messageCount |-> 0]

(* Mutant: never uses the overflow vector.                                 *)
EnqueueGrowing(q, m) ==
  [q EXCEPT !.messages = Append(@, m),
            !.capacity = Larger(@, Len(q.messages) + 1)]

Enqueue(q, m) ==
  IF Len(q.messages) < q.capacity
  THEN [q EXCEPT !.messages = Append(@, m)]
  ELSE [q EXCEPT !.overflowMessages = Append(@, m)]

(* The capacities a vector may choose when it must hold "size" elements:   *)
(* half as much again (MSVC) or twice its size (libstdc++, libc++).        *)
Growths(q, size) ==
  IF size <= q.capacity THEN {q.capacity}
  ELSE {Larger(size, q.capacity + q.capacity \div 2),
        Larger(size, 2 * Len(q.messages))}

(* Mutant: forgets to empty the overflow vector.                           *)
CommitsKeepingOverflow(q) ==
  LET all == q.messages \o q.overflowMessages
  IN  {[q EXCEPT !.messages = all, !.capacity = c, !.messageCount = Len(all)] :
         c \in Growths(q, Len(all))}

(* Mutant: the overflow is inserted at the front.                          *)
CommitsInFront(q) ==
  LET all == q.overflowMessages \o q.messages
  IN  {[q EXCEPT !.messages = all, !.capacity = c, !.messageCount = Len(all),
                 !.overflowMessages = <<>>] : c \in Growths(q, Len(all))}

Commits(q) ==
  LET all == q.messages \o q.overflowMessages
  IN  {[q EXCEPT !.messages = all, !.capacity = c, !.messageCount = Len(all),
                 !.overflowMessages = <<>>] : c \in Growths(q, Len(all))}

(* count(), and whether getOldestActiveMessageAndDeactivate finds one.     *)
Count(q) == q.messageCount - q.activeMessageStart
HasActive(q) == q.activeMessageStart < q.messageCount

Oldest(q) == q.messages[q.activeMessageStart + 1]

Deactivated(q) == [q EXCEPT !.activeMessageStart = @ + 1]

(* The messages a clearAllInactiveMessages deletes, and what it leaves.    *)
Inactive(q) == SubSeq(q.messages, 1, q.activeMessageStart)

InactiveCleared(q) ==
  LET rest == SubSeq(q.messages, q.activeMessageStart + 1, Len(q.messages))
  IN  [q EXCEPT !.messages = rest, !.messageCount = Len(rest),
                !.activeMessageStart = 0]

(* clear(): the vector keeps its capacity.                                 *)
Cleared(q) == [EmptyQueue EXCEPT !.capacity = q.capacity]
=============================================================================
