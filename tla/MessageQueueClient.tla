------------------------- MODULE MessageQueueClient -------------------------
(***************************************************************************)
(* ConsumerProducer::MessageBus, every sequence of calls its interface     *)
(* allows: each method of the bus is one method of its queue.  Messages    *)
(* are numbered in the order they are sent.                                *)
(***************************************************************************)
EXTENDS MessageQueue, FiniteSets

CONSTANT MaxMessages   (* bound: messages sent                             *)

ASSUME ClientAssumption == MaxMessages \in Nat

VARIABLES
  queue,       (* MessageBus::queue_                                       *)
  sent,        (* history: the messages sent so far are 1 .. sent          *)
  committed,   (* history: those sent before a commitAll                   *)
  taken,       (* history: what getNextMessage returned, in order          *)
  deleted,     (* history: how often each message was deleted              *)
  clearedPending (* history: whether the inactive messages were ever       *)
                 (* cleared while others waited for their commit           *)

vars == <<queue, sent, committed, taken, deleted, clearedPending>>

Messages == 1 .. MaxMessages
Elements(s) == {s[k] : k \in 1 .. Len(s)}
Delete(s) == deleted' = [m \in Messages |->
                           deleted[m] + Cardinality({k \in 1 .. Len(s) : s[k] = m})]

Init ==
  /\ queue = EmptyQueue
  /\ sent = 0
  /\ committed = {}
  /\ taken = <<>>
  /\ deleted = [m \in Messages |-> 0]
  /\ clearedPending = FALSE

Send ==
  /\ sent < MaxMessages
  /\ sent' = sent + 1
  /\ queue' = Enqueue(queue, sent + 1)
  /\ UNCHANGED <<committed, taken, deleted, clearedPending>>

CommitAll ==
  /\ queue' \in Commits(queue)
  /\ committed' = 1 .. sent
  /\ UNCHANGED <<sent, taken, deleted, clearedPending>>

GetNextMessage ==
  /\ HasActive(queue)
  /\ taken' = Append(taken, Oldest(queue))
  /\ queue' = Deactivated(queue)
  /\ UNCHANGED <<sent, committed, deleted, clearedPending>>

Pending(q) == q.messageCount < Len(q.messages) \/ q.overflowMessages # <<>>

ClearInactiveMessages ==
  /\ Delete(Inactive(queue))
  /\ queue' = InactiveCleared(queue)
  /\ clearedPending' = (clearedPending \/ Pending(queue))
  /\ UNCHANGED <<sent, committed, taken>>

ClearAll ==
  /\ Delete(queue.messages \o queue.overflowMessages)
  /\ queue' = Cleared(queue)
  /\ UNCHANGED <<sent, committed, taken, clearedPending>>

Next == Send \/ CommitAll \/ GetNextMessage \/ ClearInactiveMessages \/ ClearAll

Spec == Init /\ [][Next]_vars

-----------------------------------------------------------------------------
(* Types, and the window: start <= count <= size <= capacity.              *)
TypeOK ==
  /\ sent \in 0 .. MaxMessages
  /\ Elements(queue.messages) \cup Elements(queue.overflowMessages) \subseteq 1 .. sent
  /\ queue.activeMessageStart <= queue.messageCount
  /\ queue.messageCount <= Len(queue.messages)
  /\ Len(queue.messages) <= queue.capacity
  /\ committed \subseteq 1 .. sent
  /\ Elements(taken) \subseteq 1 .. sent
  /\ deleted \in [Messages -> Nat]
  /\ clearedPending \in BOOLEAN

(* Every message sent is in exactly one place of the two vectors, or was   *)
(* deleted exactly once: none leaks and none is deleted twice, whatever    *)
(* calls are mixed; and the window is one.  A pointer that getNextMessage  *)
(* returned stays good until a clear, and nothing is taken twice.          *)
OwnedOnce ==
  /\ TypeOK
  /\ LET all == queue.messages \o queue.overflowMessages
     IN  \A m \in 1 .. sent :
           deleted[m] + Cardinality({k \in 1 .. Len(all) : all[k] = m}) = 1
  /\ Cardinality(Elements(taken)) = Len(taken)
  /\ {m \in Elements(taken) : deleted[m] = 0} = Elements(Inactive(queue))

(* Sending never moves what may be iterated over: only a commit may make   *)
(* the vector grow, and only a clear moves the active messages.            *)
IteratorsStayValid ==
  [][sent' # sent =>
       /\ queue'.capacity = queue.capacity
       /\ queue'.activeMessageStart = queue.activeMessageStart
       /\ queue'.messageCount = queue.messageCount
       /\ \A k \in 1 .. queue.messageCount :
            queue'.messages[k] = queue.messages[k]]_vars

(* getNextMessage "retrieves the oldest message" (message_queue.h:83), also*)
(* across the overflow vector and the growth of the first one, and one that*)
(* is there, as "activated when commitAll() is called" (message_bus.h:22): *)
(* true in every sequence of calls that never clears the inactive messages *)
(* while one waits for its commit.  Such a clear activates those that wait *)
(* (message_queue.h:108), and makes room for later ones to overtake what   *)
(* is in the overflow vector.                                              *)
OldestFirst ==
  ~clearedPending =>
    /\ Elements(taken) \subseteq committed
    /\ \A j, k \in 1 .. Len(taken) : j < k => taken[j] < taken[k]
=============================================================================
