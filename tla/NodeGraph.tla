------------------------------ MODULE NodeGraph ------------------------------
(***************************************************************************)
(* Nodes connected by topics (dataflow/base_node.h, node.h, node_input.h,  *)
(* node_output.h): each node has a thread that fires when every input      *)
(* holds enough messages; a message is delivered to the queues of the      *)
(* subscribed inputs by the thread that produces it, while these nodes and *)
(* the owner, who constructs and destroys others, go on.                   *)
(*                                                                         *)
(* The bus is used as TopicBus describes it.  Every critical section of an *)
(* input's mutex is a step.  A call of an input whose queue and mutex are  *)
(* destroyed is a fault, and the model stops there.  One of a process that *)
(* is destroyed is a fault, too, or goes on: no process keeps a state.     *)
(***************************************************************************)
EXTENDS Integers, Sequences, FiniteSets

CONSTANTS
  Programs,       (* each its nodes, in the order they are constructed     *)
  Ending,         (* those that are told to end, and destroy their nodes   *)
  NodeOf,         (* each node's type: see NodeType                        *)
  Compute(_, _),  (* what a type computes from its operands' userData      *)
  Topics,
  MaxNumbers      (* bound: messages a node without inputs generates       *)

NodesOf(program) == {program[k] : k \in 1 .. Len(program)}
Nodes == UNION {NodesOf(p) : p \in Programs}
Inputs(n) == NodeOf[n].inputs
Ports == UNION {{<<n, i>> : i \in 1 .. Len(Inputs(n))} : n \in Nodes}
TopicOf(p) == Inputs(p[1])[p[2]].topic

(* A node's type: its inputs, each with the number of messages that makes  *)
(* it ready; the input of each consume() in fire, in order; the topic of   *)
(* its output; whether fire goes on while the input is ready, and whether  *)
(* it is a process, which stages its message for its wrapper to publish    *)
(* (LocalProcess).  Each node of the repository has one output, and each   *)
(* process stages once in every fire.                                      *)
NodeType ==
  [inputs : Seq([topic : Topics, consumeCount : Nat \ {0}]),
   consumes : Seq(Nat), output : Topics, drains : BOOLEAN, stages : BOOLEAN]

(* How many of the consumes from the j-th on take from input i.            *)
Uses(n, i, j) ==
  Cardinality({k \in j .. Len(NodeOf[n].consumes) : NodeOf[n].consumes[k] = i})

(* Message{}: its topic is Topic_Count, which is no topic of the bus.      *)
DefaultMessage == [topic |-> "Topic_Count", userData |-> 0]

ASSUME GraphAssumption ==
  /\ MaxNumbers \in Nat
  /\ Ending \subseteq Programs
  /\ DefaultMessage.topic \notin Topics
  /\ \A p \in Programs :
       /\ p \in Seq(Nodes)
       /\ \A j, k \in 1 .. Len(p) : NodeOf[p[j]].output = NodeOf[p[k]].output => j = k
  /\ \A n \in Nodes :
       LET type == NodeOf[n]
       IN  /\ type \in NodeType
           /\ type.consumes \in Seq(1 .. Len(type.inputs))
           /\ type.inputs = <<>> <=> type.consumes = <<>>
           /\ \A i \in 1 .. Len(type.inputs) :
                Uses(n, i, 1) <= type.inputs[i].consumeCount
           /\ type.drains => Len(type.inputs) = 1

VARIABLES
  program,      (* the program that runs                                   *)
  ending,       (* the program has been told to end                        *)
  built,        (* how many nodes are constructed and not destroyed        *)
  connected,    (* how many inputs of the next one are initialized         *)
  subscribed,   (* the inputs that are subscribed                          *)
  alive,        (* the inputs that have their queue and mutex              *)
  stopping,     (* the nodes whose thread has been asked to stop           *)
  processGone,  (* the nodes whose m_process is destroyed                  *)
  queue,        (* m_queue of each input                                   *)
  pc,           (* where the thread of each node is                        *)
  at,           (* the loop counter of isReady, the next consume of fire   *)
  operands,     (* fire's local messages                                   *)
  staged,       (* Output::m_message                                       *)
  out,          (* the message a node is publishing                        *)
  toCall,       (* the inputs that message is still to be delivered to     *)
  nextNumber,   (* m_nextNumber of a generator                             *)
  log,          (* history: the messages published on each topic           *)
  joined,       (* history: how many of them before an input subscribed    *)
  consumed,     (* history: how many an input has handed out               *)
  fault         (* what has been called that is destroyed                  *)

ownerVars   == <<program, ending, built, connected, subscribed, alive, stopping,
                 processGone, joined>>
fireVars    == <<operands, staged, out, nextNumber>>
historyVars == <<log, consumed, fault>>
vars == <<ownerVars, queue, pc, at, fireVars, toCall, historyVars>>

Init ==
  /\ program \in Programs
  /\ ending = FALSE
  /\ built = 0
  /\ connected = 0
  /\ subscribed = {}
  /\ alive = {}
  /\ stopping = {}
  /\ processGone = {}
  /\ queue = [p \in Ports |-> <<>>]
  /\ pc = [n \in Nodes |-> "none"]
  /\ at = [n \in Nodes |-> 0]
  /\ operands = [n \in Nodes |-> <<>>]
  /\ staged = [n \in Nodes |-> DefaultMessage]
  /\ out = [n \in Nodes |-> DefaultMessage]
  /\ toCall = [n \in Nodes |-> {}]
  /\ nextNumber = [n \in Nodes |-> 0]
  /\ log = [t \in Topics |-> <<>>]
  /\ joined = [p \in Ports |-> 0]
  /\ consumed = [p \in Ports |-> 0]
  /\ fault = "none"

-----------------------------------------------------------------------------
(* The owner constructs the nodes: connectAndStart.                        *)

InitializeInput ==
  /\ ~ending
  /\ built < Len(program)
  /\ connected < Len(Inputs(program[built + 1]))
  /\ LET p == <<program[built + 1], connected + 1>>
     IN  /\ subscribed' = subscribed \cup {p}
         /\ alive' = alive \cup {p}
         /\ joined' = [joined EXCEPT ![p] = Len(log[TopicOf(p)])]
  /\ connected' = connected + 1
  /\ UNCHANGED <<program, ending, built, stopping, processGone, queue, pc, at,
                 fireVars, toCall, historyVars>>

StartRunThread ==
  /\ ~ending
  /\ built < Len(program)
  /\ connected = Len(Inputs(program[built + 1]))
  /\ pc' = [pc EXCEPT ![program[built + 1]] = "isReady"]
  /\ built' = built + 1
  /\ connected' = 0
  /\ UNCHANGED <<program, ending, subscribed, alive, stopping, processGone,
                 joined, queue, at, fireVars, toCall, historyVars>>

-----------------------------------------------------------------------------
(* The owner destroys them, the last one first.                            *)

EndProgram ==
  /\ program \in Ending
  /\ ~ending
  /\ built = Len(program)
  /\ ending' = TRUE
  /\ UNCHANGED <<program, built, connected, subscribed, alive, stopping,
                 processGone, joined, queue, pc, at, fireVars, toCall, historyVars>>

Dying == program[built]

Goto(n, from, to) ==
  /\ pc[n] = from
  /\ pc' = [pc EXCEPT ![n] = to]

(* ~BaseNode, and the destructor of m_runThread: the stop is requested.    *)
(* A thread between two runs may have tested its token already, or not.    *)
RequestStop ==
  /\ ending /\ built > 0
  /\ Dying \notin stopping
  /\ stopping' = stopping \cup {Dying}
  /\ \/ UNCHANGED pc
     \/ at[Dying] = 0 /\ Goto(Dying, "isReady", "ended")
  /\ UNCHANGED <<program, ending, built, connected, subscribed, alive,
                 processGone, joined, queue, at, fireVars, toCall, historyVars>>

(* m_process was declared after m_runThread, and so is destroyed before    *)
(* the thread is joined.  The nodes that are no processes have none.       *)
DestroyProcess ==
  /\ ending /\ built > 0
  /\ Dying \in stopping \ processGone
  /\ NodeOf[Dying].stages
  /\ processGone' = processGone \cup {Dying}
  /\ UNCHANGED <<program, ending, built, connected, subscribed, alive, stopping,
                 joined, queue, pc, at, fireVars, toCall, historyVars>>

(* The destructor of m_runThread returns when the thread has ended.        *)
Joined(n) == pc[n] = "ended" /\ (NodeOf[n].stages => n \in processGone)

(* Mutant: the inputs go before the thread, which is not waited for yet.   *)
DestroyQueueUnjoined(p) ==
  /\ ending /\ built > 0
  /\ Dying \in stopping
  /\ p[1] = Dying /\ p \in alive
  /\ \A q \in subscribed : q[1] = p[1] => q[2] >= p[2]
  /\ alive' = alive \ {p}
  /\ queue' = [queue EXCEPT ![p] = <<>>]
  /\ UNCHANGED <<program, ending, built, connected, subscribed, stopping,
                 processGone, joined, pc, at, fireVars, toCall, historyVars>>

(* The thread is joined; then the members of each input go, the mutex and  *)
(* the queue before the subscription, which was declared first.            *)
DestroyQueue(p) ==
  /\ ending /\ built > 0
  /\ Joined(Dying)
  /\ p[1] = Dying /\ p \in alive
  /\ \A q \in subscribed : q[1] = p[1] => q[2] >= p[2]
  /\ alive' = alive \ {p}
  /\ queue' = [queue EXCEPT ![p] = <<>>]
  /\ UNCHANGED <<program, ending, built, connected, subscribed, stopping,
                 processGone, joined, pc, at, fireVars, toCall, historyVars>>

Unsubscribe(p) ==
  /\ p \in subscribed \ alive
  /\ subscribed' = subscribed \ {p}
  /\ UNCHANGED <<program, ending, built, connected, alive, stopping, processGone,
                 joined, queue, pc, at, fireVars, toCall, historyVars>>

NodeDestroyed ==
  /\ ending /\ built > 0
  /\ Joined(Dying)
  /\ \A p \in subscribed : p[1] # Dying
  /\ built' = built - 1
  /\ UNCHANGED <<program, ending, connected, subscribed, alive, stopping,
                 processGone, joined, queue, pc, at, fireVars, toCall, historyVars>>

Destroy ==
  \/ RequestStop \/ DestroyProcess \/ NodeDestroyed
  \/ \E p \in Ports : DestroyQueue(p) \/ Unsubscribe(p)

-----------------------------------------------------------------------------
(* The thread of node n.                                                   *)

(* Mutants: one message is enough; the required number is not.             *)
ReadyForOne(p)  == Len(queue[p]) >= 1
ReadyForMore(p) == Len(queue[p]) > Inputs(p[1])[p[2]].consumeCount

Ready(p) == Len(queue[p]) >= Inputs(p[1])[p[2]].consumeCount

(* Mutant: the token is not tested.                                        *)
NextRunAlways(n) == "isReady"

(* After a run the thread sleeps and tests its stop token.                 *)
NextRun(n) == IF n \in stopping THEN "ended" ELSE "isReady"

(* isReady: the inputs are tested one after the other.                     *)
InputReady(n) ==
  /\ pc[n] = "isReady"
  /\ at[n] < Len(Inputs(n))
  /\ Ready(<<n, at[n] + 1>>)
  /\ at' = [at EXCEPT ![n] = @ + 1]
  /\ UNCHANGED <<ownerVars, queue, pc, fireVars, toCall, historyVars>>

(* One is not.                                                             *)
InputNotReady(n) ==
  /\ at[n] < Len(Inputs(n))
  /\ ~Ready(<<n, at[n] + 1>>)
  /\ Goto(n, "isReady", NextRun(n))
  /\ at' = [at EXCEPT ![n] = 0]
  /\ UNCHANGED <<ownerVars, queue, fireVars, toCall, historyVars>>

MayGenerate(n) == Inputs(n) = <<>> => nextNumber[n] < MaxNumbers

AllReady(n) ==
  /\ at[n] = Len(Inputs(n))
  /\ MayGenerate(n)
  /\ Goto(n, "isReady", IF NodeOf[n].drains THEN "drain" ELSE "fire")
  /\ at' = [at EXCEPT ![n] = 0]
  /\ UNCHANGED <<ownerVars, queue, fireVars, toCall, historyVars>>

(* The process is destroyed when its fire is called, by a thread that had  *)
(* tested its token before it was asked to stop.                           *)
FireDestroyed(n) ==
  /\ pc[n] = "isReady"
  /\ at[n] = Len(Inputs(n))
  /\ MayGenerate(n)
  /\ n \in processGone
  /\ fault' = "process"
  /\ UNCHANGED <<ownerVars, queue, pc, at, fireVars, toCall, log, consumed>>

(* The fire of a legacy node whose derived part is destroyed is the empty  *)
(* one of its base class; a generator at its bound idles, too.             *)
EmptyFire(n) ==
  /\ at[n] = Len(Inputs(n))
  /\ ~MayGenerate(n) \/ (n \in stopping /\ ~NodeOf[n].stages)
  /\ Goto(n, "isReady", NextRun(n))
  /\ at' = [at EXCEPT ![n] = 0]
  /\ UNCHANGED <<ownerVars, queue, fireVars, toCall, historyVars>>

(* The loop of a fire that empties its input.                              *)
Drain(n) ==
  /\ Goto(n, "drain", IF Ready(<<n, 1>>) THEN "fire" ELSE NextRun(n))
  /\ UNCHANGED <<ownerVars, queue, at, fireVars, toCall, historyVars>>

(* Mutant: the newest message instead of the oldest.                       *)
PopNewest(q) == [message |-> q[Len(q)], rest |-> SubSeq(q, 1, Len(q) - 1)]

(* BackpressureHandler::pop                                                *)
Pop(q) == [message |-> Head(q), rest |-> Tail(q)]

(* Input::consume, once for each operand of fire; a default message if     *)
(* there is none.                                                          *)
Consume(n) ==
  LET p == <<n, NodeOf[n].consumes[at[n] + 1]>>
  IN  /\ pc[n] = "fire"
      /\ at[n] < Len(NodeOf[n].consumes)
      /\ at' = [at EXCEPT ![n] = @ + 1]
      /\ IF Len(queue[p]) > 0
         THEN /\ operands' = [operands EXCEPT ![n] = Append(@, Pop(queue[p]).message)]
              /\ queue' = [queue EXCEPT ![p] = Pop(@).rest]
              /\ consumed' = [consumed EXCEPT ![p] = @ + 1]
         ELSE /\ operands' = [operands EXCEPT ![n] = Append(@, DefaultMessage)]
              /\ UNCHANGED <<queue, consumed>>
      /\ UNCHANGED <<ownerVars, pc, staged, out, nextNumber, toCall, log, fault>>

UserData(s) == [k \in 1 .. Len(s) |-> s[k].userData]

(* The end of fire: the message is computed and produced or staged.        *)
Make(n) ==
  LET generates == NodeOf[n].consumes = <<>>
      message ==
        [topic |-> NodeOf[n].output,
         userData |-> IF generates THEN nextNumber[n]
                      ELSE Compute(n, UserData(operands[n]))]
  IN  /\ at[n] = Len(NodeOf[n].consumes)
      /\ nextNumber' = [nextNumber EXCEPT ![n] = IF generates THEN @ + 1 ELSE @]
      /\ operands' = [operands EXCEPT ![n] = <<>>]
      /\ IF NodeOf[n].stages
         THEN /\ Goto(n, "fire", "flush")
              /\ staged' = [staged EXCEPT ![n] = message]
              /\ UNCHANGED out
         ELSE /\ Goto(n, "fire", "publish")
              /\ out' = [out EXCEPT ![n] = message]
              /\ UNCHANGED staged
      /\ UNCHANGED <<ownerVars, queue, at, toCall, historyVars>>

(* LocalProcess: the staged message is taken out and produced.             *)
Flush(n) ==
  /\ Goto(n, "flush", "publish")
  /\ out' = [out EXCEPT ![n] = staged[n]]
  /\ staged' = [staged EXCEPT ![n] = DefaultMessage]
  /\ UNCHANGED <<ownerVars, queue, at, operands, nextNumber, toCall, historyVars>>

(* Bus::publish: the audience is fixed ...                                 *)
Publish(n) ==
  /\ Goto(n, "publish", "call")
  /\ toCall' = [toCall EXCEPT ![n] =
                  {p \in subscribed : TopicOf(p) = out[n].topic}]
  /\ log' = [log EXCEPT ![out[n].topic] = Append(@, out[n])]
  /\ UNCHANGED <<ownerVars, queue, at, fireVars, consumed, fault>>

(* ... and the message pushed to the queue of each.                        *)
OnInputReceived(n, p) ==
  /\ pc[n] = "call"
  /\ p \in toCall[n]
  /\ IF p \in alive
     THEN /\ queue' = [queue EXCEPT ![p] = Append(@, out[n])]
          /\ toCall' = [toCall EXCEPT ![n] = @ \ {p}]
          /\ UNCHANGED fault
     ELSE fault' = "input" /\ UNCHANGED <<queue, toCall>>
  /\ UNCHANGED <<ownerVars, pc, at, fireVars, log, consumed>>

(* fire returns.                                                           *)
Return(n) ==
  /\ toCall[n] = {}
  /\ Goto(n, "call", IF NodeOf[n].drains THEN "drain" ELSE NextRun(n))
  /\ at' = [at EXCEPT ![n] = 0]
  /\ UNCHANGED <<ownerVars, queue, fireVars, toCall, historyVars>>

Run(n) ==
  \/ InputReady(n) \/ InputNotReady(n)
  \/ AllReady(n) \/ FireDestroyed(n) \/ EmptyFire(n) \/ Drain(n)
  \/ Consume(n) \/ Make(n) \/ Flush(n)
  \/ Publish(n) \/ (\E p \in Ports : OnInputReceived(n, p)) \/ Return(n)

Next ==
  /\ fault = "none"
  /\ \/ InitializeInput \/ StartRunThread \/ EndProgram \/ Destroy
     \/ \E n \in Nodes : Run(n)

(* Each running thread is scheduled: nothing it waits for is ever taken    *)
(* back, since only the node itself removes messages from its inputs.  The *)
(* owner goes on with a destruction it has begun.                          *)
Running(A) == fault = "none" /\ A

Fairness ==
  /\ \A n \in Nodes : WF_vars(Running(Run(n)))
  /\ WF_vars(Running(Destroy))

Spec == Init /\ [][Next]_vars /\ Fairness

-----------------------------------------------------------------------------
Message == [topic : Topics \cup {DefaultMessage.topic}, userData : Int]

(* Types; a message is staged only between the end of fire and the flush.  *)
TypeOK ==
  /\ program \in Programs
  /\ ending \in BOOLEAN
  /\ built \in 0 .. Len(program)
  /\ connected \in Nat
  /\ subscribed \subseteq Ports /\ alive \subseteq subscribed
  /\ stopping \subseteq Nodes /\ processGone \subseteq stopping
  /\ queue \in [Ports -> Seq(Message)]
  /\ pc \in [Nodes -> {"none", "isReady", "drain", "fire", "flush", "publish",
                      "call", "ended"}]
  /\ at \in [Nodes -> Nat]
  /\ operands \in [Nodes -> Seq(Message)]
  /\ staged \in [Nodes -> Message]
  /\ out \in [Nodes -> Message]
  /\ toCall \in [Nodes -> SUBSET Ports]
  /\ nextNumber \in [Nodes -> 0 .. MaxNumbers]
  /\ log \in [Topics -> Seq(Message)]
  /\ joined \in [Ports -> Nat]
  /\ consumed \in [Ports -> Nat]
  /\ fault \in {"none", "input", "process"}
  /\ \A n \in Nodes : pc[n] # "flush" => staged[n] = DefaultMessage

(* consume() of an empty queue, the error nobody handles, never happens: a *)
(* node that was ready when it tested its inputs, one after the other,     *)
(* still is when it takes its operands, whatever the producers do.         *)
NoDefaultConsumed ==
  \A n \in Nodes : \A k \in 1 .. Len(operands[n]) :
    operands[n][k] # DefaultMessage

(* Every message published on a topic since an input subscribed is in the  *)
(* input's queue exactly once and in the order of publication, until the   *)
(* node takes it; but for the one message being delivered.  None is lost   *)
(* between the subscription and the start of the node's thread, and no     *)
(* node takes one that is not there.                                       *)
InputsInOrder ==
  /\ TypeOK
  /\ NoDefaultConsumed
  /\ \A p \in alive :
       LET t == TopicOf(p)
           pending == {n \in Nodes : p \in toCall[n]}
           last == IF pending = {} THEN <<>>
                   ELSE <<out[CHOOSE n \in pending : TRUE]>>
       IN  queue[p] \o last = SubSeq(log[t], joined[p] + consumed[p] + 1, Len(log[t]))

(* The graph computes a function of its streams: the k-th message a node   *)
(* publishes is computed from the k-th group of messages of its inputs     *)
(* since they subscribed, and a generator counts; no schedule of the       *)
(* threads changes a result.                                               *)
OutputsFollowInputs ==
  \A n \in NodesOf(program) : \A k \in 1 .. Len(log[NodeOf[n].output]) :
    LET consumes == NodeOf[n].consumes
        Operand(j) ==
          LET i == consumes[j]
              group == Uses(n, i, 1)
              before == group - Uses(n, i, j)
          IN  log[TopicOf(<<n, i>>)][joined[<<n, i>>] + (k - 1) * group + before + 1]
    IN  log[NodeOf[n].output][k].userData =
          IF consumes = <<>> THEN k - 1
          ELSE Compute(n, UserData([j \in 1 .. Len(consumes) |-> Operand(j)]))

ConstructedBefore(m, n) ==
  \E j, k \in 1 .. Len(program) : j < k /\ program[j] = m /\ program[k] = n

(* A node is destroyed around its own thread in the right order: the       *)
(* thread finds its inputs until it has ended, and its process but for one *)
(* last fire, if it had tested its token before the stop was requested.    *)
(* The one input that can be called when its members are gone is that of a *)
(* node that was constructed after its producer, as all are in the test,   *)
(* and so goes first: the producer runs on and publishes to it, or has     *)
(* copied its callback.                                                    *)
DestroyedInOrder ==
  /\ \A n \in Nodes : pc[n] \notin {"none", "ended"} =>
       \A i \in 1 .. Len(Inputs(n)) : <<n, i>> \in alive
  /\ fault = "input" =>
       \E n \in Nodes : \E p \in toCall[n] \ alive :
         pc[n] = "call" /\ pc[p[1]] = "ended" /\ ConstructedBefore(n, p[1])
  /\ fault = "process" =>
       built > 0 /\ Dying \in stopping /\ pc[Dying] = "isReady"

(* main goes on when testNodes has returned: no node is called any more    *)
(* whose inputs are destroyed.                                             *)
InputsOutliveProducers == fault # "input"

(* A program that is told to end destroys all its nodes: each thread comes *)
(* back from what it is doing and sees the request.                        *)
DestructionEnds == ending ~> built = 0 \/ fault # "none"

(* No node that runs stays ready: once the generators pause, all that can  *)
(* be computed from what they made is computed.                            *)
NothingLeftToDo ==
  <>[](\A n \in Nodes :
         fault = "none" /\ pc[n] \notin {"none", "ended"} /\ Inputs(n) # <<>> =>
           \E i \in 1 .. Len(Inputs(n)) :
             Len(queue[<<n, i>>]) < Inputs(n)[i].consumeCount)
=============================================================================
