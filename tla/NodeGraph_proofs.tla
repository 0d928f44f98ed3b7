-------------------------- MODULE NodeGraph_proofs --------------------------
(***************************************************************************)
(* The streams of a graph of nodes are complete and in order, no operand   *)
(* is missing, every output is a function of the streams it is computed    *)
(* from, and what can be called when it is destroyed is exactly the input  *)
(* of a node that goes before its producer, and the process of a node that *)
(* is in its last fire: for any programs, node types and numbers.          *)
(***************************************************************************)
EXTENDS NodeGraph, FiniteSetTheorems, TLAPS

(* What a node computes from numbers, one for each consume, is a number.   *)
ComputesNumbers ==
  \A n \in Nodes : \A x \in Seq(Int) :
    Len(x) = Len(NodeOf[n].consumes) => Compute(n, x) \in Int

RealMessage == [topic : Topics, userData : Int]

(* Types: what is published, queued and consumed is never the default.     *)
Types ==
  /\ program \in Programs
  /\ ending \in BOOLEAN /\ fault \in {"none", "input", "process"}
  /\ built \in 0 .. Len(program)
  /\ connected \in Nat
  /\ subscribed \subseteq Ports /\ alive \subseteq subscribed
  /\ stopping \subseteq Nodes /\ processGone \subseteq stopping
  /\ queue \in [Ports -> Seq(RealMessage)]
  /\ pc \in [Nodes -> {"none", "isReady", "drain", "fire", "flush", "publish",
                      "call", "ended"}]
  /\ at \in [Nodes -> Nat]
  /\ operands \in [Nodes -> Seq(RealMessage)]
  /\ staged \in [Nodes -> Message]
  /\ out \in [Nodes -> Message]
  /\ toCall \in [Nodes -> SUBSET Ports]
  /\ nextNumber \in [Nodes -> 0 .. MaxNumbers]
  /\ log \in [Topics -> Seq(RealMessage)]
  /\ joined \in [Ports -> Nat]
  /\ consumed \in [Ports -> Nat]
  /\ \A n \in Nodes : pc[n] # "flush" => staged[n] = DefaultMessage

(* The nodes that are constructed and not destroyed are the first of the   *)
(* program, and only theirs are the threads that run.                      *)
ThreadsOfBuilt ==
  /\ \A n \in Nodes \ NodesOf(program) : pc[n] = "none"
  /\ \A k \in 1 .. Len(program) :
       k > built => pc[program[k]] = IF ending THEN "ended" ELSE "none"

(* A node has all its inputs until its thread has ended.                   *)
InputsOfBuilt ==
  /\ \A p \in subscribed : p[1] \in NodesOf(program)
  /\ \A k \in 1 .. built :
       k < built \/ ~ending \/ pc[program[k]] # "ended" =>
         \A i \in 1 .. Len(Inputs(program[k])) : <<program[k], i>> \in alive
  /\ ~ending /\ built < Len(program) =>
       \A i \in 1 .. Len(Inputs(program[built + 1])) :
         i <= connected => <<program[built + 1], i>> \in alive

(* Nothing has happened to an input before it is initialized.              *)
Untouched(p) ==
  /\ p \notin subscribed
  /\ queue[p] = <<>>
  /\ consumed[p] = 0
  /\ \A n \in Nodes : p \notin toCall[n]

FreshInputs ==
  ~ending =>
    \A k \in built + 1 .. Len(program) :
    \A i \in 1 .. Len(Inputs(program[k])) :
      k > built + 1 \/ i > connected => Untouched(<<program[k], i>>)

(* A node publishes on its own topic, and what it has still to deliver is  *)
(* the latest message there.                                               *)
Publishing(n) ==
  /\ pc[n] = "flush" => staged[n].topic = NodeOf[n].output
  /\ pc[n] \in {"publish", "call"} => out[n].topic = NodeOf[n].output
  /\ pc[n] # "call" => toCall[n] = {}
  /\ \A p \in toCall[n] :
       TopicOf(p) = NodeOf[n].output /\ p[1] \in NodesOf(program)
  /\ pc[n] = "call" =>
       /\ Len(log[NodeOf[n].output]) > 0
       /\ log[NodeOf[n].output][Len(log[NodeOf[n].output])] = out[n]

(* An input's queue is a piece of its topic's log, up to the end or to the *)
(* one message that is being delivered.                                    *)
Pending(p) == \E n \in Nodes : p \in toCall[n]

Taken(p) == joined[p] + consumed[p]

Stream(p) ==
  /\ Taken(p) + Len(queue[p]) + (IF Pending(p) THEN 1 ELSE 0) =
       Len(log[TopicOf(p)])
  /\ \A k \in 1 .. Len(queue[p]) : queue[p][k] = log[TopicOf(p)][Taken(p) + k]

(* A node that has begun to test its inputs, or to fire, finds what it     *)
(* needs in the queues.                                                    *)
Stocked(n) ==
  /\ pc[n] \in {"none", "drain"} => at[n] = 0
  /\ pc[n] = "drain" => NodeOf[n].drains
  /\ pc[n] # "fire" => operands[n] = <<>>
  /\ pc[n] = "isReady" =>
       /\ at[n] <= Len(Inputs(n))
       /\ \A i \in 1 .. at[n] : Ready(<<n, i>>)
  /\ pc[n] = "fire" =>
       /\ MayGenerate(n)
       /\ at[n] <= Len(NodeOf[n].consumes)
       /\ Len(operands[n]) = at[n]
       /\ \A i \in 1 .. Len(Inputs(n)) :
            Uses(n, i, at[n] + 1) <= Len(queue[<<n, i>>])

(* The threads that are asked to stop are those of the node being          *)
(* destroyed and of those that are gone.                                   *)
StoppedLast ==
  \A n \in stopping :
    ending /\ \E k \in 1 .. Len(program) : k >= built /\ program[k] = n

(* What was called was destroyed in the one way there is.                  *)
InputGone ==
  \E n \in Nodes : \E p \in toCall[n] \ alive :
    pc[n] = "call" /\ pc[p[1]] = "ended" /\ ConstructedBefore(n, p[1])

ProcessGone == built > 0 /\ Dying \in stopping /\ pc[Dying] = "isReady"

FaultExplained ==
  /\ fault = "input" => InputGone
  /\ fault = "process" => ProcessGone

IInv ==
  /\ Types
  /\ ThreadsOfBuilt
  /\ StoppedLast
  /\ InputsOfBuilt
  /\ FreshInputs
  /\ \A n \in Nodes : Publishing(n) /\ Stocked(n)
  /\ \A p \in alive : Stream(p)
  /\ FaultExplained

-----------------------------------------------------------------------------
(* The graph, and the pieces it is made of.                                *)

LEMMA ElementsOf ==
  ASSUME NEW S, NEW s \in Seq(S)
  PROVE  Len(s) \in Nat /\ \A k \in 1 .. Len(s) : s[k] \in S
OBVIOUS

LEMMA NodeFacts ==
  ASSUME NEW n \in Nodes
  PROVE  /\ NodeOf[n].output \in Topics
         /\ NodeOf[n].drains \in BOOLEAN /\ NodeOf[n].stages \in BOOLEAN
         /\ Len(Inputs(n)) \in Nat
         /\ \A i \in 1 .. Len(Inputs(n)) :
              /\ <<n, i>> \in Ports
              /\ TopicOf(<<n, i>>) \in Topics
              /\ Inputs(n)[i].consumeCount \in Nat \ {0}
              /\ Uses(n, i, 1) <= Inputs(n)[i].consumeCount
         /\ Len(NodeOf[n].consumes) \in Nat
         /\ \A j \in 1 .. Len(NodeOf[n].consumes) :
              NodeOf[n].consumes[j] \in 1 .. Len(Inputs(n))
         /\ Inputs(n) = <<>> <=> NodeOf[n].consumes = <<>>
         /\ NodeOf[n].drains => Len(Inputs(n)) = 1
<1>1. /\ NodeOf[n] \in NodeType
      /\ NodeOf[n].consumes \in Seq(1 .. Len(NodeOf[n].inputs))
      /\ NodeOf[n].inputs = <<>> <=> NodeOf[n].consumes = <<>>
      /\ \A i \in 1 .. Len(NodeOf[n].inputs) :
           Uses(n, i, 1) <= NodeOf[n].inputs[i].consumeCount
      /\ NodeOf[n].drains => Len(NodeOf[n].inputs) = 1
  BY GraphAssumption
<1>2. /\ NodeOf[n].output \in Topics
      /\ NodeOf[n].inputs \in Seq([topic : Topics, consumeCount : Nat \ {0}])
      /\ NodeOf[n].drains \in BOOLEAN /\ NodeOf[n].stages \in BOOLEAN
  BY <1>1 DEF NodeType
<1>3. \A i \in 1 .. Len(Inputs(n)) : <<n, i>> \in Ports
  BY DEF Ports
<1>4. \A i \in 1 .. Len(Inputs(n)) :
        Inputs(n)[i] \in [topic : Topics, consumeCount : Nat \ {0}]
  <2>1. Inputs(n) \in Seq([topic : Topics, consumeCount : Nat \ {0}])
    BY <1>2 DEF Inputs
  <2> QED BY <2>1, ElementsOf
<1>5. \A i \in 1 .. Len(Inputs(n)) : TopicOf(<<n, i>>) \in Topics
  BY <1>4 DEF TopicOf
<1>6. /\ Len(Inputs(n)) \in Nat
      /\ \A i \in 1 .. Len(Inputs(n)) : Inputs(n)[i].consumeCount \in Nat \ {0}
  BY <1>2, <1>4 DEF Inputs
<1>7. /\ Len(NodeOf[n].consumes) \in Nat
      /\ \A j \in 1 .. Len(NodeOf[n].consumes) :
           NodeOf[n].consumes[j] \in 1 .. Len(Inputs(n))
  BY <1>1 DEF Inputs
<1>8. \A i \in 1 .. Len(Inputs(n)) :
        Uses(n, i, 1) <= Inputs(n)[i].consumeCount
  BY <1>1 DEF Inputs
<1>9. /\ Inputs(n) = <<>> <=> NodeOf[n].consumes = <<>>
      /\ NodeOf[n].drains => Len(Inputs(n)) = 1
  BY <1>1 DEF Inputs
<1> QED BY <1>2, <1>3, <1>5, <1>6, <1>7, <1>8, <1>9

LEMMA PortFacts ==
  ASSUME NEW p \in Ports
  PROVE  /\ p[1] \in Nodes
         /\ p[2] \in 1 .. Len(Inputs(p[1]))
         /\ p = <<p[1], p[2]>>
         /\ TopicOf(p) \in Topics
<1>1. PICK n \in Nodes : \E i \in 1 .. Len(Inputs(n)) : p = <<n, i>>
  BY DEF Ports
<1>2. PICK i \in 1 .. Len(Inputs(n)) : p = <<n, i>>
  BY <1>1
<1> QED BY <1>2, NodeFacts

(* No two nodes of a program publish on the same topic.                    *)
LEMMA ProgramFacts ==
  ASSUME Types
  PROVE  /\ Len(program) \in Nat
         /\ \A k \in 1 .. Len(program) :
              program[k] \in Nodes /\ program[k] \in NodesOf(program)
         /\ \A n \in NodesOf(program) :
              n \in Nodes /\ \E k \in 1 .. Len(program) : n = program[k]
         /\ \A j, k \in 1 .. Len(program) : program[j] = program[k] => j = k
         /\ \A m, n \in NodesOf(program) :
              NodeOf[m].output = NodeOf[n].output => m = n
<1>1. /\ program \in Seq(Nodes)
      /\ \A j, k \in 1 .. Len(program) :
           NodeOf[program[j]].output = NodeOf[program[k]].output => j = k
  BY GraphAssumption DEF Types
<1>2. /\ Len(program) \in Nat
      /\ \A k \in 1 .. Len(program) : program[k] \in Nodes
  BY <1>1
<1>3. /\ \A k \in 1 .. Len(program) : program[k] \in NodesOf(program)
      /\ \A n \in NodesOf(program) : \E k \in 1 .. Len(program) : n = program[k]
  BY DEF NodesOf
<1>4. \A m, n \in NodesOf(program) :
        NodeOf[m].output = NodeOf[n].output => m = n
  BY <1>1, <1>3
<1> QED BY <1>1, <1>2, <1>3, <1>4

(* Where the owner is, and the node it constructs next.                    *)
LEMMA BuiltFacts ==
  ASSUME Types
  PROVE  /\ built \in Nat /\ connected \in Nat
         /\ \A k \in 1 .. built : k \in 1 .. Len(program)
         /\ built < Len(program) =>
              /\ built + 1 \in 1 .. Len(program)
              /\ program[built + 1] \in Nodes
              /\ program[built + 1] \in NodesOf(program)
<1>1. built \in 0 .. Len(program) /\ connected \in Nat /\ Len(program) \in Nat
  BY ProgramFacts DEF Types
<1>2. built < Len(program) => built + 1 \in 1 .. Len(program)
  BY <1>1
<1>3. \A k \in 1 .. built : k \in 1 .. Len(program)
  BY <1>1
<1> QED BY <1>1, <1>2, <1>3, ProgramFacts

(* A consume takes one of what is needed of its input, and of no other.    *)
LEMMA UsesOfConsume ==
  ASSUME NEW n \in Nodes, NEW i \in 1 .. Len(Inputs(n)),
         NEW j \in 1 .. Len(NodeOf[n].consumes)
  PROVE  /\ Uses(n, i, j) \in Nat /\ Uses(n, i, j + 1) \in Nat
         /\ Uses(n, i, j) = Uses(n, i, j + 1) +
                            (IF NodeOf[n].consumes[j] = i THEN 1 ELSE 0)
<1> DEFINE L == Len(NodeOf[n].consumes)
           From(m) == {k \in m .. L : NodeOf[n].consumes[k] = i}
<1>0. /\ Uses(n, i, j) = Cardinality(From(j))
      /\ Uses(n, i, j + 1) = Cardinality(From(j + 1))
  BY DEF Uses
<1>1. L \in Nat
  BY NodeFacts
<1>2. j + 1 \in Int
  BY <1>1
<1>3. IsFiniteSet(From(j + 1))
  <2>1. IsFiniteSet(j + 1 .. L)
    <3> HIDE DEF L
    <3> QED BY <1>1, <1>2, FS_Interval
  <2> QED BY <2>1, FS_Subset
<1>4. Cardinality(From(j + 1)) \in Nat
  BY <1>3, FS_CardinalityType
<1>5. CASE NodeOf[n].consumes[j] = i
  <2>1. From(j) = From(j + 1) \cup {j} /\ j \notin From(j + 1)
    BY <1>1, <1>5
  <2>2. Cardinality(From(j)) = Cardinality(From(j + 1)) + 1
    <3> HIDE DEF From
    <3> QED BY <2>1, <1>3, FS_AddElement
  <2> HIDE DEF From
  <2> QED BY <2>2, <1>0, <1>4, <1>5
<1>6. CASE NodeOf[n].consumes[j] # i
  <2>1. From(j) = From(j + 1)
    BY <1>1, <1>6
  <2> HIDE DEF From
  <2> QED BY <2>1, <1>0, <1>4, <1>6
<1> QED BY <1>5, <1>6

LEMMA UsesAreMany ==
  ASSUME NEW n \in Nodes, NEW i, NEW j \in Nat
  PROVE  Uses(n, i, j) \in Nat
<1> DEFINE L == Len(NodeOf[n].consumes)
           From == {k \in j .. L : NodeOf[n].consumes[k] = i}
<1>1. L \in Int /\ j \in Int
  BY NodeFacts
<1>2. IsFiniteSet(j .. L)
  <2> HIDE DEF L
  <2> QED BY <1>1, FS_Interval
<1>3. IsFiniteSet(From)
  BY <1>2, FS_Subset
<1>4. Cardinality(From) \in Nat
  BY <1>3, FS_CardinalityType
<1> QED BY <1>4 DEF Uses

(* A ready input has what a whole fire takes of it.                        *)
LEMMA ReadyMeansUses ==
  ASSUME Types, NEW n \in Nodes, NEW i \in 1 .. Len(Inputs(n)), Ready(<<n, i>>)
  PROVE  Uses(n, i, 1) <= Len(queue[<<n, i>>])
<1>1. Uses(n, i, 1) \in Nat
  BY UsesAreMany
<1>2. /\ Uses(n, i, 1) <= Inputs(n)[i].consumeCount
      /\ Inputs(n)[i].consumeCount \in Nat
      /\ <<n, i>> \in Ports
  BY NodeFacts
<1>3. Len(queue[<<n, i>>]) \in Nat
  BY <1>2 DEF Types
<1> QED BY <1>1, <1>2, <1>3 DEF Ready

LEMMA Appended ==
  ASSUME NEW S, NEW s \in Seq(S), NEW e \in S
  PROVE  /\ Append(s, e) \in Seq(S)
         /\ Len(Append(s, e)) = Len(s) + 1 /\ Len(s) \in Nat
         /\ Append(s, e)[Len(s) + 1] = e
         /\ \A k \in 1 .. Len(s) : Append(s, e)[k] = s[k]
OBVIOUS

LEMMA Popped ==
  ASSUME NEW S, NEW s \in Seq(S), Len(s) > 0
  PROVE  /\ Pop(s).message \in S /\ Pop(s).message = s[1]
         /\ Pop(s).rest \in Seq(S)
         /\ Len(Pop(s).rest) = Len(s) - 1
         /\ \A k \in 1 .. Len(s) - 1 : Pop(s).rest[k] = s[k + 1]
BY DEF Pop

(* What is computed of a node's operands is a message of its topic.        *)
LEMMA Made ==
  ASSUME ComputesNumbers, NEW n \in Nodes, NEW s \in Seq(RealMessage),
         Len(s) = Len(NodeOf[n].consumes)
  PROVE  Compute(n, UserData(s)) \in Int
<1>1. Len(s) \in Nat /\ \A k \in 1 .. Len(s) : s[k].userData \in Int
  <2>1. Len(s) \in Nat /\ \A k \in 1 .. Len(s) : s[k] \in RealMessage
    BY ElementsOf
  <2> QED BY <2>1 DEF RealMessage
<1>2. UserData(s) \in [1 .. Len(s) -> Int]
  BY <1>1 DEF UserData
<1>3. UserData(s) \in Seq(Int) /\ Len(UserData(s)) = Len(s)
  BY <1>1, <1>2
<1> QED BY <1>3 DEF ComputesNumbers

-----------------------------------------------------------------------------
(* What a step of a node's thread leaves alone.                            *)

LEMMA RunFrame ==
  ASSUME Types, NEW n \in Nodes, Run(n)
  PROVE  /\ UNCHANGED ownerVars
         /\ pc[n] \notin {"none", "ended"}
         /\ pc' = [pc EXCEPT ![n] = pc'[n]]
         /\ pc'[n] \in {"isReady", "drain", "fire", "flush", "publish", "call",
                        "ended"}
         /\ pc'[n] = "ended" => n \in stopping
<1>1. pc \in [Nodes -> {"none", "isReady", "drain", "fire", "flush", "publish",
                        "call", "ended"}]
  BY DEF Types
<1>2. CASE InputReady(n)
  BY <1>1, <1>2 DEF InputReady
<1>3. CASE InputNotReady(n)
  BY <1>1, <1>3 DEF InputNotReady, Goto, NextRun
<1>4. CASE AllReady(n)
  BY <1>1, <1>4 DEF AllReady, Goto
<1>0. CASE FireDestroyed(n)
  BY <1>1, <1>0 DEF FireDestroyed
<1>5. CASE EmptyFire(n)
  BY <1>1, <1>5 DEF EmptyFire, Goto, NextRun
<1>6. CASE Drain(n)
  BY <1>1, <1>6 DEF Drain, Goto, NextRun
<1>7. CASE Consume(n)
  BY <1>1, <1>7 DEF Consume
<1>8. CASE Make(n)
  BY <1>1, <1>8 DEF Make, Goto
<1>9. CASE Flush(n)
  BY <1>1, <1>9 DEF Flush, Goto
<1>10. CASE Publish(n)
  BY <1>1, <1>10 DEF Publish, Goto
<1>11. ASSUME NEW p \in Ports, OnInputReceived(n, p)
       PROVE  pc[n] = "call" /\ UNCHANGED <<ownerVars, pc>>
  BY <1>11 DEF OnInputReceived
<1>12. CASE Return(n)
  BY <1>1, <1>12 DEF Return, Goto, NextRun
<1> QED
  BY <1>0, <1>1, <1>2, <1>3, <1>4, <1>5, <1>6, <1>7, <1>8, <1>9, <1>10, <1>11,
     <1>12 DEF Run

(* The oldest message of a stocked input is there to be consumed.          *)
LEMMA ConsumeFinds ==
  ASSUME Types, NEW n \in Nodes, Stocked(n), Consume(n),
         NEW i, i = NodeOf[n].consumes[at[n] + 1]
  PROVE  /\ at[n] \in Nat /\ at[n] < Len(NodeOf[n].consumes)
         /\ i \in 1 .. Len(Inputs(n)) /\ <<n, i>> \in Ports
         /\ Len(queue[<<n, i>>]) > 0
         /\ operands' = [operands EXCEPT
                           ![n] = Append(@, Pop(queue[<<n, i>>]).message)]
         /\ queue' = [queue EXCEPT ![<<n, i>>] = Pop(@).rest]
         /\ consumed' = [consumed EXCEPT ![<<n, i>>] = @ + 1]
         /\ at' = [at EXCEPT ![n] = @ + 1]
         /\ UNCHANGED <<ownerVars, pc, staged, out, nextNumber, toCall, log,
                        fault>>
<1>1. at[n] \in Nat /\ pc[n] = "fire" /\ at[n] < Len(NodeOf[n].consumes)
  BY DEF Types, Consume
<1>2. /\ Len(NodeOf[n].consumes) \in Nat
      /\ at[n] + 1 \in 1 .. Len(NodeOf[n].consumes)
  BY <1>1, NodeFacts
<1>3. i \in 1 .. Len(Inputs(n)) /\ <<n, i>> \in Ports
  BY <1>2, NodeFacts
<1>4. Uses(n, i, at[n] + 1) >= 1
  BY <1>2, <1>3, UsesOfConsume
<1>5. Uses(n, i, at[n] + 1) \in Nat
  BY <1>2, <1>3, UsesOfConsume
<1>6. Len(queue[<<n, i>>]) \in Nat
  BY <1>3 DEF Types
<1>7. Len(queue[<<n, i>>]) > 0
  <2>1. Uses(n, i, at[n] + 1) <= Len(queue[<<n, i>>])
    BY <1>1, <1>3 DEF Stocked
  <2> QED BY <1>4, <1>5, <1>6, <2>1
<1> QED BY <1>1, <1>3, <1>7 DEF Consume

-----------------------------------------------------------------------------
(* Types                                                                   *)

LEMMA OwnerTypes ==
  ASSUME Types, ThreadsOfBuilt,
         \/ InitializeInput \/ StartRunThread \/ EndProgram \/ Destroy
  PROVE  Types'
<1>1. CASE InitializeInput
  <2>1. /\ built + 1 \in 1 .. Len(program)
        /\ connected + 1 \in 1 .. Len(Inputs(program[built + 1]))
        /\ program[built + 1] \in Nodes
    <3>1. built < Len(program) /\ connected < Len(Inputs(program[built + 1]))
      BY <1>1 DEF InitializeInput
    <3>2. Len(Inputs(program[built + 1])) \in Nat
      BY <3>1, BuiltFacts, NodeFacts
    <3> QED BY <3>1, <3>2, BuiltFacts
  <2>2. <<program[built + 1], connected + 1>> \in Ports
    BY <2>1, NodeFacts
  <2>3. Len(log[TopicOf(<<program[built + 1], connected + 1>>)]) \in Nat
    BY <2>1, NodeFacts DEF Types
  <2> DEFINE p == <<program[built + 1], connected + 1>>
  <2>4. /\ subscribed' = subscribed \cup {p}
        /\ alive' = alive \cup {p}
        /\ joined' = [joined EXCEPT ![p] = Len(log[TopicOf(p)])]
        /\ connected' = connected + 1
        /\ UNCHANGED <<program, ending, built, stopping, processGone, queue,
                       pc, at,
                       fireVars, toCall, historyVars>>
    BY <1>1 DEF InitializeInput
  <2> HIDE DEF p
  <2>5. joined' \in [Ports -> Nat]
    BY <2>2, <2>3, <2>4 DEF p, Types
  <2>6. p \in Ports
    BY <2>2 DEF p
  <2> QED
    BY <2>4, <2>5, <2>6 DEF Types, historyVars, fireVars
<1>2. CASE StartRunThread
  <2>1. built + 1 \in 1 .. Len(program) /\ program[built + 1] \in Nodes
    BY <1>2, ProgramFacts DEF StartRunThread, Types
  <2>2. pc[program[built + 1]] = "none"
    BY <1>2, <2>1 DEF StartRunThread, ThreadsOfBuilt, Types
  <2> QED
    BY <1>2, <2>1, <2>2 DEF StartRunThread, Types, historyVars, fireVars
<1>3. CASE EndProgram
  BY <1>3 DEF EndProgram, Types, historyVars, fireVars
<1>4. CASE RequestStop
  <2>1. built \in 1 .. Len(program) /\ Dying \in Nodes
    BY <1>4, ProgramFacts DEF RequestStop, Types, Dying
  <2> QED
    BY <1>4, <2>1 DEF RequestStop, Goto, Types, historyVars, fireVars
<1>0. CASE DestroyProcess
  BY <1>0 DEF DestroyProcess, Types, historyVars, fireVars
<1>5. CASE NodeDestroyed
  BY <1>5 DEF NodeDestroyed, Types, historyVars, fireVars
<1>6. ASSUME NEW p \in Ports, DestroyQueue(p) PROVE Types'
  BY <1>6 DEF DestroyQueue, Types, historyVars, fireVars
<1>7. ASSUME NEW p \in Ports, Unsubscribe(p) PROVE Types'
  BY <1>7 DEF Unsubscribe, Types, historyVars, fireVars
<1> QED BY <1>0, <1>1, <1>2, <1>3, <1>4, <1>5, <1>6, <1>7 DEF Destroy

LEMMA RunTypes ==
  ASSUME ComputesNumbers, Types, NEW n \in Nodes, Publishing(n), Stocked(n),
         Run(n)
  PROVE  Types'
<1> USE DEF ownerVars, fireVars, historyVars
<1>1. CASE InputReady(n)
  BY <1>1 DEF InputReady, Types
<1>2. CASE InputNotReady(n)
  BY <1>2 DEF InputNotReady, Goto, NextRun, Types
<1>3. CASE AllReady(n)
  BY <1>3 DEF AllReady, Goto, Types
<1>0. CASE FireDestroyed(n)
  BY <1>0 DEF FireDestroyed, Types
<1>4. CASE EmptyFire(n)
  BY <1>4 DEF EmptyFire, Goto, NextRun, Types
<1>5. CASE Drain(n)
  BY <1>5 DEF Drain, Goto, NextRun, Types
<1>6. CASE Consume(n)
  <2> DEFINE p == <<n, NodeOf[n].consumes[at[n] + 1]>>
  <2>1. /\ p \in Ports /\ Len(queue[p]) > 0
        /\ operands' = [operands EXCEPT ![n] = Append(@, Pop(queue[p]).message)]
        /\ queue' = [queue EXCEPT ![p] = Pop(@).rest]
        /\ consumed' = [consumed EXCEPT ![p] = @ + 1]
        /\ at' = [at EXCEPT ![n] = @ + 1]
        /\ UNCHANGED <<ownerVars, pc, staged, out, nextNumber, toCall, log,
                       fault>>
    BY <1>6, ConsumeFinds
  <2>2. queue[p] \in Seq(RealMessage) /\ operands[n] \in Seq(RealMessage)
    BY <2>1 DEF Types
  <2>3. /\ Pop(queue[p]).message \in RealMessage
        /\ Pop(queue[p]).rest \in Seq(RealMessage)
    BY <2>1, <2>2, Popped
  <2>4. Append(operands[n], Pop(queue[p]).message) \in Seq(RealMessage)
    BY <2>2, <2>3, Appended
  <2> HIDE DEF p
  <2>5. queue' \in [Ports -> Seq(RealMessage)]
    <3>1. queue \in [Ports -> Seq(RealMessage)]
      BY DEF Types
    <3> QED BY <2>1, <2>3, <3>1
  <2>6. operands' \in [Nodes -> Seq(RealMessage)]
    <3>1. operands \in [Nodes -> Seq(RealMessage)]
      BY DEF Types
    <3> QED BY <2>1, <2>4, <3>1
  <2>7. consumed' \in [Ports -> Nat] /\ at' \in [Nodes -> Nat]
    <3>1. consumed \in [Ports -> Nat] /\ at \in [Nodes -> Nat]
      BY DEF Types
    <3> QED BY <2>1, <3>1
  <2> QED BY <2>1, <2>5, <2>6, <2>7 DEF Types
<1>7. CASE Make(n)
  <2>1. /\ pc[n] = "fire" /\ at[n] = Len(NodeOf[n].consumes)
        /\ MayGenerate(n) /\ Len(operands[n]) = at[n]
    BY <1>7 DEF Make, Goto, Stocked
  <2>2. operands[n] \in Seq(RealMessage) /\ nextNumber[n] \in 0 .. MaxNumbers
    BY DEF Types
  <2>3. Compute(n, UserData(operands[n])) \in Int
    BY <2>1, <2>2, Made
  <2> DEFINE generates == NodeOf[n].consumes = <<>>
             message ==
               [topic |-> NodeOf[n].output,
                userData |-> IF generates THEN nextNumber[n]
                             ELSE Compute(n, UserData(operands[n]))]
  <2>4. message \in Message
    BY <2>2, <2>3, NodeFacts DEF Message
  <2>5. generates => nextNumber[n] + 1 \in 0 .. MaxNumbers
    BY <2>1, <2>2, NodeFacts, GraphAssumption DEF MayGenerate
  <2>6. /\ nextNumber' =
             [nextNumber EXCEPT ![n] = IF generates THEN @ + 1 ELSE @]
        /\ operands' = [operands EXCEPT ![n] = <<>>]
        /\ \/ /\ pc' = [pc EXCEPT ![n] = "flush"]
              /\ staged' = [staged EXCEPT ![n] = message]
              /\ UNCHANGED out
           \/ /\ pc' = [pc EXCEPT ![n] = "publish"]
              /\ out' = [out EXCEPT ![n] = message]
              /\ UNCHANGED staged
        /\ UNCHANGED <<ownerVars, queue, at, toCall, historyVars>>
    BY <1>7 DEF Make, Goto
  <2>7. nextNumber' \in [Nodes -> 0 .. MaxNumbers]
    BY <2>5, <2>6 DEF Types
  <2>8. operands' \in [Nodes -> Seq(RealMessage)]
    BY <2>6 DEF Types
  <2> HIDE DEF message, generates
  <2>9. /\ staged' \in [Nodes -> Message] /\ out' \in [Nodes -> Message]
        /\ pc' \in [Nodes -> {"none", "isReady", "drain", "fire", "flush",
                              "publish", "call", "ended"}]
    <3>1. /\ staged \in [Nodes -> Message] /\ out \in [Nodes -> Message]
          /\ pc \in [Nodes -> {"none", "isReady", "drain", "fire", "flush",
                               "publish", "call", "ended"}]
      BY DEF Types
    <3> QED BY <2>4, <2>6, <3>1
  <2>10. \A m \in Nodes : pc'[m] # "flush" => staged'[m] = DefaultMessage
    BY <2>1, <2>6 DEF Types
  <2> QED BY <2>6, <2>7, <2>8, <2>9, <2>10 DEF Types
<1>8. CASE Flush(n)
  <2>1. DefaultMessage \in Message
    BY DEF DefaultMessage, Message
  <2> QED BY <1>8, <2>1 DEF Flush, Goto, Types
<1>9. CASE Publish(n)
  <2>1. /\ out[n].topic = NodeOf[n].output /\ out[n].topic \in Topics
        /\ out[n] \in Message
    BY <1>9, NodeFacts DEF Publish, Goto, Publishing, Types
  <2>2. out[n] \in RealMessage
    BY <2>1 DEF Message, RealMessage
  <2>3. Append(log[out[n].topic], out[n]) \in Seq(RealMessage)
    BY <2>1, <2>2, Appended DEF Types
  <2> QED BY <1>9, <2>1, <2>3 DEF Publish, Goto, Types
<1>10. ASSUME NEW p \in Ports, OnInputReceived(n, p) PROVE Types'
  <2>1. /\ out[n].topic = NodeOf[n].output /\ out[n].topic \in Topics
        /\ out[n] \in Message
    BY <1>10, NodeFacts DEF OnInputReceived, Publishing, Types
  <2>2. out[n] \in RealMessage
    BY <2>1 DEF Message, RealMessage
  <2>3. Append(queue[p], out[n]) \in Seq(RealMessage)
    BY <2>2, Appended DEF Types
  <2>4. CASE p \in alive
    <3>1. /\ queue' = [queue EXCEPT ![p] = Append(@, out[n])]
          /\ toCall' = [toCall EXCEPT ![n] = @ \ {p}]
          /\ UNCHANGED <<ownerVars, pc, at, fireVars, historyVars>>
      BY <1>10, <2>4 DEF OnInputReceived
    <3>2. queue' \in [Ports -> Seq(RealMessage)]
      BY <2>3, <3>1 DEF Types
    <3>3. toCall' \in [Nodes -> SUBSET Ports]
      BY <3>1 DEF Types
    <3> QED BY <3>1, <3>2, <3>3 DEF Types
  <2>5. CASE p \notin alive
    BY <1>10, <2>5 DEF OnInputReceived, Types
  <2> QED BY <2>4, <2>5
<1>11. CASE Return(n)
  BY <1>11 DEF Return, Goto, NextRun, Types
<1> QED
  BY <1>0, <1>1, <1>2, <1>3, <1>4, <1>5, <1>6, <1>7, <1>8, <1>9, <1>10, <1>11
  DEF Run

-----------------------------------------------------------------------------
(* The owner and the threads: which nodes run, and what they have.         *)

LEMMA ThreadsStep ==
  ASSUME Types, ThreadsOfBuilt, [Next]_vars
  PROVE  ThreadsOfBuilt'
<1>1. CASE InitializeInput
  BY <1>1 DEF InitializeInput, ThreadsOfBuilt, NodesOf
<1>2. CASE StartRunThread
  <2>1. /\ built + 1 \in 1 .. Len(program) /\ ~ending
        /\ program[built + 1] \in NodesOf(program)
        /\ built' = built + 1 /\ UNCHANGED <<program, ending>>
        /\ pc' = [pc EXCEPT ![program[built + 1]] = "isReady"]
    BY <1>2, BuiltFacts DEF StartRunThread
  <2>2. \A k \in 1 .. Len(program) :
          k > built + 1 => program[k] # program[built + 1] /\ k > built
    <3> SUFFICES ASSUME NEW k \in 1 .. Len(program), k > built + 1
                 PROVE  program[k] # program[built + 1] /\ k > built
      OBVIOUS
    <3>1. k # built + 1 /\ k > built
      BY BuiltFacts, ProgramFacts
    <3> QED BY <2>1, <3>1, ProgramFacts
  <2>3. \A n \in Nodes : n # program[built + 1] => pc'[n] = pc[n]
    BY <2>1 DEF Types
  <2> QED
    BY <2>1, <2>2, <2>3, ProgramFacts DEF ThreadsOfBuilt
<1>3. CASE EndProgram
  BY <1>3, ProgramFacts DEF EndProgram, ThreadsOfBuilt, Types
<1>4. CASE RequestStop
  <2>1. /\ built \in 1 .. Len(program) /\ ending /\ Dying = program[built]
        /\ Dying \in NodesOf(program)
        /\ UNCHANGED <<program, ending, built>>
        /\ pc' = [pc EXCEPT ![Dying] = pc'[Dying]]
    BY <1>4, ProgramFacts DEF RequestStop, Goto, Types, Dying
  <2>2. \A k \in 1 .. Len(program) :
          k > built => program[k] # Dying /\ program[k] \in Nodes
    BY <2>1, ProgramFacts DEF Types
  <2>3. \A n \in Nodes : n # Dying => pc'[n] = pc[n]
    BY <2>1 DEF Types
  <2> QED
    BY <2>1, <2>2, <2>3 DEF ThreadsOfBuilt
<1>0. CASE DestroyProcess
  BY <1>0 DEF DestroyProcess, ThreadsOfBuilt
<1>5. CASE NodeDestroyed
  BY <1>5, ProgramFacts
     DEF NodeDestroyed, ThreadsOfBuilt, Types, Dying, Joined
<1>6. ASSUME NEW p \in Ports, DestroyQueue(p) \/ Unsubscribe(p)
      PROVE  ThreadsOfBuilt'
  BY <1>6 DEF DestroyQueue, Unsubscribe, ThreadsOfBuilt
<1>7. ASSUME NEW n \in Nodes, Run(n)
      PROVE  ThreadsOfBuilt'
  <2>1. /\ UNCHANGED ownerVars
        /\ pc[n] \notin {"none", "ended"}
        /\ pc' = [pc EXCEPT ![n] = pc'[n]]
    BY <1>7, RunFrame
  <2>2. n \in NodesOf(program)
    BY <2>1 DEF ThreadsOfBuilt
  <2>3. \A k \in 1 .. Len(program) : k > built => program[k] # n
    BY <2>1 DEF ThreadsOfBuilt
  <2>4. \A m \in Nodes : m # n => pc'[m] = pc[m]
    BY <2>1 DEF Types
  <2>5. UNCHANGED <<program, ending, built>>
    BY <2>1 DEF ownerVars
  <2> QED BY <2>2, <2>3, <2>4, <2>5, ProgramFacts DEF ThreadsOfBuilt
<1>8. CASE UNCHANGED vars
  BY <1>8 DEF vars, ownerVars, ThreadsOfBuilt
<1> QED
  BY <1>0, <1>1, <1>2, <1>3, <1>4, <1>5, <1>6, <1>7, <1>8 DEF Next, Destroy

LEMMA InputsStep ==
  ASSUME Types, ThreadsOfBuilt, InputsOfBuilt, [Next]_vars
  PROVE  InputsOfBuilt'
<1>1. CASE InitializeInput
  <2> DEFINE p == <<program[built + 1], connected + 1>>
  <2>1. /\ subscribed' = subscribed \cup {p} /\ alive' = alive \cup {p}
        /\ built + 1 \in 1 .. Len(program) /\ p[1] = program[built + 1]
        /\ connected' = connected + 1
        /\ UNCHANGED <<program, ending, built, pc>>
    BY <1>1 DEF InitializeInput, Types
  <2>2. p[1] \in NodesOf(program)
    BY <2>1, ProgramFacts
  <2>3. /\ \A q \in subscribed' : q[1] \in NodesOf(program')
        /\ \A k \in 1 .. built' :
             k < built' \/ ~ending' \/ pc'[program'[k]] # "ended" =>
               \A i \in 1 .. Len(Inputs(program'[k])) :
                 <<program'[k], i>> \in alive'
    BY <2>1, <2>2 DEF InputsOfBuilt
  <2>4. ASSUME ~ending', built' < Len(program'),
               NEW i \in 1 .. Len(Inputs(program'[built' + 1])), i <= connected'
        PROVE  <<program'[built' + 1], i>> \in alive'
    <3>1. CASE i <= connected
      BY <2>1, <2>4, <3>1 DEF InputsOfBuilt
    <3>2. CASE i = connected + 1
      BY <2>1, <3>2
    <3> QED BY <2>1, <2>4, <3>1, <3>2 DEF Types
  <2> QED BY <2>3, <2>4 DEF InputsOfBuilt
<1>2. CASE StartRunThread
  <2>1. /\ built < Len(program) /\ ~ending /\ built' = built + 1
        /\ connected = Len(Inputs(program[built + 1])) /\ connected' = 0
        /\ UNCHANGED <<program, ending, subscribed, alive>>
    BY <1>2 DEF StartRunThread
  <2>2. \A i \in 1 .. Len(Inputs(program[built'])) :
          <<program[built'], i>> \in alive
    BY <2>1 DEF InputsOfBuilt
  <2>3. \A k \in 1 .. built : \A i \in 1 .. Len(Inputs(program[k])) :
          <<program[k], i>> \in alive
    BY <2>1 DEF InputsOfBuilt
  <2>4. \A k \in 1 .. built' : k \in 1 .. built \/ k = built'
    BY <2>1 DEF Types
  <2>5. \A i \in 1 .. Len(Inputs(program'[built' + 1])) : ~(i <= connected')
    BY <2>1
  <2> QED BY <2>1, <2>2, <2>3, <2>4, <2>5 DEF InputsOfBuilt
<1>3. CASE EndProgram
  BY <1>3 DEF EndProgram, InputsOfBuilt
<1>4. CASE RequestStop
  <2>1. /\ built \in 1 .. Len(program) /\ ending /\ Dying = program[built]
        /\ Dying \in Nodes
        /\ \A k \in 1 .. built : k < built => program[k] # Dying
        /\ UNCHANGED <<program, ending, built, subscribed, alive>>
        /\ \/ pc' = pc
           \/ pc[Dying] = "isReady" /\ pc' = [pc EXCEPT ![Dying] = "ended"]
    <3>1. /\ built \in 1 .. Len(program) /\ Len(program) \in Nat
          /\ Dying = program[built]
      BY <1>4, ProgramFacts DEF RequestStop, Types, Dying
    <3>2. /\ Dying \in Nodes
          /\ \A k \in 1 .. built : k < built => program[k] # Dying
      BY <3>1, ProgramFacts
    <3> QED BY <1>4, <3>1, <3>2 DEF RequestStop, Goto
  <2>2. \A m \in Nodes : pc[m] = "ended" => pc'[m] = "ended"
    BY <2>1 DEF Types
  <2>3. \A k \in 1 .. built : program[k] \in Nodes
    BY ProgramFacts DEF Types
  <2> QED BY <2>1, <2>2, <2>3 DEF InputsOfBuilt
<1>0. CASE DestroyProcess
  BY <1>0 DEF DestroyProcess, InputsOfBuilt
<1>5. CASE NodeDestroyed
  BY <1>5 DEF NodeDestroyed, InputsOfBuilt, Types
<1>6. ASSUME NEW p \in Ports, DestroyQueue(p)
      PROVE  InputsOfBuilt'
  <2>1. /\ ending /\ built \in 1 .. Len(program) /\ p[1] = program[built]
        /\ pc[program[built]] = "ended" /\ alive' = alive \ {p}
        /\ UNCHANGED <<program, ending, built, subscribed, pc>>
    BY <1>6 DEF DestroyQueue, Dying, Joined, Types
  <2>2. \A k \in 1 .. built : k < built => program[k] # p[1]
    BY <2>1, ProgramFacts DEF Types
  <2>3. \A k \in 1 .. built : \A i : <<program[k], i>> = p => program[k] = p[1]
    OBVIOUS
  <2> QED BY <2>1, <2>2, <2>3 DEF InputsOfBuilt
<1>7. ASSUME NEW p \in Ports, Unsubscribe(p)
      PROVE  InputsOfBuilt'
  BY <1>7 DEF Unsubscribe, InputsOfBuilt
<1>8. ASSUME NEW n \in Nodes, Run(n)
      PROVE  InputsOfBuilt'
  <2>1. /\ UNCHANGED ownerVars
        /\ pc[n] \notin {"none", "ended"}
        /\ pc' = [pc EXCEPT ![n] = pc'[n]]
    BY <1>8, RunFrame
  <2>2. \A m \in Nodes : pc'[m] # "ended" => pc[m] # "ended"
    BY <2>1 DEF Types
  <2>3. \A k \in 1 .. built : program[k] \in Nodes
    <3>1. built \in 0 .. Len(program) /\ Len(program) \in Nat
      BY ProgramFacts DEF Types
    <3>2. \A k \in 1 .. built : k \in 1 .. Len(program)
      BY <3>1
    <3> QED BY <3>2, ProgramFacts
  <2>4. UNCHANGED <<program, ending, built, connected, subscribed, alive>>
    BY <2>1 DEF ownerVars
  <2> QED BY <2>2, <2>3, <2>4 DEF InputsOfBuilt
<1>9. CASE UNCHANGED vars
  BY <1>9 DEF vars, ownerVars, InputsOfBuilt
<1> QED
  BY <1>0, <1>1, <1>2, <1>3, <1>4, <1>5, <1>6, <1>7, <1>8, <1>9
  DEF Next, Destroy

-----------------------------------------------------------------------------
(* The inputs that are not initialized yet.                                *)

LEMMA RunUntouched ==
  ASSUME Types, NEW n \in Nodes, Stocked(n), Run(n),
         NEW q \in Ports, Untouched(q)
  PROVE  Untouched(q)'
<1> USE DEF Untouched, ownerVars, fireVars, historyVars
<1>1. CASE Consume(n)
  <2> DEFINE p == <<n, NodeOf[n].consumes[at[n] + 1]>>
  <2>1. /\ p \in Ports /\ Len(queue[p]) > 0
        /\ queue' = [queue EXCEPT ![p] = Pop(@).rest]
        /\ consumed' = [consumed EXCEPT ![p] = @ + 1]
        /\ UNCHANGED <<subscribed, toCall>>
    BY <1>1, ConsumeFinds
  <2>2. q # p
    BY <2>1
  <2>3. queue \in [Ports -> Seq(RealMessage)] /\ consumed \in [Ports -> Nat]
    BY DEF Types
  <2> HIDE DEF p
  <2>4. queue'[q] = queue[q] /\ consumed'[q] = consumed[q]
    BY <2>1, <2>2, <2>3
  <2> QED BY <2>1, <2>4
<1>2. CASE Publish(n)
  BY <1>2 DEF Publish, Types
<1>3. ASSUME NEW p \in Ports, OnInputReceived(n, p)
      PROVE  Untouched(q)'
  <2>1. /\ p \in toCall[n] /\ UNCHANGED <<subscribed, consumed>>
        /\ queue' = queue \/ queue' = [queue EXCEPT ![p] = Append(@, out[n])]
        /\ toCall' = toCall \/ toCall' = [toCall EXCEPT ![n] = @ \ {p}]
    BY <1>3 DEF OnInputReceived
  <2>2. q # p /\ q \notin toCall[n]
    BY <2>1
  <2>3. queue'[q] = queue[q]
    BY <2>1, <2>2 DEF Types
  <2>4. \A m \in Nodes : q \notin toCall'[m]
    <3>1. toCall \in [Nodes -> SUBSET Ports] /\ \A m \in Nodes : q \notin toCall[m]
      BY DEF Types
    <3> QED BY <2>1, <3>1
  <2> QED BY <2>1, <2>3, <2>4
<1>4. CASE \/ InputReady(n) \/ InputNotReady(n) \/ AllReady(n)
           \/ FireDestroyed(n) \/ EmptyFire(n)
           \/ Drain(n)
  BY <1>4
  DEF InputReady, InputNotReady, AllReady, FireDestroyed, EmptyFire, Drain
<1>5. CASE Make(n) \/ Flush(n) \/ Return(n)
  BY <1>5 DEF Make, Flush, Return
<1> QED BY <1>1, <1>2, <1>3, <1>4, <1>5 DEF Run

LEMMA ProgramKept ==
  ASSUME [Next]_vars
  PROVE  program' = program
BY 
DEF Next, InitializeInput, StartRunThread, EndProgram, Destroy, RequestStop,
    DestroyProcess,
       NodeDestroyed, DestroyQueue, Unsubscribe, Run, InputReady,
       InputNotReady,
       AllReady, FireDestroyed, EmptyFire, Drain, Consume, Make, Flush,
       Publish, OnInputReceived,
       Return, vars, ownerVars

LEMMA FreshStep ==
  ASSUME Types, Types', FreshInputs, \A n \in Nodes : Stocked(n), [Next]_vars
  PROVE  FreshInputs'
<1> SUFFICES ASSUME ~ending',
                    NEW k, k \in built' + 1 .. Len(program),
                    NEW i, i \in 1 .. Len(Inputs(program[k])),
                    k > built' + 1 \/ i > connected',
                    NEW q, q = <<program[k], i>>
             PROVE  Untouched(q)'
  BY ProgramKept DEF FreshInputs, Untouched
<1>0. k \in 1 .. Len(program) /\ q \in Ports
  <2>1. built' \in Nat /\ Len(program) \in Nat
    BY ProgramFacts DEF Types
  <2> DEFINE b == built'
  <2>2. k \in 1 .. Len(program)
    <3>1. b \in Nat /\ k \in b + 1 .. Len(program)
      BY <2>1
    <3> HIDE DEF b
    <3> QED BY <2>1, <3>1
  <2> QED BY <2>2, ProgramFacts, NodeFacts
<1>1. CASE InitializeInput
  <2> DEFINE p == <<program[built + 1], connected + 1>>
  <2>1. /\ subscribed' = subscribed \cup {p} /\ connected' = connected + 1
        /\ ~ending
        /\ UNCHANGED <<program, built, queue, consumed, toCall>>
    BY <1>1 DEF InitializeInput, historyVars
  <2>2. built \in Nat /\ connected \in Nat /\ built + 1 \in 1 .. Len(program)
    BY <1>1, ProgramFacts DEF InitializeInput, Types
  <2>3. k \in built + 1 .. Len(program) /\ (k > built + 1 \/ i > connected)
    BY <2>1, <2>2
  <2>4. Untouched(q)
    BY <2>1, <2>3 DEF FreshInputs
  <2>5. k # built + 1 \/ i # connected + 1
    BY <2>1, <2>2
  <2>6. q # p
    BY <2>2, <2>5, <1>0, ProgramFacts
  <2> HIDE DEF p
  <2> QED BY <2>1, <2>4, <2>6 DEF Untouched
<1>2. CASE StartRunThread
  <2>1. /\ built' = built + 1 /\ connected' = 0 /\ ~ending /\ built \in Nat
        /\ UNCHANGED <<program, subscribed, queue, consumed, toCall>>
    BY <1>2 DEF StartRunThread, Types, historyVars
  <2>2. k \in built + 1 .. Len(program) /\ k > built + 1
    BY <2>1, <1>0
  <2>3. Untouched(q)
    BY <2>1, <2>2 DEF FreshInputs
  <2> QED BY <2>1, <2>3 DEF Untouched
<1>3. CASE EndProgram \/ RequestStop \/ DestroyProcess \/ NodeDestroyed
  BY <1>3 DEF EndProgram, RequestStop, DestroyProcess, NodeDestroyed
<1>4. ASSUME NEW p \in Ports, DestroyQueue(p) PROVE FALSE
  BY <1>4 DEF DestroyQueue
<1>5. ASSUME NEW p \in Ports, Unsubscribe(p) PROVE Untouched(q)'
  BY <1>5 DEF Unsubscribe, FreshInputs, Untouched, historyVars
<1>6. ASSUME NEW n \in Nodes, Run(n) PROVE Untouched(q)'
  <2>1. UNCHANGED ownerVars
    BY <1>6, RunFrame
  <2>2. Untouched(q)
    BY <2>1 DEF ownerVars, FreshInputs
  <2> QED BY <1>6, <2>2, <1>0, RunUntouched
<1>7. CASE UNCHANGED vars
  BY <1>7 DEF vars, ownerVars, historyVars, FreshInputs, Untouched
<1> QED
  BY <1>1, <1>2, <1>3, <1>4, <1>5, <1>6, <1>7 DEF Next, Destroy

-----------------------------------------------------------------------------
(* What one thread does to another.                                        *)

-----------------------------------------------------------------------------
(* What can be called when it is destroyed.                                *)

LEMMA StoppedStep ==
  ASSUME Types, StoppedLast, [Next]_vars
  PROVE  StoppedLast'
<1>1. CASE RequestStop
  <2>1. /\ ending /\ built \in 1 .. Len(program) /\ Dying = program[built]
        /\ stopping' = stopping \cup {Dying}
        /\ UNCHANGED <<program, ending, built>>
    BY <1>1, ProgramFacts DEF RequestStop, Types, Dying
  <2>2. built >= built
    BY <2>1
  <2> QED BY <2>1, <2>2 DEF StoppedLast
<1>2. CASE NodeDestroyed
  <2>1. /\ built' = built - 1 /\ UNCHANGED <<program, ending, stopping>>
        /\ built \in Int /\ Len(program) \in Nat
    BY <1>2, ProgramFacts DEF NodeDestroyed, Types
  <2>2. \A k \in 1 .. Len(program) : k >= built => k >= built'
    BY <2>1
  <2> QED BY <2>1, <2>2 DEF StoppedLast
<1>3. CASE StartRunThread \/ EndProgram
  <2>1. ~ending /\ UNCHANGED <<program, stopping>>
    BY <1>3 DEF StartRunThread, EndProgram
  <2>2. stopping = {}
    BY <2>1 DEF StoppedLast
  <2> QED BY <2>1, <2>2 DEF StoppedLast
<1>4. CASE InitializeInput \/ DestroyProcess
  BY <1>4 DEF InitializeInput, DestroyProcess, StoppedLast
<1>5. ASSUME NEW p \in Ports, DestroyQueue(p) \/ Unsubscribe(p)
      PROVE  StoppedLast'
  BY <1>5 DEF DestroyQueue, Unsubscribe, StoppedLast
<1>6. ASSUME NEW n \in Nodes, Run(n)
      PROVE  StoppedLast'
  BY <1>6, RunFrame DEF ownerVars, StoppedLast
<1>7. CASE UNCHANGED vars
  BY <1>7 DEF vars, ownerVars, StoppedLast
<1> QED BY <1>1, <1>2, <1>3, <1>4, <1>5, <1>6, <1>7 DEF Next, Destroy

(* An input that is to be called and has lost its queue is that of a node  *)
(* that is joined, and was constructed after the one that calls it.        *)
LEMMA CalledWhenGone ==
  ASSUME Types, ThreadsOfBuilt, InputsOfBuilt, FreshInputs,
         NEW n \in Nodes, Publishing(n), pc[n] = "call",
         NEW p \in Ports, p \in toCall[n], p \notin alive
  PROVE  InputGone
<1>1. TopicOf(p) = NodeOf[n].output /\ p[1] \in NodesOf(program)
  BY DEF Publishing
<1>2. PICK k \in 1 .. Len(program) : p[1] = program[k]
  BY <1>1, ProgramFacts
<1>3. n \in NodesOf(program)
  BY DEF ThreadsOfBuilt
<1>4. PICK j \in 1 .. Len(program) : n = program[j]
  BY <1>3, ProgramFacts
<1>5. /\ built \in 0 .. Len(program) /\ Len(program) \in Nat
      /\ p = <<program[k], p[2]>> /\ p[2] \in 1 .. Len(Inputs(program[k]))
      /\ Len(Inputs(program[k])) \in Nat /\ connected \in Nat
  BY <1>2, ProgramFacts, PortFacts, NodeFacts DEF Types
<1>6. j <= built
  <2>1. ~(j > built)
    BY <1>4 DEF ThreadsOfBuilt
  <2> QED BY <1>5, <2>1
<1>7. ending
  <2> SUFFICES ASSUME ~ending PROVE FALSE
    OBVIOUS
  <2>1. CASE k <= built
    <3>1. k \in 1 .. built
      BY <1>5, <2>1
    <3> QED BY <1>5, <3>1 DEF InputsOfBuilt
  <2>2. CASE k = built + 1 /\ p[2] <= connected
    <3>1. built < Len(program)
      BY <1>5, <2>2
    <3> QED BY <1>5, <2>2, <3>1 DEF InputsOfBuilt
  <2>3. CASE k > built + 1 \/ (k = built + 1 /\ p[2] > connected)
    <3>1. k \in built + 1 .. Len(program)
      BY <1>5, <2>3
    <3>2. Untouched(p)
      BY <1>5, <2>3, <3>1 DEF FreshInputs
    <3> QED BY <3>2 DEF Untouched
  <2>4. k <= built \/ k = built + 1 \/ k > built + 1
    BY <1>5
  <2>5. p[2] <= connected \/ p[2] > connected
    BY <1>5
  <2> QED BY <2>1, <2>2, <2>3, <2>4, <2>5
<1>8. k >= built /\ pc[program[k]] = "ended"
  <2>1. CASE k > built
    <3>1. pc[program[k]] = "ended"
      BY <1>7, <2>1 DEF ThreadsOfBuilt
    <3> QED BY <1>5, <2>1, <3>1
  <2>2. CASE k <= built
    <3>1. k \in 1 .. built
      BY <1>5, <2>2
    <3>2. ~(k < built \/ ~ending \/ pc[program[k]] # "ended")
      BY <1>5, <3>1 DEF InputsOfBuilt
    <3> QED BY <1>5, <3>1, <3>2
  <2> QED BY <1>5, <2>1, <2>2
<1>9. j < k
  <2>1. j # k
    BY <1>4, <1>8
  <2> QED BY <1>5, <1>6, <1>8, <2>1
<1>10. ConstructedBefore(n, p[1])
  BY <1>2, <1>4, <1>9 DEF ConstructedBefore
<1> QED BY <1>2, <1>8, <1>10 DEF InputGone

LEMMA FaultStep ==
  ASSUME Types, ThreadsOfBuilt, StoppedLast, InputsOfBuilt, FreshInputs,
         \A n \in Nodes : Publishing(n), FaultExplained, [Next]_vars
  PROVE  FaultExplained'
<1>1. ASSUME fault = "none", fault' = fault PROVE FaultExplained'
  BY <1>1 DEF FaultExplained
<1>2. ASSUME NEW n \in Nodes, NEW p \in Ports, OnInputReceived(n, p),
             fault = "none"
      PROVE  FaultExplained'
  <2>1. CASE p \in alive
    BY <1>1, <1>2, <2>1 DEF OnInputReceived
  <2>2. CASE p \notin alive
    <3>1. /\ pc[n] = "call" /\ p \in toCall[n] /\ fault' = "input"
          /\ UNCHANGED <<program, alive, toCall, pc>>
      BY <1>2, <2>2 DEF OnInputReceived, ownerVars
    <3>2. InputGone
      BY <2>2, <3>1, CalledWhenGone
    <3> QED BY <3>1, <3>2 DEF FaultExplained, InputGone, ConstructedBefore
  <2> QED BY <2>1, <2>2
<1>3. ASSUME NEW n \in Nodes, FireDestroyed(n)
      PROVE  FaultExplained'
  <2>1. /\ pc[n] = "isReady" /\ n \in stopping /\ fault' = "process"
        /\ UNCHANGED <<program, built, stopping, pc>>
    BY <1>3 DEF FireDestroyed, ownerVars, Types
  <2>2. PICK k \in 1 .. Len(program) : ending /\ k >= built /\ program[k] = n
    BY <2>1 DEF StoppedLast
  <2>3. ~(k > built)
    BY <2>1, <2>2 DEF ThreadsOfBuilt
  <2>4. k = built /\ built > 0
    BY <2>2, <2>3, ProgramFacts DEF Types
  <2> QED BY <2>1, <2>2, <2>4 DEF FaultExplained, ProcessGone, Dying
<1>4. ASSUME NEW n \in Nodes, Run(n), ~\E p \in Ports : OnInputReceived(n, p),
             ~FireDestroyed(n)
      PROVE  fault' = fault
  BY <1>4
  DEF Run, InputReady, InputNotReady, AllReady, EmptyFire, Drain, Consume,
              Make, Flush, Publish, Return, historyVars
<1>5. CASE InitializeInput \/ StartRunThread \/ EndProgram \/ Destroy
  <2>1. fault' = fault
    BY <1>5
    DEF InitializeInput, StartRunThread, EndProgram, Destroy, RequestStop,
              DestroyProcess, NodeDestroyed, DestroyQueue, Unsubscribe,
              historyVars
  <2>2. fault = "none" \/ UNCHANGED vars
    BY DEF Next
  <2> QED BY <1>1, <2>1, <2>2 DEF vars, ownerVars, historyVars, FaultExplained,
              InputGone, ProcessGone, ConstructedBefore, Dying
<1>6. CASE UNCHANGED vars
  BY <1>6 DEF vars, ownerVars, historyVars, FaultExplained, InputGone,
              ProcessGone, ConstructedBefore, Dying
<1>7. fault = "none" \/ UNCHANGED vars
  BY DEF Next
<1> QED BY <1>1, <1>2, <1>3, <1>4, <1>5, <1>6, <1>7 DEF Next

LEMMA RunLocal ==
  ASSUME Types, NEW n \in Nodes, Publishing(n), Stocked(n), Run(n),
         NEW m \in Nodes, m # n
  PROVE  /\ pc'[m] = pc[m] /\ at'[m] = at[m] /\ operands'[m] = operands[m]
         /\ staged'[m] = staged[m] /\ out'[m] = out[m] /\ toCall'[m] = toCall[m]
         /\ nextNumber'[m] = nextNumber[m]
         /\ \A i \in 1 .. Len(Inputs(m)) :
              Len(queue[<<m, i>>]) <= Len(queue'[<<m, i>>])
         /\ \A t \in Topics :
              log'[t] = log[t] \/ (pc[n] = "publish" /\ t = NodeOf[n].output)
<1> USE DEF ownerVars, fireVars, historyVars
<1>0. \A i \in 1 .. Len(Inputs(m)) :
        /\ <<m, i>> \in Ports
        /\ Len(queue[<<m, i>>]) \in Nat
  <2>1. queue \in [Ports -> Seq(RealMessage)]
    BY DEF Types
  <2>2. TAKE i \in 1 .. Len(Inputs(m))
  <2>3. <<m, i>> \in Ports
    BY NodeFacts
  <2>4. queue[<<m, i>>] \in Seq(RealMessage)
    BY <2>1, <2>3
  <2> QED BY <2>3, <2>4
<1>1. CASE \/ InputReady(n) \/ InputNotReady(n) \/ AllReady(n)
           \/ FireDestroyed(n) \/ EmptyFire(n)
           \/ Drain(n)
  <2>1. /\ pc' = [pc EXCEPT ![n] = pc'[n]] /\ at' = [at EXCEPT ![n] = at'[n]]
        /\ UNCHANGED <<queue, operands, staged, out, toCall, nextNumber, log>>
    BY <1>1
    DEF InputReady, InputNotReady, AllReady, FireDestroyed, EmptyFire, Drain,
        Goto,
                Types
  <2>2. pc'[m] = pc[m] /\ at'[m] = at[m]
    BY <2>1 DEF Types
  <2>3. \A i \in 1 .. Len(Inputs(m)) :
          Len(queue[<<m, i>>]) <= Len(queue'[<<m, i>>])
    BY <1>0, <2>1
  <2> QED BY <2>1, <2>2, <2>3
<1>2. CASE Consume(n)
  <2> DEFINE p == <<n, NodeOf[n].consumes[at[n] + 1]>>
  <2>1. /\ operands' = [operands EXCEPT ![n] = Append(@, Pop(queue[p]).message)]
        /\ queue' = [queue EXCEPT ![p] = Pop(@).rest]
        /\ at' = [at EXCEPT ![n] = @ + 1]
        /\ UNCHANGED <<ownerVars, pc, staged, out, nextNumber, toCall, log,
                       fault>>
    BY <1>2, ConsumeFinds
  <2>2. \A i \in 1 .. Len(Inputs(m)) : <<m, i>> # p
    OBVIOUS
  <2> HIDE DEF p
  <2> QED BY <1>0, <2>1, <2>2 DEF Types
<1>3. CASE Make(n)
  BY <1>0, <1>3 DEF Make, Goto, Types
<1>4. CASE Flush(n)
  BY <1>0, <1>4 DEF Flush, Goto, Types
<1>5. CASE Publish(n)
  <2>1. pc[n] = "publish" /\ out[n].topic = NodeOf[n].output
    BY <1>5 DEF Publish, Goto, Publishing
  <2> QED BY <1>0, <1>5, <2>1 DEF Publish, Goto, Types
<1>6. ASSUME NEW p \in Ports, OnInputReceived(n, p), p \in alive
      PROVE  /\ \A i \in 1 .. Len(Inputs(m)) :
                  Len(queue[<<m, i>>]) <= Len(queue'[<<m, i>>])
             /\ toCall'[m] = toCall[m]
             /\ UNCHANGED <<pc, at, operands, staged, out, nextNumber, log>>
  <2>1. /\ queue' = [queue EXCEPT ![p] = Append(@, out[n])]
        /\ toCall' = [toCall EXCEPT ![n] = @ \ {p}]
        /\ UNCHANGED <<pc, at, fireVars, log>>
    BY <1>6 DEF OnInputReceived
  <2>2. Len(queue'[p]) = Len(queue[p]) + 1
    BY <2>1 DEF Types
  <2>3. \A q \in Ports : q # p => queue'[q] = queue[q]
    BY <2>1 DEF Types
  <2>4. \A i \in 1 .. Len(Inputs(m)) :
          Len(queue[<<m, i>>]) <= Len(queue'[<<m, i>>])
    <3> SUFFICES ASSUME NEW i \in 1 .. Len(Inputs(m))
                 PROVE  Len(queue[<<m, i>>]) <= Len(queue'[<<m, i>>])
      OBVIOUS
    <3>1. CASE <<m, i>> = p
      BY <1>0, <2>2, <3>1
    <3>2. CASE <<m, i>> # p
      BY <1>0, <2>3, <3>2
    <3> QED BY <3>1, <3>2
  <2> QED BY <2>1, <2>4 DEF Types
<1>7. ASSUME NEW p \in Ports, OnInputReceived(n, p), p \notin alive
      PROVE  UNCHANGED <<queue, pc, at, operands, staged, out, toCall,
                         nextNumber, log>>
  BY <1>7 DEF OnInputReceived
<1>8. CASE Return(n)
  BY <1>0, <1>8 DEF Return, Goto, Types
<1> QED
  <2>1. CASE \E p \in Ports : OnInputReceived(n, p)
    BY <1>0, <1>6, <1>7, <2>1
  <2> QED BY <1>1, <1>2, <1>3, <1>4, <1>5, <1>8, <2>1 DEF Run

(* Only one node publishes on a topic.                                     *)
LEMMA OnePublisher ==
  ASSUME Types, ThreadsOfBuilt, NEW m \in Nodes, NEW n \in Nodes,
         pc[m] # "none", pc[n] # "none", NodeOf[m].output = NodeOf[n].output
  PROVE  m = n
BY ProgramFacts DEF ThreadsOfBuilt

-----------------------------------------------------------------------------
(* Publishing                                                              *)

LEMMA PublishingStep ==
  ASSUME Types, ThreadsOfBuilt, InputsOfBuilt,
         \A n \in Nodes : Publishing(n) /\ Stocked(n), [Next]_vars
  PROVE  \A m \in Nodes : Publishing(m)'
<1> USE DEF ownerVars, fireVars, historyVars
<1> SUFFICES ASSUME NEW m \in Nodes PROVE Publishing(m)'
  OBVIOUS
<1>0. Publishing(m) /\ program' = program
  BY ProgramKept
<1>1. CASE InitializeInput \/ EndProgram \/ DestroyProcess \/ NodeDestroyed
           \/ (\E p \in Ports : DestroyQueue(p) \/ Unsubscribe(p))
           \/ UNCHANGED vars
  BY <1>0, <1>1
  DEF InitializeInput, EndProgram, DestroyProcess, NodeDestroyed, DestroyQueue,
                    Unsubscribe, vars, Publishing
<1>2. CASE StartRunThread
  <2>1. /\ built + 1 \in 1 .. Len(program) /\ program[built + 1] \in Nodes
        /\ pc[program[built + 1]] = "none"
        /\ pc' = [pc EXCEPT ![program[built + 1]] = "isReady"]
        /\ UNCHANGED <<staged, out, toCall, log>>
    <3>1. built + 1 \in 1 .. Len(program) /\ program[built + 1] \in Nodes
      BY <1>2, BuiltFacts DEF StartRunThread
    <3>2. built + 1 > built /\ ~ending
      BY <1>2, BuiltFacts DEF StartRunThread
    <3>3. pc[program[built + 1]] = "none"
      BY <3>1, <3>2 DEF ThreadsOfBuilt
    <3> QED BY <1>2, <3>1, <3>3 DEF StartRunThread
  <2>2. pc'[m] = pc[m] \/ (pc[m] = "none" /\ pc'[m] = "isReady")
    BY <2>1 DEF Types
  <2> QED BY <1>0, <2>1, <2>2 DEF Publishing
<1>3. CASE RequestStop
  <2>0. built \in 1 .. Len(program)
    BY <1>3 DEF RequestStop, Types
  <2>1. /\ Dying \in Nodes
        /\ \/ pc' = pc
           \/ pc[Dying] = "isReady" /\ pc' = [pc EXCEPT ![Dying] = "ended"]
        /\ UNCHANGED <<staged, out, toCall, log>>
    BY <1>3, <2>0, ProgramFacts DEF RequestStop, Goto, Dying
  <2>2. pc'[m] = pc[m] \/ (pc[m] = "isReady" /\ pc'[m] = "ended")
    BY <2>1 DEF Types
  <2> QED BY <1>0, <2>1, <2>2 DEF Publishing
<1>4. ASSUME NEW n \in Nodes, Run(n), n # m PROVE Publishing(m)'
  <2>1. /\ pc'[m] = pc[m] /\ staged'[m] = staged[m] /\ out'[m] = out[m]
        /\ toCall'[m] = toCall[m]
        /\ \A t \in Topics :
             log'[t] = log[t] \/ (pc[n] = "publish" /\ t = NodeOf[n].output)
    BY <1>4, RunLocal
  <2>2. NodeOf[m].output \in Topics
    BY NodeFacts
  <2>3. pc[m] = "call" => log'[NodeOf[m].output] = log[NodeOf[m].output]
    BY <1>4, <2>1, <2>2, OnePublisher
  <2> QED BY <1>0, <2>1, <2>3 DEF Publishing
<1>5. CASE \/ InputReady(m) \/ InputNotReady(m) \/ AllReady(m)
           \/ FireDestroyed(m) \/ EmptyFire(m)
           \/ Drain(m)
  BY <1>0, <1>5
     DEF InputReady, InputNotReady, AllReady, FireDestroyed, EmptyFire, Drain,
         Goto, NextRun,
         Publishing, Types
<1>6. CASE Consume(m)
  BY <1>0, <1>6 DEF Consume, Publishing
<1>7. CASE Make(m)
  BY <1>0, <1>7 DEF Make, Goto, Publishing, Types
<1>8. CASE Flush(m)
  BY <1>0, <1>8 DEF Flush, Goto, Publishing, Types
<1>9. CASE Publish(m)
  <2> DEFINE t == NodeOf[m].output
  <2>1. /\ pc[m] = "publish" /\ out[m].topic = t /\ t \in Topics
        /\ pc'[m] = "call" /\ out'[m] = out[m] /\ staged' = staged
        /\ toCall'[m] = {p \in subscribed : TopicOf(p) = t}
        /\ log'[t] = Append(log[t], out[m])
    BY <1>0, <1>9, NodeFacts DEF Publish, Goto, Publishing, Types
  <2>2. Len(log[t]) \in Nat
    BY <2>1 DEF Types
  <2>3. Len(log'[t]) = Len(log[t]) + 1 /\ log'[t][Len(log[t]) + 1] = out[m]
    <3>1. log[t] \in Seq(RealMessage)
      BY <2>1 DEF Types
    <3>2. out[m] \in RealMessage
      BY <2>1 DEF Types, Message, RealMessage
    <3> HIDE DEF t
    <3> QED BY <2>1, <3>1, <3>2, Appended
  <2>4. \A p \in toCall'[m] : TopicOf(p) = t /\ p[1] \in NodesOf(program)
    BY <2>1 DEF InputsOfBuilt
  <2> HIDE DEF t
  <2> QED BY <1>0, <2>1, <2>2, <2>3, <2>4 DEF t, Publishing
<1>10. ASSUME NEW p \in Ports, OnInputReceived(m, p) PROVE Publishing(m)'
  <2>1. /\ pc[m] = "call" /\ toCall'[m] \subseteq toCall[m]
        /\ UNCHANGED <<pc, staged, out, log>>
    BY <1>10 DEF OnInputReceived, Types
  <2> QED BY <1>0, <2>1 DEF Publishing
<1>11. CASE Return(m)
  BY <1>0, <1>11 DEF Return, Goto, NextRun, Publishing, Types
<1> QED
  BY <1>1, <1>2, <1>3, <1>4, <1>5, <1>6, <1>7, <1>8, <1>9, <1>10, <1>11
     DEF Next, Destroy, Run

-----------------------------------------------------------------------------
(* A node finds what it needs.                                             *)

LEMMA ReadyKept ==
  ASSUME Types, Types', NEW m \in Nodes, NEW i \in 1 .. Len(Inputs(m)),
         Len(queue[<<m, i>>]) <= Len(queue'[<<m, i>>])
  PROVE  /\ Ready(<<m, i>>) => Ready(<<m, i>>)'
         /\ \A j \in Nat :
              j <= Len(queue[<<m, i>>]) => j <= Len(queue'[<<m, i>>])
<1>1. <<m, i>> \in Ports /\ Inputs(m)[i].consumeCount \in Nat
  BY NodeFacts
<1>2. Len(queue[<<m, i>>]) \in Nat /\ Len(queue'[<<m, i>>]) \in Nat
  <2> DEFINE old == queue[<<m, i>>]
             new == queue'[<<m, i>>]
  <2>1. old \in Seq(RealMessage) /\ new \in Seq(RealMessage)
    BY <1>1 DEF Types
  <2> HIDE DEF old, new
  <2>2. Len(old) \in Nat /\ Len(new) \in Nat
    BY <2>1
  <2> QED BY <2>2 DEF old, new
<1> DEFINE before == Len(queue[<<m, i>>])
           after  == Len(queue'[<<m, i>>])
<1>3. before \in Nat /\ after \in Nat /\ before <= after
  BY <1>2
<1>4. \A j \in Nat : j <= before => j <= after
  <2> HIDE DEF before, after
  <2> QED BY <1>3
<1>5. Ready(<<m, i>>) => Ready(<<m, i>>)'
  <2>1. Ready(<<m, i>>) => before >= Inputs(m)[i].consumeCount
    BY DEF Ready
  <2>2. after >= Inputs(m)[i].consumeCount => Ready(<<m, i>>)'
    BY DEF Ready
  <2> HIDE DEF before, after
  <2> QED BY <1>1, <1>3, <2>1, <2>2
<1> QED BY <1>4, <1>5

(* If its own steps are not at stake, a node keeps what it has found.      *)
LEMMA StockedKept ==
  ASSUME Types, Types', NEW m \in Nodes, Stocked(m),
         pc'[m] = pc[m], at'[m] = at[m], operands'[m] = operands[m],
         nextNumber'[m] = nextNumber[m],
         pc[m] \in {"isReady", "fire"} =>
           \A i \in 1 .. Len(Inputs(m)) :
             Len(queue[<<m, i>>]) <= Len(queue'[<<m, i>>])
  PROVE  Stocked(m)'
<1>1. at[m] \in Nat /\ Len(Inputs(m)) \in Nat
  BY NodeFacts DEF Types
<1>2. ASSUME pc[m] = "isReady", NEW i \in 1 .. at[m]
      PROVE  Ready(<<m, i>>)'
  <2>1. i \in 1 .. Len(Inputs(m)) /\ Ready(<<m, i>>)
    BY <1>1, <1>2 DEF Stocked
  <2> QED BY <1>2, <2>1, ReadyKept
<1>3. ASSUME pc[m] = "fire", NEW i \in 1 .. Len(Inputs(m))
      PROVE  Uses(m, i, at[m] + 1) <= Len(queue'[<<m, i>>])
  <2>1. /\ Uses(m, i, at[m] + 1) <= Len(queue[<<m, i>>])
        /\ at[m] <= Len(NodeOf[m].consumes)
    BY <1>3 DEF Stocked
  <2>2. Uses(m, i, at[m] + 1) \in Nat
    BY <1>1, <2>1, UsesAreMany
  <2> QED BY <1>3, <2>1, <2>2, ReadyKept
<1>4. MayGenerate(m) => MayGenerate(m)'
  BY DEF MayGenerate
<1> QED BY <1>2, <1>3, <1>4 DEF Stocked

LEMMA RunStocked ==
  ASSUME Types, Types', NEW n \in Nodes, Stocked(n), Run(n)
  PROVE  Stocked(n)'
<1> USE DEF ownerVars, fireVars, historyVars
<1>0. /\ at[n] \in Nat /\ pc \in [Nodes -> {"none", "isReady", "drain", "fire",
                                   "flush", "publish", "call", "ended"}]
      /\ at \in [Nodes -> Nat] /\ operands \in [Nodes -> Seq(RealMessage)]
      /\ Len(Inputs(n)) \in Nat /\ Len(NodeOf[n].consumes) \in Nat
  BY NodeFacts DEF Types
<1>1. CASE InputReady(n)
  <2>1. /\ pc[n] = "isReady" /\ at[n] < Len(Inputs(n))
        /\ Ready(<<n, at[n] + 1>>)
        /\ at'[n] = at[n] + 1
        /\ UNCHANGED <<pc, queue, operands>>
    BY <1>0, <1>1 DEF InputReady
  <2>2. \A i \in 1 .. at'[n] : i \in 1 .. at[n] \/ i = at[n] + 1
    BY <1>0, <2>1
  <2>3. \A i \in 1 .. at'[n] : Ready(<<n, i>>)
    BY <2>1, <2>2 DEF Stocked
  <2>4. \A i \in 1 .. at'[n] : Ready(<<n, i>>)'
    BY <2>1, <2>3 DEF Ready
  <2> QED BY <1>0, <2>1, <2>4 DEF Stocked
<1>2. CASE InputNotReady(n) \/ EmptyFire(n) \/ Return(n)
  <2>1. /\ pc'[n] \in {"isReady", "drain", "ended"} /\ at'[n] = 0
        /\ pc'[n] = "drain" => NodeOf[n].drains
        /\ pc[n] # "fire" /\ UNCHANGED operands
    BY <1>0, <1>2 DEF InputNotReady, EmptyFire, Return, Goto, NextRun
  <2> QED BY <1>0, <2>1 DEF Stocked
<1>3. CASE AllReady(n)
  <2>1. /\ pc[n] = "isReady" /\ at[n] = Len(Inputs(n)) /\ MayGenerate(n)
        /\ at'[n] = 0 /\ UNCHANGED <<queue, operands, nextNumber>>
        /\ pc'[n] = IF NodeOf[n].drains THEN "drain" ELSE "fire"
    BY <1>0, <1>3 DEF AllReady, Goto
  <2>2. operands[n] = <<>>
    BY <2>1 DEF Stocked
  <2>3. \A i \in 1 .. Len(Inputs(n)) : Uses(n, i, 1) <= Len(queue[<<n, i>>])
    <3> SUFFICES ASSUME NEW i \in 1 .. Len(Inputs(n))
                 PROVE  Uses(n, i, 1) <= Len(queue[<<n, i>>])
      OBVIOUS
    <3>1. Ready(<<n, i>>)
      BY <2>1 DEF Stocked
    <3> QED BY <3>1, ReadyMeansUses
  <2>4. MayGenerate(n)'
    BY <2>1 DEF MayGenerate
  <2>5. CASE NodeOf[n].drains
    BY <2>1, <2>2, <2>5 DEF Stocked
  <2>6. CASE ~NodeOf[n].drains
    <3>1. pc'[n] = "fire" /\ at'[n] + 1 = 1
      BY <2>1, <2>6
    <3>2. \A i \in 1 .. Len(Inputs(n)) :
            Uses(n, i, at'[n] + 1) <= Len(queue'[<<n, i>>])
      BY <2>1, <2>3, <3>1
    <3>3. at'[n] <= Len(NodeOf[n].consumes) /\ Len(operands'[n]) = at'[n]
      BY <1>0, <2>1, <2>2
    <3> QED BY <2>4, <3>1, <3>2, <3>3 DEF Stocked
  <2> QED BY <2>5, <2>6
<1>4. CASE Drain(n)
  <2>1. /\ pc[n] = "drain" /\ at[n] = 0 /\ operands[n] = <<>>
        /\ NodeOf[n].drains
        /\ UNCHANGED <<queue, at, operands, nextNumber>>
        /\ pc'[n] = IF Ready(<<n, 1>>) THEN "fire" ELSE NextRun(n)
    BY <1>0, <1>4 DEF Drain, Goto, Stocked
  <2>2. Len(Inputs(n)) = 1
    BY <2>1, NodeFacts
  <2>3. CASE Ready(<<n, 1>>)
    <3>1. \A i \in 1 .. Len(Inputs(n)) : Uses(n, i, 1) <= Len(queue[<<n, i>>])
      BY <2>2, <2>3, ReadyMeansUses
    <3>2. MayGenerate(n)'
      BY <2>2 DEF MayGenerate
    <3>3. pc'[n] = "fire" /\ at'[n] + 1 = 1
      BY <2>1, <2>3
    <3>4. \A i \in 1 .. Len(Inputs(n)) :
            Uses(n, i, at'[n] + 1) <= Len(queue'[<<n, i>>])
      BY <2>1, <3>1, <3>3
    <3>5. at'[n] <= Len(NodeOf[n].consumes) /\ Len(operands'[n]) = at'[n]
      BY <1>0, <2>1
    <3> QED BY <3>2, <3>3, <3>4, <3>5 DEF Stocked
  <2>4. CASE ~Ready(<<n, 1>>)
    <3>1. pc'[n] \in {"isReady", "ended"}
      BY <2>1, <2>4 DEF NextRun
    <3> QED BY <1>0, <2>1, <3>1 DEF Stocked
  <2> QED BY <2>3, <2>4
<1>5. CASE Consume(n)
  <2> DEFINE j == NodeOf[n].consumes[at[n] + 1]
             p == <<n, j>>
  <2>1. /\ at[n] < Len(NodeOf[n].consumes) /\ j \in 1 .. Len(Inputs(n))
        /\ p \in Ports /\ Len(queue[p]) > 0
        /\ operands' = [operands EXCEPT ![n] = Append(@, Pop(queue[p]).message)]
        /\ queue' = [queue EXCEPT ![p] = Pop(@).rest]
        /\ at' = [at EXCEPT ![n] = @ + 1]
        /\ UNCHANGED <<pc, nextNumber>>
    BY <1>5, ConsumeFinds
  <2>2. pc[n] = "fire" /\ pc'[n] = "fire" /\ at'[n] = at[n] + 1
    BY <1>0, <1>5, <2>1 DEF Consume
  <2>3. queue[p] \in Seq(RealMessage) /\ operands[n] \in Seq(RealMessage)
    BY <2>1 DEF Types
  <2>4. /\ Len(queue'[p]) = Len(queue[p]) - 1 /\ Len(queue[p]) \in Nat
        /\ Len(operands'[n]) = Len(operands[n]) + 1
    <3> HIDE DEF p
    <3>1. /\ Pop(queue[p]).message \in RealMessage
          /\ Len(Pop(queue[p]).rest) = Len(queue[p]) - 1
      BY <2>1, <2>3, Popped
    <3>2. Len(Append(operands[n], Pop(queue[p]).message)) = Len(operands[n]) + 1
      BY <2>3, <3>1, Appended
    <3> QED BY <1>0, <2>1, <2>3, <3>1, <3>2 DEF Types
  <2>5. ASSUME NEW i \in 1 .. Len(Inputs(n))
        PROVE  Uses(n, i, at'[n] + 1) <= Len(queue'[<<n, i>>])
    <3>1. at[n] + 1 \in 1 .. Len(NodeOf[n].consumes)
      BY <1>0, <2>1
    <3>2. /\ Uses(n, i, at[n] + 1) \in Nat /\ Uses(n, i, at'[n] + 1) \in Nat
          /\ Uses(n, i, at[n] + 1) =
               Uses(n, i, at'[n] + 1) + (IF j = i THEN 1 ELSE 0)
      <4>1. at'[n] + 1 = (at[n] + 1) + 1
        BY <2>2
      <4> QED BY <3>1, <4>1, UsesOfConsume
    <3>3. Uses(n, i, at[n] + 1) <= Len(queue[<<n, i>>])
      BY <2>2 DEF Stocked
    <3>4. CASE i = j
      BY <2>4, <3>2, <3>3, <3>4
    <3>5. CASE i # j
      <4>1. <<n, i>> \in Ports /\ <<n, i>> # p
        BY <3>5, NodeFacts
      <4>2. queue'[<<n, i>>] = queue[<<n, i>>] /\ Len(queue[<<n, i>>]) \in Nat
        <5> HIDE DEF p
        <5> QED BY <2>1, <4>1 DEF Types
      <4> QED BY <3>2, <3>3, <3>5, <4>2
    <3> QED BY <3>4, <3>5
  <2>6. MayGenerate(n)'
    BY <2>1, <2>2 DEF Stocked, MayGenerate
  <2>7. at'[n] <= Len(NodeOf[n].consumes) /\ Len(operands'[n]) = at'[n]
    BY <1>0, <2>1, <2>2, <2>4 DEF Stocked
  <2> HIDE DEF p, j
  <2> QED BY <2>2, <2>5, <2>6, <2>7 DEF Stocked
<1>6. CASE Make(n) \/ Flush(n) \/ Publish(n)
  <2>1. /\ pc'[n] \in {"flush", "publish", "call"}
        /\ operands'[n] = <<>> \/ (pc[n] # "fire" /\ operands'[n] = operands[n])
    BY <1>0, <1>6 DEF Make, Flush, Publish, Goto
  <2> QED BY <2>1 DEF Stocked
<1>7. ASSUME NEW p \in Ports, OnInputReceived(n, p) PROVE Stocked(n)'
  BY <1>7 DEF OnInputReceived, Stocked
<1>8. CASE FireDestroyed(n)
  BY <1>8 DEF FireDestroyed, Stocked, MayGenerate, Ready
<1> QED BY <1>1, <1>2, <1>3, <1>4, <1>5, <1>6, <1>7, <1>8 DEF Run

LEMMA StockedStep ==
  ASSUME Types, Types', ThreadsOfBuilt,
         \A n \in Nodes : Publishing(n) /\ Stocked(n), [Next]_vars
  PROVE  \A m \in Nodes : Stocked(m)'
<1> USE DEF ownerVars, fireVars, historyVars
<1> SUFFICES ASSUME NEW m \in Nodes PROVE Stocked(m)'
  OBVIOUS
<1>0. \A i \in 1 .. Len(Inputs(m)) :
        /\ <<m, i>> \in Ports /\ Len(queue[<<m, i>>]) \in Nat
        /\ Len(queue[<<m, i>>]) <= Len(queue[<<m, i>>])
  BY NodeFacts DEF Types
<1>1. CASE InitializeInput \/ EndProgram \/ DestroyProcess \/ NodeDestroyed
           \/ (\E p \in Ports : Unsubscribe(p)) \/ UNCHANGED vars
  <2>1. UNCHANGED <<pc, at, operands, nextNumber, queue>>
    BY <1>1
    DEF InitializeInput, EndProgram, DestroyProcess, NodeDestroyed,
        Unsubscribe, vars
  <2> QED BY <1>0, <2>1, StockedKept
<1>2. ASSUME NEW p \in Ports, DestroyQueue(p) PROVE Stocked(m)'
  <2>1. /\ UNCHANGED <<pc, at, operands, nextNumber>>
        /\ pc[p[1]] = "ended" /\ queue' = [queue EXCEPT ![p] = <<>>]
    BY <1>2 DEF DestroyQueue, Joined
  <2>2. ASSUME pc[m] \in {"isReady", "fire"}, NEW i \in 1 .. Len(Inputs(m))
        PROVE  queue'[<<m, i>>] = queue[<<m, i>>]
    <3>1. <<m, i>> # p
      BY <2>1, <2>2
    <3> QED BY <1>0, <2>1, <3>1 DEF Types
  <2>3. pc[m] \in {"isReady", "fire"} =>
          \A i \in 1 .. Len(Inputs(m)) :
            Len(queue[<<m, i>>]) <= Len(queue'[<<m, i>>])
    BY <1>0, <2>2
  <2> QED BY <2>1, <2>3, StockedKept
<1>3. CASE StartRunThread
  <2> DEFINE n == program[built + 1]
  <2>1. /\ n \in Nodes /\ pc[n] = "none" /\ pc' = [pc EXCEPT ![n] = "isReady"]
        /\ UNCHANGED <<at, operands, nextNumber, queue>>
    BY <1>3, ProgramFacts DEF StartRunThread, ThreadsOfBuilt, Types
  <2> HIDE DEF n
  <2>2. CASE m = n
    <3>1. pc'[m] = "isReady" /\ at'[m] = 0 /\ operands'[m] = <<>>
      BY <2>1, <2>2 DEF Stocked, Types
    <3>2. Len(Inputs(m)) \in Nat
      BY NodeFacts
    <3> QED BY <3>1, <3>2 DEF Stocked
  <2>3. CASE m # n
    <3>1. pc'[m] = pc[m]
      BY <2>1, <2>3 DEF Types
    <3> QED BY <1>0, <2>1, <3>1, StockedKept
  <2> QED BY <2>2, <2>3
<1>4. CASE RequestStop
  <2>1. /\ pc'[m] = pc[m] \/ (pc[m] = "isReady" /\ pc'[m] = "ended")
        /\ UNCHANGED <<at, operands, nextNumber, queue>>
    BY <1>4 DEF RequestStop, Goto, Types
  <2>2. CASE pc'[m] = pc[m]
    BY <1>0, <2>1, <2>2, StockedKept
  <2>3. CASE pc[m] = "isReady" /\ pc'[m] = "ended"
    BY <2>1, <2>3 DEF Stocked
  <2> QED BY <2>1, <2>2, <2>3
<1>5. ASSUME NEW n \in Nodes, Run(n), n # m PROVE Stocked(m)'
  BY <1>5, RunLocal, StockedKept
<1>6. CASE Run(m)
  BY <1>6, RunStocked
<1> QED BY <1>1, <1>2, <1>3, <1>4, <1>5, <1>6 DEF Next, Destroy

-----------------------------------------------------------------------------
(* The streams                                                             *)

(* Only one message is on its way to an input.                             *)
LEMMA OneOnItsWay ==
  ASSUME Types, ThreadsOfBuilt, \A n \in Nodes : Publishing(n),
         NEW m \in Nodes, NEW n \in Nodes, NEW p \in toCall[m],
         pc[n] \in {"publish", "call"}, TopicOf(p) = NodeOf[n].output
  PROVE  m = n
<1>1. pc[m] = "call" /\ TopicOf(p) = NodeOf[m].output
  BY DEF Publishing
<1> QED BY <1>1, OnePublisher

LEMMA StreamTypes ==
  ASSUME Types, NEW p \in Ports
  PROVE  /\ joined[p] \in Nat /\ consumed[p] \in Nat /\ Taken(p) \in Nat
         /\ queue[p] \in Seq(RealMessage) /\ Len(queue[p]) \in Nat
         /\ TopicOf(p) \in Topics
         /\ log[TopicOf(p)] \in Seq(RealMessage) /\ Len(log[TopicOf(p)]) \in Nat
BY PortFacts DEF Types, Taken

LEMMA StreamKept ==
  ASSUME NEW p, Stream(p), Pending(p)' <=> Pending(p),
         queue'[p] = queue[p], joined'[p] = joined[p], consumed'[p] = consumed[p],
         log'[TopicOf(p)] = log[TopicOf(p)]
  PROVE  Stream(p)'
BY DEF Stream, Taken

LEMMA OwnerStreams ==
  ASSUME Types, FreshInputs, \A p \in alive : Stream(p),
         \/ InitializeInput \/ StartRunThread \/ EndProgram \/ Destroy
  PROVE  \A p \in alive' : Stream(p)'
<1> USE DEF fireVars, historyVars
<1>1. CASE InitializeInput
  <2>0. PICK q : q = <<program[built + 1], connected + 1>>
    OBVIOUS
  <2>1. /\ ~ending /\ alive' = alive \cup {q}
        /\ joined' = [joined EXCEPT ![q] = Len(log[TopicOf(q)])]
        /\ UNCHANGED <<queue, toCall, log, consumed>>
    BY <1>1, <2>0 DEF InitializeInput
  <2>2. /\ built + 1 \in 1 .. Len(program)
        /\ connected + 1 \in 1 .. Len(Inputs(program[built + 1]))
    BY <1>1, ProgramFacts, NodeFacts DEF InitializeInput, Types
  <2>3. q \in Ports
    BY <2>0, <2>2, ProgramFacts, NodeFacts
  <2>4. Untouched(q)
    <3>1. built + 1 \in built + 1 .. Len(program) /\ connected + 1 > connected
      BY <2>2 DEF Types
    <3> QED BY <2>0, <2>1, <2>2, <3>1 DEF FreshInputs
  <2>5. Stream(q)'
    <3>1. /\ joined'[q] = Len(log[TopicOf(q)]) /\ consumed[q] = 0
          /\ queue[q] = <<>> /\ ~Pending(q)
      BY <2>1, <2>3, <2>4 DEF Untouched, Pending, Types
    <3>2. Len(log[TopicOf(q)]) \in Nat
      BY <2>3, StreamTypes
    <3>3. Taken(q)' = Len(log[TopicOf(q)])
      BY <2>1, <3>1, <3>2 DEF Taken
    <3>4. queue'[q] = <<>> /\ ~Pending(q)' /\ log' = log
      BY <2>1, <3>1 DEF Pending
    <3> QED BY <3>2, <3>3, <3>4 DEF Stream
  <2>6. ASSUME NEW p \in alive, p # q PROVE Stream(p)'
    <3>1. joined'[p] = joined[p]
      BY <2>1, <2>6 DEF Types
    <3> QED BY <2>1, <3>1, StreamKept DEF Pending
  <2> QED BY <2>1, <2>5, <2>6
<1>2. CASE StartRunThread \/ EndProgram \/ RequestStop \/ DestroyProcess
           \/ NodeDestroyed
           \/ \E p \in Ports : Unsubscribe(p)
  <2>1. UNCHANGED <<alive, queue, toCall, log, consumed, joined>>
    BY <1>2
       DEF StartRunThread, EndProgram, RequestStop, DestroyProcess,
           NodeDestroyed, Unsubscribe
  <2> QED BY <2>1, StreamKept DEF Pending
<1>3. ASSUME NEW q \in Ports, DestroyQueue(q)
      PROVE  \A p \in alive' : Stream(p)'
  <2>1. /\ alive' = alive \ {q} /\ queue' = [queue EXCEPT ![q] = <<>>]
        /\ UNCHANGED <<toCall, log, consumed, joined>>
    BY <1>3 DEF DestroyQueue
  <2> SUFFICES ASSUME NEW p \in alive, p # q PROVE Stream(p)'
    BY <2>1
  <2>2. queue'[p] = queue[p]
    BY <2>1 DEF Types
  <2> QED BY <2>1, <2>2, StreamKept DEF Pending
<1> QED BY <1>1, <1>2, <1>3 DEF Destroy

LEMMA RunStreams ==
  ASSUME Types, ThreadsOfBuilt, \A n \in Nodes : Publishing(n) /\ Stocked(n),
         NEW n \in Nodes, Run(n), NEW p \in alive, p \in subscribed, p \in Ports,
         Stream(p)
  PROVE  Stream(p)'
<1> USE DEF ownerVars, fireVars, historyVars
<1> DEFINE t == TopicOf(p)
<1>0. /\ Taken(p) \in Nat
      /\ queue[p] \in Seq(RealMessage) /\ Len(queue[p]) \in Nat
      /\ t \in Topics /\ log[t] \in Seq(RealMessage) /\ Len(log[t]) \in Nat
      /\ joined[p] \in Nat /\ consumed[p] \in Nat
  BY StreamTypes
<1>1. CASE InputReady(n) \/ InputNotReady(n) \/ AllReady(n)
           \/ FireDestroyed(n) \/ EmptyFire(n)
           \/ Drain(n) \/ Make(n) \/ Flush(n) \/ Return(n)
  <2>1. UNCHANGED <<queue, toCall, log, consumed, joined>>
    BY <1>1
    DEF InputReady, InputNotReady, AllReady, FireDestroyed, EmptyFire, Drain,
        Make, Flush,
                Return
  <2> QED BY <2>1, StreamKept DEF Pending
<1>2. CASE Consume(n)
  <2> DEFINE q == <<n, NodeOf[n].consumes[at[n] + 1]>>
  <2>1. /\ q \in Ports /\ Len(queue[q]) > 0
        /\ queue' = [queue EXCEPT ![q] = Pop(@).rest]
        /\ consumed' = [consumed EXCEPT ![q] = @ + 1]
        /\ UNCHANGED <<ownerVars, toCall, log>>
    BY <1>2, ConsumeFinds
  <2> HIDE DEF q
  <2>2. CASE p # q
    <3>1. queue'[p] = queue[p] /\ consumed'[p] = consumed[p]
      BY <2>1, <2>2 DEF Types
    <3> QED BY <2>1, <3>1, StreamKept DEF Pending
  <2>3. CASE p = q
    <3> DEFINE rest == Pop(queue[p]).rest
    <3>1. /\ Len(rest) = Len(queue[p]) - 1
          /\ \A k \in 1 .. Len(queue[p]) - 1 : rest[k] = queue[p][k + 1]
      BY <1>0, <2>1, <2>3, Popped
    <3>2. queue'[p] = rest /\ consumed'[p] = consumed[p] + 1
      BY <2>1, <2>3 DEF Types
    <3> HIDE DEF rest, t
    <3>3. Taken(p)' = Taken(p) + 1
      <4>1. Taken(p)' = joined[p] + (consumed[p] + 1)
        BY <2>1, <3>2 DEF Taken
      <4> QED BY <1>0, <4>1 DEF Taken
    <3>4. \A k \in 1 .. Len(rest) : rest[k] = log[t][Taken(p) + 1 + k]
      <4> SUFFICES ASSUME NEW k \in 1 .. Len(rest)
                   PROVE  rest[k] = log[t][Taken(p) + 1 + k]
        OBVIOUS
      <4>1. k + 1 \in 1 .. Len(queue[p]) /\ rest[k] = queue[p][k + 1]
        BY <1>0, <3>1
      <4>2. queue[p][k + 1] = log[t][Taken(p) + (k + 1)]
        BY <4>1 DEF Stream, t
      <4>3. Taken(p) + (k + 1) = Taken(p) + 1 + k
        BY <1>0, <4>1
      <4> QED BY <4>1, <4>2, <4>3
    <3>5. Taken(p) + 1 + Len(rest) = Taken(p) + Len(queue[p])
      BY <1>0, <3>1
    <3>6. Pending(p)' <=> Pending(p)
      BY <2>1 DEF Pending
    <3> QED BY <2>1, <3>2, <3>3, <3>4, <3>5, <3>6 DEF Stream, t
  <2> QED BY <2>2, <2>3
<1>3. CASE Publish(n)
  <2>1. /\ pc[n] = "publish" /\ toCall[n] = {}
        /\ out[n].topic = NodeOf[n].output
        /\ toCall' = [toCall EXCEPT ![n] =
                        {q \in subscribed : TopicOf(q) = NodeOf[n].output}]
        /\ log' = [log EXCEPT ![NodeOf[n].output] = Append(@, out[n])]
        /\ UNCHANGED <<queue, consumed, joined>>
    BY <1>3 DEF Publish, Goto, Publishing
  <2>2. CASE t # NodeOf[n].output
    <3>1. log'[t] = log[t]
      BY <1>0, <2>1, <2>2 DEF Types
    <3>2. Pending(p)' <=> Pending(p)
      BY <2>1, <2>2 DEF Pending, Types
    <3> QED BY <2>1, <3>1, <3>2, StreamKept
  <2>3. CASE t = NodeOf[n].output
    <3>1. Pending(p)'
      BY <2>1, <2>3 DEF Pending, Types
    <3>2. ~Pending(p)
      <4> SUFFICES ASSUME NEW m \in Nodes, p \in toCall[m] PROVE FALSE
        BY DEF Pending
      <4>1. m = n
        BY <2>1, <2>3, OneOnItsWay
      <4> QED BY <2>1, <4>1
    <3>3. log'[t] = Append(log[t], out[n])
      BY <1>0, <2>1, <2>3 DEF Types
    <3>4. out[n] \in RealMessage
      BY <1>0, <2>1, <2>3 DEF Types, Message, RealMessage
    <3> HIDE DEF t
    <3>5. /\ Len(log'[t]) = Len(log[t]) + 1
          /\ \A k \in 1 .. Len(log[t]) : log'[t][k] = log[t][k]
      BY <1>0, <3>3, <3>4, Appended
    <3>6. Taken(p) + Len(queue[p]) = Len(log[t])
      BY <1>0, <3>2 DEF Stream, t
    <3>7. \A k \in 1 .. Len(queue[p]) : queue[p][k] = log'[t][Taken(p) + k]
      <4> SUFFICES ASSUME NEW k \in 1 .. Len(queue[p])
                   PROVE  queue[p][k] = log'[t][Taken(p) + k]
        OBVIOUS
      <4>1. Taken(p) + k \in 1 .. Len(log[t])
        BY <1>0, <3>6
      <4>2. queue[p][k] = log[t][Taken(p) + k]
        BY DEF Stream, t
      <4> QED BY <3>5, <4>1, <4>2
    <3>8. Taken(p)' = Taken(p)
      BY <2>1 DEF Taken
    <3> QED BY <1>0, <2>1, <3>1, <3>5, <3>6, <3>7, <3>8 DEF Stream, t
  <2> QED BY <2>2, <2>3
<1>4. ASSUME NEW q \in Ports, OnInputReceived(n, q) PROVE Stream(p)'
  <2>1. /\ pc[n] = "call" /\ q \in toCall[n]
        /\ TopicOf(q) = NodeOf[n].output
        /\ UNCHANGED <<log, consumed, joined>>
    BY <1>4 DEF OnInputReceived, Publishing
  <2>2. CASE q \notin alive
    BY <1>4, <2>1, <2>2, StreamKept DEF OnInputReceived, Pending
  <2>3. CASE q \in alive
    <3>1. /\ queue' = [queue EXCEPT ![q] = Append(@, out[n])]
          /\ toCall' = [toCall EXCEPT ![n] = @ \ {q}]
      BY <1>4, <2>3 DEF OnInputReceived
    <3>2. CASE p # q
      <4>1. queue'[p] = queue[p] /\ (Pending(p)' <=> Pending(p))
        BY <3>1, <3>2 DEF Pending, Types
      <4> QED BY <2>1, <4>1, StreamKept
    <3>3. CASE p = q
      <4>1. Pending(p)
        BY <2>1, <3>3 DEF Pending
      <4>2. ~Pending(p)'
        <5> SUFFICES ASSUME NEW m \in Nodes, p \in toCall'[m] PROVE FALSE
          BY DEF Pending
        <5>1. p \in toCall[m] /\ m # n
          BY <3>1, <3>3 DEF Types
        <5> QED BY <2>1, <3>3, <5>1, OneOnItsWay
      <4>3. log[t][Len(log[t])] = out[n] /\ Len(log[t]) > 0
        BY <2>1, <3>3 DEF Publishing
      <4>4. out[n] \in RealMessage
        BY <1>0, <4>3, ElementsOf
      <4>5. queue'[p] = Append(queue[p], out[n])
        BY <3>1, <3>3 DEF Types
      <4> HIDE DEF t
      <4>6. /\ Len(queue'[p]) = Len(queue[p]) + 1
            /\ queue'[p][Len(queue[p]) + 1] = out[n]
            /\ \A k \in 1 .. Len(queue[p]) : queue'[p][k] = queue[p][k]
        BY <1>0, <4>4, <4>5, Appended
      <4>7. Taken(p) + Len(queue[p]) + 1 = Len(log[t])
        BY <1>0, <4>1 DEF Stream, t
      <4>8. \A k \in 1 .. Len(queue[p]) + 1 :
              queue'[p][k] = log[t][Taken(p) + k]
        <5> SUFFICES ASSUME NEW k \in 1 .. Len(queue[p]) + 1
                     PROVE  queue'[p][k] = log[t][Taken(p) + k]
          OBVIOUS
        <5>1. CASE k = Len(queue[p]) + 1
          <6>1. Taken(p) + k = Len(log[t])
            BY <1>0, <4>7, <5>1
          <6> QED BY <4>3, <4>6, <5>1, <6>1
        <5>2. CASE k \in 1 .. Len(queue[p])
          BY <4>6, <5>2 DEF Stream, t
        <5> QED BY <1>0, <5>1, <5>2
      <4>9. Taken(p)' = Taken(p)
        BY <2>1 DEF Taken
      <4>10. Taken(p) + (Len(queue[p]) + 1) + 0 = Len(log[t])
        BY <1>0, <4>7
      <4> QED BY <2>1, <4>2, <4>6, <4>8, <4>9, <4>10 DEF Stream, t
    <3> QED BY <3>2, <3>3
  <2> QED BY <2>2, <2>3
<1> QED BY <1>1, <1>2, <1>3, <1>4 DEF Run

-----------------------------------------------------------------------------
(* The invariant                                                           *)

LEMMA IInvInit ==
  ASSUME Init
  PROVE  IInv
<1>1. DefaultMessage \in Message
  BY DEF DefaultMessage, Message
<1>2. program \in Seq(Nodes) /\ Len(program) \in Nat
  BY GraphAssumption DEF Init
<1>3. Types
  <2>1. /\ program \in Programs /\ ending \in BOOLEAN /\ fault \in {"none", "input", "process"}
        /\ built \in 0 .. Len(program) /\ connected \in Nat
        /\ subscribed \subseteq Ports /\ alive \subseteq subscribed
        /\ stopping \subseteq Nodes /\ processGone \subseteq stopping
    <3>1. /\ program \in Programs /\ ending = FALSE /\ fault = "none"
          /\ built = 0 /\ connected = 0
          /\ subscribed = {} /\ alive = {} /\ stopping = {}
          /\ processGone = {}
      BY DEF Init
    <3>2. ending \in BOOLEAN /\ fault \in {"none", "input", "process"}
      BY <3>1
    <3>3. built \in 0 .. Len(program) /\ connected \in Nat
      BY <1>2, <3>1
    <3>4. /\ subscribed \subseteq Ports /\ alive \subseteq subscribed
          /\ stopping \subseteq Nodes /\ processGone \subseteq stopping
      BY <3>1
    <3> QED BY <3>1, <3>2, <3>3, <3>4
  <2>2. /\ queue \in [Ports -> Seq(RealMessage)]
        /\ operands \in [Nodes -> Seq(RealMessage)]
        /\ log \in [Topics -> Seq(RealMessage)]
    BY DEF Init
  <2>3. /\ staged \in [Nodes -> Message] /\ out \in [Nodes -> Message]
        /\ \A n \in Nodes : staged[n] = DefaultMessage
    BY <1>1 DEF Init
  <2>4. /\ pc \in [Nodes -> {"none", "isReady", "drain", "fire", "flush",
                             "publish", "call", "ended"}]
        /\ at \in [Nodes -> Nat] /\ toCall \in [Nodes -> SUBSET Ports]
        /\ joined \in [Ports -> Nat] /\ consumed \in [Ports -> Nat]
    BY DEF Init
  <2>5. nextNumber \in [Nodes -> 0 .. MaxNumbers]
    BY GraphAssumption DEF Init
  <2> QED BY <2>1, <2>2, <2>3, <2>4, <2>5 DEF Types
<1>4. ThreadsOfBuilt
  BY <1>3, ProgramFacts DEF Init, ThreadsOfBuilt
<1>5. InputsOfBuilt
  BY <1>3, NodeFacts, ProgramFacts DEF Init, InputsOfBuilt
<1>6. FreshInputs
  <2> SUFFICES ASSUME NEW k \in 1 .. Len(program),
                      NEW i \in 1 .. Len(Inputs(program[k]))
               PROVE  Untouched(<<program[k], i>>)
    BY DEF FreshInputs, Init
  <2>1. <<program[k], i>> \in Ports
    BY <1>3, ProgramFacts, NodeFacts
  <2> QED BY <2>1 DEF Init, Untouched
<1>7. \A n \in Nodes : Publishing(n) /\ Stocked(n)
  BY DEF Init, Publishing, Stocked
<1>8. StoppedLast /\ FaultExplained
  BY DEF Init, StoppedLast, FaultExplained
<1>9. \A p \in alive : Stream(p)
  BY DEF Init
<1> QED BY <1>3, <1>4, <1>5, <1>6, <1>7, <1>8, <1>9 DEF IInv

LEMMA IInvStep ==
  ASSUME ComputesNumbers, IInv, [Next]_vars
  PROVE  IInv'
<1> USE DEF IInv
<1>1. Types'
  <2>1. CASE InitializeInput \/ StartRunThread \/ EndProgram \/ Destroy
    BY <2>1, OwnerTypes
  <2>2. ASSUME NEW n \in Nodes, Run(n) PROVE Types'
    BY <2>2, RunTypes
  <2>3. CASE UNCHANGED vars
    BY <2>3 DEF vars, ownerVars, fireVars, historyVars, Types
  <2> QED BY <2>1, <2>2, <2>3 DEF Next
<1>2. ThreadsOfBuilt' /\ InputsOfBuilt' /\ StoppedLast'
  BY ThreadsStep, InputsStep, StoppedStep
<1>3. FreshInputs'
  BY <1>1, FreshStep
<1>4. \A n \in Nodes : Publishing(n)' /\ Stocked(n)'
  BY <1>1, PublishingStep, StockedStep
<1>5. \A p \in alive' : Stream(p)'
  <2>1. CASE InitializeInput \/ StartRunThread \/ EndProgram \/ Destroy
    BY <2>1, OwnerStreams
  <2>2. ASSUME NEW n \in Nodes, Run(n) PROVE \A p \in alive' : Stream(p)'
    <3>1. alive' = alive
      BY <2>2, RunFrame DEF ownerVars
    <3>2. ASSUME NEW p \in alive PROVE Stream(p)'
      <4>1. p \in subscribed /\ p \in Ports
        BY <3>2 DEF Types
      <4> QED BY <2>2, <3>2, <4>1, RunStreams
    <3> QED BY <3>1, <3>2
  <2>3. CASE UNCHANGED vars
    BY <2>3, StreamKept DEF vars, ownerVars, historyVars, Pending
  <2> QED BY <2>1, <2>2, <2>3 DEF Next
<1>6. FaultExplained'
  BY FaultStep
<1> QED BY <1>1, <1>2, <1>3, <1>4, <1>5, <1>6

-----------------------------------------------------------------------------
(* What follows from it.                                                   *)

LEMMA WiderMessages == Seq(RealMessage) \subseteq Seq(Message)
<1> SUFFICES ASSUME NEW s \in Seq(RealMessage) PROVE s \in Seq(Message)
  OBVIOUS
<1>1. s \in [1 .. Len(s) -> RealMessage] /\ Len(s) \in Nat
  BY ElementsOf
<1>2. RealMessage \subseteq Message
  BY DEF RealMessage, Message
<1>3. s \in [1 .. Len(s) -> Message]
  BY <1>1, <1>2
<1> QED BY <1>1, <1>3

(* A piece of a sequence up to its end, and one that lacks the last.       *)
LEMMA EndOf ==
  ASSUME NEW S, NEW s \in Seq(S), NEW q \in Seq(S), NEW c \in Nat,
         c + Len(q) = Len(s), \A k \in 1 .. Len(q) : q[k] = s[c + k]
  PROVE  q = SubSeq(s, c + 1, Len(s))
<1> DEFINE e == SubSeq(s, c + 1, Len(s))
<1>1. e \in Seq(S) /\ Len(e) = Len(q)
  OBVIOUS
<1>2. \A k \in 1 .. Len(q) : e[k] = s[c + k]
  OBVIOUS
<1> HIDE DEF e
<1>3. \A k \in 1 .. Len(q) : e[k] = q[k]
  BY <1>2
<1> QED BY <1>1, <1>3

LEMMA Extended ==
  ASSUME NEW S, NEW q \in Seq(S), NEW e \in S
  PROVE  /\ q \o <<e>> \in Seq(S)
         /\ Len(q \o <<e>>) = Len(q) + 1 /\ Len(q) \in Nat
         /\ (q \o <<e>>)[Len(q) + 1] = e
         /\ \A k \in 1 .. Len(q) : (q \o <<e>>)[k] = q[k]
OBVIOUS

LEMMA IInvImplies ==
  ASSUME IInv
  PROVE  InputsInOrder /\ DestroyedInOrder
<1> USE DEF IInv
<1>1. TypeOK
  BY WiderMessages DEF Types, TypeOK
<1>2. NoDefaultConsumed
  <2> SUFFICES ASSUME NEW n \in Nodes, NEW k \in 1 .. Len(operands[n])
               PROVE  operands[n][k] # DefaultMessage
    BY DEF NoDefaultConsumed
  <2>1. operands[n] \in Seq(RealMessage)
    BY DEF Types
  <2>2. operands[n][k] \in RealMessage
    BY <2>1, ElementsOf
  <2>3. operands[n][k].topic \in Topics
    BY <2>2 DEF RealMessage
  <2> QED BY <2>3, GraphAssumption
<1>3. ASSUME NEW p \in alive
      PROVE  LET t == TopicOf(p)
                 pending == {n \in Nodes : p \in toCall[n]}
                 last == IF pending = {} THEN <<>>
                         ELSE <<out[CHOOSE n \in pending : TRUE]>>
             IN  queue[p] \o last =
                   SubSeq(log[t], joined[p] + consumed[p] + 1, Len(log[t]))
  <2> DEFINE t == TopicOf(p)
             pending == {n \in Nodes : p \in toCall[n]}
             last == IF pending = {} THEN <<>>
                     ELSE <<out[CHOOSE n \in pending : TRUE]>>
             c == joined[p] + consumed[p]
  <2>1. p \in Ports /\ Stream(p)
    BY <1>3 DEF Types
  <2>2. /\ queue[p] \in Seq(RealMessage) /\ Len(queue[p]) \in Nat
        /\ t \in Topics /\ log[t] \in Seq(RealMessage) /\ Len(log[t]) \in Nat
        /\ c \in Nat /\ c = Taken(p)
    BY <2>1, StreamTypes DEF Taken
  <2>3. \A k \in 1 .. Len(queue[p]) : queue[p][k] = log[t][c + k]
    BY <2>1, <2>2 DEF Stream
  <2>4. CASE pending = {}
    <3>1. c + Len(queue[p]) = Len(log[t])
      <4>1. ~Pending(p)
        BY <2>4 DEF Pending
      <4> QED BY <2>1, <2>2, <4>1 DEF Stream
    <3>2. last = <<>>
      BY <2>4
    <3> HIDE DEF t, c, last
    <3>3. queue[p] \o last = queue[p]
      BY <2>2, <3>2
    <3>4. queue[p] = SubSeq(log[t], c + 1, Len(log[t]))
      <4>1. /\ queue[p] \in Seq(RealMessage) /\ log[t] \in Seq(RealMessage)
            /\ c \in Nat
        BY <2>2
      <4> QED BY <2>3, <3>1, <4>1, EndOf
    <3>5. queue[p] \o last = SubSeq(log[t], c + 1, Len(log[t]))
      BY <3>3, <3>4
    <3> QED BY <3>5 DEF t, c, last
  <2>5. CASE pending # {}
    <3>1. PICK n \in pending : n = CHOOSE m \in pending : TRUE
      BY <2>5
    <3>2. last = <<out[n]>>
      BY <2>5, <3>1
    <3>3. c + Len(queue[p]) + 1 = Len(log[t])
      <4>1. Pending(p)
        BY <3>1 DEF Pending
      <4> QED BY <2>1, <2>2, <4>1 DEF Stream
    <3>4. log[t][Len(log[t])] = out[n]
      <4>1. n \in Nodes /\ p \in toCall[n] /\ Publishing(n)
        BY <3>1
      <4> QED BY <4>1 DEF Publishing
    <3> DEFINE q == queue[p] \o <<out[n]>>
    <3> HIDE DEF t, c, last
    <3>5. out[n] \in RealMessage
      BY <2>2, <3>3, <3>4, ElementsOf
    <3>6. /\ q \in Seq(RealMessage) /\ Len(q) = Len(queue[p]) + 1
          /\ q[Len(queue[p]) + 1] = out[n]
          /\ \A k \in 1 .. Len(queue[p]) : q[k] = queue[p][k]
      BY <2>2, <3>5, Extended
    <3> HIDE DEF q
    <3>7. c + Len(q) = Len(log[t])
      BY <2>2, <3>3, <3>6
    <3>8. \A k \in 1 .. Len(q) : q[k] = log[t][c + k]
      <4> SUFFICES ASSUME NEW k \in 1 .. Len(q) PROVE q[k] = log[t][c + k]
        OBVIOUS
      <4>1. CASE k = Len(queue[p]) + 1
        <5>1. c + k = Len(log[t])
          BY <2>2, <3>3, <4>1
        <5> QED BY <3>4, <3>6, <4>1, <5>1
      <4>2. CASE k \in 1 .. Len(queue[p])
        BY <2>3, <3>6, <4>2
      <4> QED BY <2>2, <3>6, <4>1, <4>2
    <3>9. q = SubSeq(log[t], c + 1, Len(log[t]))
      <4>1. q \in Seq(RealMessage) /\ log[t] \in Seq(RealMessage) /\ c \in Nat
        BY <2>2, <3>6
      <4> QED BY <3>7, <3>8, <4>1, EndOf
    <3>10. queue[p] \o last = SubSeq(log[t], c + 1, Len(log[t]))
      BY <3>2, <3>9 DEF q
    <3> QED BY <3>10 DEF t, c, last
  <2> HIDE DEF last, c, t
  <2> QED BY <2>4, <2>5 DEF last, c, t
<1>4. ASSUME NEW n \in Nodes, pc[n] \notin {"none", "ended"},
             NEW i \in 1 .. Len(Inputs(n))
      PROVE  <<n, i>> \in alive
  <2>1. n \in NodesOf(program)
    BY <1>4 DEF ThreadsOfBuilt
  <2>2. PICK k \in 1 .. Len(program) : n = program[k]
    BY <2>1, ProgramFacts
  <2>3. ~(k > built)
    BY <1>4, <2>2 DEF ThreadsOfBuilt
  <2>4. k \in 1 .. built
    BY <2>3, ProgramFacts DEF Types
  <2> QED BY <1>4, <2>2, <2>4 DEF InputsOfBuilt
<1>5. /\ fault = "input" => InputGone
      /\ fault = "process" => ProcessGone
  BY DEF FaultExplained
<1> QED
  BY <1>1, <1>2, <1>3, <1>4, <1>5
     DEF InputsInOrder, DestroyedInOrder, InputGone, ProcessGone

LEMMA Invariance ==
  ASSUME ComputesNumbers
  PROVE  Spec => []IInv
<1>1. Init => IInv
  BY IInvInit
<1>2. IInv /\ [Next]_vars => IInv'
  BY IInvStep
<1> QED BY <1>1, <1>2, PTL DEF Spec

(* The streams are complete and in order, and every operand of a fire is a *)
(* message that was published: whatever the producers and the owner do     *)
(* while a node tests its inputs and takes from them.                      *)
THEOREM StreamsInOrder ==
  ASSUME ComputesNumbers
  PROVE  Spec => []InputsInOrder
<1>1. IInv => InputsInOrder
  BY IInvImplies
<1> QED BY <1>1, Invariance, PTL

(* No running node lacks an input.  An input that is called when it is     *)
(* destroyed belongs to a node that was constructed after its producer and *)
(* has been joined, a process to the node that is being destroyed, in the  *)
(* run its thread began before it was asked to stop: nothing else that is  *)
(* destroyed is ever called.                                               *)
THEOREM DestructionInOrder ==
  ASSUME ComputesNumbers
  PROVE  Spec => []DestroyedInOrder
<1>1. IInv => DestroyedInOrder
  BY IInvImplies
<1> QED BY <1>1, Invariance, PTL

-----------------------------------------------------------------------------
(* What the nodes compute                                                  *)

(* How often node n has fired, the message on its way included.            *)
Fired(n) ==
  Len(log[NodeOf[n].output]) +
  (IF pc[n] \in {"flush", "publish"} THEN 1 ELSE 0)

(* How many of the consumes before the j-th take from input i.             *)
Before(n, i, j) == Uses(n, i, 1) - Uses(n, i, j)

(* Where in the log of its topic the j-th operand of the k-th fire is.     *)
Place(n, j, k) ==
  LET i == NodeOf[n].consumes[j]
  IN  joined[<<n, i>>] + (k - 1) * Uses(n, i, 1) + Before(n, i, j) + 1

Operand(n, j, k) ==
  log[TopicOf(<<n, NodeOf[n].consumes[j]>>)][Place(n, j, k)]

ResultOf(n, k) ==
  IF NodeOf[n].consumes = <<>> THEN k - 1
  ELSE Compute(n, UserData([j \in 1 .. Len(NodeOf[n].consumes) |->
                              Operand(n, j, k)]))

(* No input hands out more than its topic has.                             *)
WithinLogs == \A p \in Ports : Taken(p) <= Len(log[TopicOf(p)])

(* Each fire takes a whole group of each input.                            *)
Counted(n) ==
  \A i \in 1 .. Len(Inputs(n)) :
    consumed[<<n, i>>] =
      Fired(n) * Uses(n, i, 1) +
      (IF pc[n] = "fire" THEN Before(n, i, at[n] + 1) ELSE 0)

(* What a node has published, is about to publish and computes with is     *)
(* what its place in the streams gives.                                    *)
Computed(n) ==
  /\ NodeOf[n].consumes = <<>> => nextNumber[n] = Fired(n)
  /\ pc[n] = "none" => Fired(n) = 0
  /\ pc[n] = "fire" =>
       \A j \in 1 .. at[n] : operands[n][j] = Operand(n, j, Fired(n) + 1)
  /\ pc[n] = "flush" => staged[n].userData = ResultOf(n, Fired(n))
  /\ pc[n] = "publish" => out[n].userData = ResultOf(n, Fired(n))
  /\ \A k \in 1 .. Len(log[NodeOf[n].output]) :
       log[NodeOf[n].output][k].userData = ResultOf(n, k)

Computations ==
  /\ WithinLogs
  /\ \A n \in NodesOf(program) : Counted(n) /\ Computed(n)

(* What is still to be taken only gets less.                               *)
LEMMA UsesFall ==
  ASSUME NEW n \in Nodes, NEW i, NEW a \in Nat, NEW b \in Nat, a <= b
  PROVE  Uses(n, i, b) <= Uses(n, i, a)
<1> DEFINE L == Len(NodeOf[n].consumes)
           From(m) == {k \in m .. L : NodeOf[n].consumes[k] = i}
<1>1. L \in Int /\ a \in Int
  BY NodeFacts
<1>2. IsFiniteSet(From(a))
  <2>1. IsFiniteSet(a .. L)
    <3> HIDE DEF L
    <3> QED BY <1>1, FS_Interval
  <2> QED BY <2>1, FS_Subset
<1>3. From(b) \subseteq From(a)
  BY <1>1
<1>4. Cardinality(From(b)) <= Cardinality(From(a))
  <2> HIDE DEF From
  <2> QED BY <1>2, <1>3, FS_Subset
<1> QED BY <1>4 DEF Uses

LEMMA BeforeFacts ==
  ASSUME NEW n \in Nodes, NEW i \in 1 .. Len(Inputs(n))
  PROVE  /\ Uses(n, i, 1) \in Nat
         /\ Before(n, i, 1) = 0
         /\ Before(n, i, Len(NodeOf[n].consumes) + 1) = Uses(n, i, 1)
         /\ \A j \in 1 .. Len(NodeOf[n].consumes) :
              /\ Before(n, i, j) \in Nat /\ Before(n, i, j + 1) \in Nat
              /\ Before(n, i, j + 1) =
                   Before(n, i, j) + (IF NodeOf[n].consumes[j] = i THEN 1 ELSE 0)
              /\ \A m \in 1 .. Len(NodeOf[n].consumes) + 1 :
                   j < m => Before(n, i, j + 1) <= Before(n, i, m)
<1> DEFINE L == Len(NodeOf[n].consumes)
<1>1. L \in Nat
  BY NodeFacts
<1>2. \A j \in Nat : Uses(n, i, j) \in Nat
  BY UsesAreMany
<1>3. \A j \in Nat : j >= 1 => Uses(n, i, j) <= Uses(n, i, 1)
  BY UsesFall
<1>4. Uses(n, i, L + 1) = 0
  <2>1. {k \in L + 1 .. L : NodeOf[n].consumes[k] = i} = {}
    BY <1>1
  <2> QED BY <2>1, FS_EmptySet DEF Uses
<1>5. ASSUME NEW j \in 1 .. L
      PROVE  /\ Before(n, i, j) \in Nat /\ Before(n, i, j + 1) \in Nat
             /\ Before(n, i, j + 1) =
                  Before(n, i, j) + (IF NodeOf[n].consumes[j] = i THEN 1 ELSE 0)
             /\ \A m \in 1 .. L + 1 :
                  j < m => Before(n, i, j + 1) <= Before(n, i, m)
  <2>1. /\ j \in Nat /\ j + 1 \in Nat /\ j >= 1 /\ j + 1 >= 1
    BY <1>1
  <2>2. /\ Uses(n, i, j) \in Nat /\ Uses(n, i, j + 1) \in Nat
        /\ Uses(n, i, 1) \in Nat
        /\ Uses(n, i, j) <= Uses(n, i, 1) /\ Uses(n, i, j + 1) <= Uses(n, i, 1)
    BY <1>2, <1>3, <2>1
  <2>3. Uses(n, i, j) =
          Uses(n, i, j + 1) + (IF NodeOf[n].consumes[j] = i THEN 1 ELSE 0)
    BY UsesOfConsume
  <2>4. ASSUME NEW m \in 1 .. L + 1, j < m
        PROVE  Before(n, i, j + 1) <= Before(n, i, m)
    <3>1. m \in Nat /\ j + 1 <= m
      BY <1>1, <2>4
    <3>2. Uses(n, i, m) <= Uses(n, i, j + 1) /\ Uses(n, i, m) \in Nat
      BY <1>2, <2>1, <3>1, UsesFall
    <3> QED BY <2>2, <3>2 DEF Before
  <2> QED BY <2>2, <2>3, <2>4 DEF Before
<1>6. Uses(n, i, 1) \in Nat
  BY <1>2
<1> QED BY <1>4, <1>5, <1>6 DEF Before

LEMMA Groups ==
  ASSUME NEW k \in Nat, NEW f \in Nat, NEW g \in Nat
  PROVE  /\ k * g \in Nat
         /\ (k + 1) * g = k * g + g
         /\ k <= f => k * g <= f * g
<1>1. k * g \in Nat
  OBVIOUS
<1>2. (k + 1) * g = k * g + g
  OBVIOUS
<1>3. ASSUME k <= f PROVE k * g <= f * g
  <2>1. PICK d \in Nat : f = k + d
    <3>1. f - k \in Nat /\ f = k + (f - k)
      BY <1>3
    <3> QED BY <3>1
  <2>2. f * g = k * g + d * g /\ d * g \in Nat
    BY <2>1
  <2> QED BY <1>1, <2>2
<1> QED BY <1>1, <1>2, <1>3

LEMMA FiredTypes ==
  ASSUME Types, NEW n \in Nodes
  PROVE  /\ NodeOf[n].output \in Topics
         /\ Len(log[NodeOf[n].output]) \in Nat
         /\ Fired(n) \in Nat /\ Len(log[NodeOf[n].output]) <= Fired(n)
<1>1. NodeOf[n].output \in Topics
  BY NodeFacts
<1>2. Len(log[NodeOf[n].output]) \in Nat
  BY <1>1 DEF Types
<1> DEFINE x == Len(log[NodeOf[n].output])
<1>3. Fired(n) = x + (IF pc[n] \in {"flush", "publish"} THEN 1 ELSE 0)
  BY DEF Fired
<1> HIDE DEF x
<1>4. Fired(n) \in Nat /\ x <= Fired(n)
  <2>1. CASE pc[n] \in {"flush", "publish"}
    BY <1>2, <1>3, <2>1 DEF x
  <2>2. CASE pc[n] \notin {"flush", "publish"}
    BY <1>2, <1>3, <2>2 DEF x
  <2> QED BY <2>1, <2>2
<1> QED BY <1>1, <1>2, <1>4 DEF x

(* The operands of the past fires, and of the one in progress, have been   *)
(* taken.                                                                  *)
LEMMA PlaceTaken ==
  ASSUME Types, NEW n \in Nodes, Counted(n), Stocked(n),
         NEW j \in 1 .. Len(NodeOf[n].consumes), NEW k \in Nat \ {0},
         \/ k <= Fired(n)
         \/ k = Fired(n) + 1 /\ pc[n] = "fire" /\ j <= at[n],
         NEW p, p = <<n, NodeOf[n].consumes[j]>>
  PROVE  p \in Ports /\ Place(n, j, k) \in 1 .. Taken(p)
<1> DEFINE i == NodeOf[n].consumes[j]
           g == Uses(n, i, 1)
           F == Fired(n)
           b == Before(n, i, j)
           L == Len(NodeOf[n].consumes)
           more == IF pc[n] = "fire" THEN Before(n, i, at[n] + 1) ELSE 0
<1>1. /\ i \in 1 .. Len(Inputs(n)) /\ p \in Ports /\ L \in Nat
  BY NodeFacts
<1>2. F \in Nat
  BY FiredTypes
<1>3. /\ g \in Nat /\ b \in Nat /\ b + 1 <= g
  <2>1. /\ Uses(n, i, 1) \in Nat /\ Before(n, i, j) \in Nat
        /\ Before(n, i, j + 1) = Before(n, i, j) + 1
    BY <1>1, BeforeFacts
  <2>2. /\ Before(n, i, L + 1) = Uses(n, i, 1)
        /\ L + 1 \in 1 .. L + 1 /\ j < L + 1
    <3>1. L + 1 \in 1 .. L + 1 /\ j < L + 1
      BY <1>1
    <3> QED BY <1>1, <3>1, BeforeFacts
  <2>3. Before(n, i, j + 1) <= Before(n, i, L + 1)
    BY <1>1, <2>2, BeforeFacts
  <2> QED BY <2>1, <2>2, <2>3
<1>4. joined[p] \in Nat /\ consumed[p] \in Nat
  BY <1>1 DEF Types
<1>5. consumed[p] = F * g + more
  BY <1>1 DEF Counted
<1>6. Place(n, j, k) = joined[p] + (k - 1) * g + b + 1
  BY DEF Place
<1>7. more \in Nat /\ (pc[n] = "fire" /\ j <= at[n] => b + 1 <= more)
  <2>1. CASE pc[n] # "fire"
    BY <2>1
  <2>2. CASE pc[n] = "fire"
    <3>1. at[n] \in Nat /\ at[n] <= L /\ more = Before(n, i, at[n] + 1)
      BY <2>2 DEF Stocked, Types
    <3>2. more \in Nat
      <4>1. CASE at[n] = 0
        <5>1. Before(n, i, at[n] + 1) = 0
          BY <1>1, <4>1, BeforeFacts
        <5> QED BY <3>1, <5>1
      <4>2. CASE at[n] # 0
        <5>1. at[n] \in 1 .. L
          BY <1>1, <3>1, <4>2
        <5> QED BY <1>1, <3>1, <5>1, BeforeFacts
      <4> QED BY <4>1, <4>2
    <3>3. ASSUME j <= at[n] PROVE b + 1 <= more
      <4>1. at[n] + 1 \in 1 .. L + 1 /\ j < at[n] + 1
        BY <1>1, <3>1, <3>3
      <4>2. /\ Before(n, i, j + 1) <= Before(n, i, at[n] + 1)
            /\ Before(n, i, j + 1) = Before(n, i, j) + 1
        BY <1>1, <4>1, BeforeFacts
      <4> QED BY <3>1, <4>2
    <3> QED BY <3>2, <3>3
  <2> QED BY <2>1, <2>2
<1> HIDE DEF g, F, b, L, i, more
<1>8. (k - 1) * g \in Nat /\ (k - 1) * g + b + 1 <= F * g + more
  <2>0. k - 1 \in Nat
    OBVIOUS
  <2>1. (k - 1) * g \in Nat /\ F * g \in Nat
    BY <1>2, <1>3, <2>0, Groups
  <2>2. CASE k <= F
    <3>1. (k - 1) + 1 = k
      OBVIOUS
    <3>2. k * g = (k - 1) * g + g
      BY <1>3, <2>0, <3>1, Groups
    <3>3. k * g <= F * g /\ k * g \in Nat
      BY <1>2, <1>3, <2>2, Groups
    <3> QED BY <1>3, <1>7, <2>1, <3>2, <3>3
  <2>3. CASE k = F + 1 /\ pc[n] = "fire" /\ j <= at[n]
    <3>1. k - 1 = F
      BY <1>2, <2>3
    <3> QED BY <1>3, <1>7, <2>1, <2>3, <3>1
  <2> QED BY <2>1, <2>2, <2>3 DEF F
<1>9. /\ Place(n, j, k) \in Nat /\ Place(n, j, k) >= 1
      /\ Place(n, j, k) <= joined[p] + consumed[p]
  <2> DEFINE u == (k - 1) * g
             v == F * g
             x == joined[p]
             y == consumed[p]
             z == Place(n, j, k)
  <2>1. /\ u \in Nat /\ v \in Nat /\ u + b + 1 <= v + more
        /\ z = x + u + b + 1 /\ y = v + more
    BY <1>2, <1>3, <1>5, <1>6, <1>8, Groups
  <2>2. x \in Nat /\ y \in Nat /\ b \in Nat /\ more \in Nat
    BY <1>3, <1>4, <1>7
  <2> HIDE DEF u, v, x, y, z
  <2>3. z \in Nat /\ z >= 1
    BY <2>1, <2>2
  <2>4. z <= x + y
    BY <2>1, <2>2
  <2> QED BY <2>3, <2>4 DEF x, y, z
<1> QED BY <1>1, <1>4, <1>9 DEF Taken

(* A log only grows.                                                       *)
LEMMA LogsGrow ==
  ASSUME Types, Types', \A n \in Nodes : Publishing(n), [Next]_vars,
         NEW t \in Topics
  PROVE  /\ Len(log[t]) \in Nat /\ Len(log'[t]) \in Nat
         /\ Len(log[t]) <= Len(log'[t])
         /\ \A k \in 1 .. Len(log[t]) : log'[t][k] = log[t][k]
<1> USE DEF ownerVars, fireVars, historyVars
<1>0. log[t] \in Seq(RealMessage) /\ Len(log[t]) \in Nat
  BY DEF Types
<1>1. CASE UNCHANGED log
  BY <1>0, <1>1
<1>2. ASSUME NEW n \in Nodes, Publish(n)
      PROVE  /\ Len(log[t]) \in Nat /\ Len(log'[t]) \in Nat
             /\ Len(log[t]) <= Len(log'[t])
             /\ \A k \in 1 .. Len(log[t]) : log'[t][k] = log[t][k]
  <2>1. /\ out[n].topic = NodeOf[n].output
        /\ log' = [log EXCEPT ![NodeOf[n].output] = Append(@, out[n])]
    BY <1>2 DEF Publish, Goto, Publishing
  <2>2. CASE t # NodeOf[n].output
    <3>1. log'[t] = log[t]
      BY <2>1, <2>2 DEF Types
    <3> QED BY <1>0, <3>1
  <2>3. CASE t = NodeOf[n].output
    <3>1. log'[t] = Append(log[t], out[n])
      BY <2>1, <2>3 DEF Types
    <3>2. out[n] \in RealMessage
      BY <2>1, <2>3 DEF Types, Message, RealMessage
    <3>3. /\ Len(Append(log[t], out[n])) = Len(log[t]) + 1
          /\ \A k \in 1 .. Len(log[t]) : Append(log[t], out[n])[k] = log[t][k]
      BY <1>0, <3>2, Appended
    <3> QED BY <1>0, <3>1, <3>3
  <2> QED BY <2>2, <2>3
<1>3. UNCHANGED log \/ \E n \in Nodes : Publish(n)
  BY DEF Next, InitializeInput, StartRunThread, EndProgram, Destroy,
         RequestStop, DestroyProcess, NodeDestroyed, DestroyQueue,
         Unsubscribe, Run, InputReady,
         InputNotReady, AllReady, FireDestroyed, EmptyFire, Drain, Consume,
         Make, Flush,
         OnInputReceived, Return, vars
<1> QED BY <1>1, <1>2, <1>3

(* An input subscribes once, before its node runs.                         *)
LEMMA JoinedOnce ==
  ASSUME Types, ThreadsOfBuilt, [Next]_vars, NEW p \in Ports,
         pc[p[1]] # "none"
  PROVE  joined'[p] = joined[p]
<1> USE DEF ownerVars, fireVars, historyVars
<1>1. CASE InitializeInput
  <2>0. PICK q : q = <<program[built + 1], connected + 1>>
    OBVIOUS
  <2>1. /\ ~ending /\ joined' = [joined EXCEPT ![q] = Len(log[TopicOf(q)])]
        /\ built < Len(program)
    BY <1>1, <2>0 DEF InitializeInput
  <2>2. built + 1 \in 1 .. Len(program) /\ built + 1 > built
    BY <2>1, BuiltFacts
  <2>3. pc[program[built + 1]] = "none"
    BY <2>1, <2>2 DEF ThreadsOfBuilt
  <2>4. p # q
    BY <2>0, <2>3
  <2> QED BY <2>1, <2>4 DEF Types
<1>2. CASE ~InitializeInput
  BY <1>2 DEF Next, StartRunThread, EndProgram, Destroy,
         RequestStop, DestroyProcess, NodeDestroyed, DestroyQueue,
         Unsubscribe, Run, InputReady,
         InputNotReady, AllReady, FireDestroyed, EmptyFire, Drain, Consume,
         Make, Flush, Publish,
         OnInputReceived, Return, vars
<1> QED BY <1>1, <1>2

(* What has been taken stays what it is.                                   *)
LEMMA OperandKept ==
  ASSUME Types, Types', ThreadsOfBuilt, \A n \in Nodes : Publishing(n),
         [Next]_vars, WithinLogs,
         NEW n \in Nodes, Counted(n), Stocked(n), pc[n] # "none",
         NEW j \in 1 .. Len(NodeOf[n].consumes), NEW k \in Nat \ {0},
         \/ k <= Fired(n)
         \/ k = Fired(n) + 1 /\ pc[n] = "fire" /\ j <= at[n]
  PROVE  Operand(n, j, k)' = Operand(n, j, k)
<1>0. PICK p : p = <<n, NodeOf[n].consumes[j]>>
  OBVIOUS
<1>1. p \in Ports /\ Place(n, j, k) \in 1 .. Taken(p)
  BY <1>0, PlaceTaken
<1>2. p[1] = n /\ TopicOf(p) \in Topics
  BY <1>0, <1>1, PortFacts
<1>3. joined'[p] = joined[p]
  BY <1>1, <1>2, JoinedOnce
<1>4. Place(n, j, k)' = Place(n, j, k)
  BY <1>0, <1>3 DEF Place
<1>5. Taken(p) <= Len(log[TopicOf(p)]) /\ Taken(p) \in Nat
  BY <1>1, StreamTypes DEF WithinLogs
<1>6. /\ Len(log[TopicOf(p)]) \in Nat
      /\ \A x \in 1 .. Len(log[TopicOf(p)]) :
           log'[TopicOf(p)][x] = log[TopicOf(p)][x]
  BY <1>2, LogsGrow
<1>7. Place(n, j, k) \in 1 .. Len(log[TopicOf(p)])
  BY <1>1, <1>5, <1>6
<1>8. Operand(n, j, k) = log[TopicOf(p)][Place(n, j, k)]
  BY <1>0 DEF Operand
<1>9. Operand(n, j, k)' = log'[TopicOf(p)][Place(n, j, k)']
  BY <1>0 DEF Operand
<1> QED BY <1>4, <1>6, <1>7, <1>8, <1>9

LEMMA ResultKept ==
  ASSUME Types, Types', ThreadsOfBuilt, \A n \in Nodes : Publishing(n),
         [Next]_vars, WithinLogs,
         NEW n \in Nodes, Counted(n), Stocked(n), pc[n] # "none",
         NEW k \in Nat \ {0}, k <= Fired(n)
  PROVE  ResultOf(n, k)' = ResultOf(n, k)
<1>1. \A j \in 1 .. Len(NodeOf[n].consumes) :
        Operand(n, j, k)' = Operand(n, j, k)
  BY OperandKept
<1>2. [j \in 1 .. Len(NodeOf[n].consumes) |-> Operand(n, j, k)]' =
      [j \in 1 .. Len(NodeOf[n].consumes) |-> Operand(n, j, k)]
  BY <1>1
<1> QED BY <1>2 DEF ResultOf

(* If its own steps are not at stake, what a node has computed stays.      *)
LEMMA ComputedKept ==
  ASSUME Types, Types', ThreadsOfBuilt, \A n \in Nodes : Publishing(n),
         [Next]_vars, WithinLogs,
         NEW n \in Nodes, Counted(n), Computed(n), Stocked(n),
         pc[n] # "none", pc'[n] # "none",
         \/ pc'[n] = pc[n] /\ at'[n] = at[n]
         \/ /\ {pc[n], pc'[n]} \cap {"fire", "flush", "publish"} = {}
         \/ /\ pc[n] \notin {"fire", "flush", "publish"}
            /\ pc'[n] = "fire" /\ at'[n] = 0,
         operands'[n] = operands[n], staged'[n] = staged[n], out'[n] = out[n],
         nextNumber'[n] = nextNumber[n],
         log'[NodeOf[n].output] = log[NodeOf[n].output],
         \A i \in 1 .. Len(Inputs(n)) : consumed'[<<n, i>>] = consumed[<<n, i>>]
  PROVE  Counted(n)' /\ Computed(n)'
<1> DEFINE t == NodeOf[n].output
<1>0. /\ Len(log[t]) \in Nat /\ Fired(n) \in Nat /\ Len(log[t]) <= Fired(n)
  BY FiredTypes
<1>1. Fired(n)' = Fired(n)
  BY DEF Fired
<1>2. Counted(n)'
  <2> SUFFICES ASSUME NEW i \in 1 .. Len(Inputs(n))
               PROVE  consumed'[<<n, i>>] =
                        Fired(n)' * Uses(n, i, 1) +
                        (IF pc'[n] = "fire" THEN Before(n, i, at'[n] + 1) ELSE 0)
    BY DEF Counted
  <2>1. consumed[<<n, i>>] =
          Fired(n) * Uses(n, i, 1) +
          (IF pc[n] = "fire" THEN Before(n, i, at[n] + 1) ELSE 0)
    BY DEF Counted
  <2>2. (IF pc'[n] = "fire" THEN Before(n, i, at'[n] + 1) ELSE 0) =
        (IF pc[n] = "fire" THEN Before(n, i, at[n] + 1) ELSE 0)
    <3>1. CASE pc'[n] = pc[n] /\ at'[n] = at[n]
      BY <3>1
    <3>2. CASE {pc[n], pc'[n]} \cap {"fire", "flush", "publish"} = {}
      BY <3>2
    <3>3. CASE pc[n] \notin {"fire", "flush", "publish"}
               /\ pc'[n] = "fire" /\ at'[n] = 0
      <4>1. Before(n, i, 1) = 0 /\ at'[n] + 1 = 1
        BY <3>3, BeforeFacts
      <4> QED BY <3>3, <4>1
    <3> QED BY <3>1, <3>2, <3>3
  <2> QED BY <1>1, <2>1, <2>2
<1>3. ASSUME NEW k \in 1 .. Len(log[t])
      PROVE  log[t][k].userData = ResultOf(n, k)'
  <2>1. k \in Nat \ {0} /\ k <= Fired(n)
    BY <1>0
  <2>2. ResultOf(n, k)' = ResultOf(n, k)
    BY <2>1, ResultKept
  <2> QED BY <2>2 DEF Computed
<1>4. ASSUME pc'[n] \in {"flush", "publish"}
      PROVE  ResultOf(n, Fired(n))' = ResultOf(n, Fired(n))
  <2>0. PICK k : k = Fired(n)
    OBVIOUS
  <2>1. pc[n] \in {"flush", "publish"}
    BY <1>4
  <2>2. k \in Nat \ {0}
    BY <1>0, <2>0, <2>1 DEF Fired
  <2>3. ResultOf(n, k)' = ResultOf(n, k)
    BY <1>0, <2>0, <2>2, ResultKept
  <2>4. k' = k
    OBVIOUS
  <2> QED BY <1>1, <2>0, <2>3
<1>5. ASSUME pc'[n] = "fire", NEW j \in 1 .. at'[n]
      PROVE  operands[n][j] = Operand(n, j, Fired(n) + 1)'
  <2>0. PICK k : k = Fired(n) + 1
    OBVIOUS
  <2>1. at[n] \in Nat /\ at'[n] \in Nat
    BY DEF Types
  <2>2. pc[n] = "fire" /\ at'[n] = at[n]
    BY <1>5, <2>1
  <2>3. /\ j \in 1 .. Len(NodeOf[n].consumes) /\ j <= at[n]
        /\ k \in Nat \ {0}
    BY <1>0, <1>5, <2>0, <2>1, <2>2, NodeFacts DEF Stocked
  <2>4. Operand(n, j, k)' = Operand(n, j, k)
    BY <2>0, <2>2, <2>3, OperandKept
  <2>5. operands[n][j] = Operand(n, j, k)
    BY <1>5, <2>0, <2>2 DEF Computed
  <2> QED BY <1>1, <2>0, <2>4, <2>5
<1>6. Computed(n)'
  <2>1. NodeOf[n].consumes = <<>> => nextNumber'[n] = Fired(n)'
    BY <1>1 DEF Computed
  <2>2. pc'[n] = "fire" =>
          \A j \in 1 .. at'[n] :
            operands'[n][j] = Operand(n, j, Fired(n) + 1)'
    BY <1>5
  <2>3. pc'[n] = "flush" => staged'[n].userData = ResultOf(n, Fired(n))'
    BY <1>4 DEF Computed
  <2>4. pc'[n] = "publish" => out'[n].userData = ResultOf(n, Fired(n))'
    BY <1>4 DEF Computed
  <2>5. \A k \in 1 .. Len(log'[t]) : log'[t][k].userData = ResultOf(n, k)'
    BY <1>3
  <2> QED BY <2>1, <2>2, <2>3, <2>4, <2>5 DEF Computed
<1> QED BY <1>2, <1>6

LEMMA ComputesConsume ==
  ASSUME Types, Types', NEW n \in Nodes, Counted(n), Computed(n), Stocked(n),
         Stocked(n)', Consume(n),
         \A i \in 1 .. Len(Inputs(n)) : Stream(<<n, i>>)
  PROVE  Counted(n)' /\ Computed(n)'
<1> DEFINE a == at[n]
           c == NodeOf[n].consumes[a + 1]
           p == <<n, c>>
           L == Len(NodeOf[n].consumes)
<1>1. /\ a \in Nat /\ a < L /\ c \in 1 .. Len(Inputs(n)) /\ p \in Ports
      /\ Len(queue[p]) > 0
      /\ operands' = [operands EXCEPT ![n] = Append(@, Pop(queue[p]).message)]
      /\ consumed' = [consumed EXCEPT ![p] = @ + 1]
      /\ at' = [at EXCEPT ![n] = @ + 1]
      /\ UNCHANGED <<ownerVars, pc, staged, out, nextNumber, log>>
  BY ConsumeFinds
<1>2. /\ pc[n] = "fire" /\ pc'[n] = "fire" /\ at'[n] = a + 1
      /\ joined' = joined /\ log' = log
  BY <1>1 DEF Consume, ownerVars, Types
<1>3. L \in Nat /\ a + 1 \in 1 .. L
  BY <1>1, NodeFacts
<1>4. Fired(n)' = Fired(n) /\ Fired(n) \in Nat
  BY <1>2, FiredTypes DEF Fired
<1>5. ASSUME NEW i \in 1 .. Len(Inputs(n))
      PROVE  /\ consumed[<<n, i>>] =
                  Fired(n) * Uses(n, i, 1) + Before(n, i, a + 1)
             /\ Before(n, i, a + 1) \in Nat /\ Uses(n, i, 1) \in Nat
             /\ Before(n, i, (a + 1) + 1) =
                  Before(n, i, a + 1) + (IF c = i THEN 1 ELSE 0)
  BY <1>2, <1>3, BeforeFacts DEF Counted
<1>6. Counted(n)'
  <2> SUFFICES ASSUME NEW i \in 1 .. Len(Inputs(n))
               PROVE  consumed'[<<n, i>>] =
                        Fired(n) * Uses(n, i, 1) + Before(n, i, (a + 1) + 1)
    BY <1>2, <1>4 DEF Counted
  <2>0. Fired(n) * Uses(n, i, 1) \in Nat
    BY <1>4, <1>5, Groups
  <2>1. <<n, i>> \in Ports
    BY NodeFacts
  <2>2. CASE i = c
    <3>1. consumed'[<<n, i>>] = consumed[<<n, i>>] + 1
      BY <1>1, <2>2 DEF Types
    <3> DEFINE x == Fired(n) * Uses(n, i, 1)
    <3>2. x \in Nat /\ consumed[<<n, i>>] = x + Before(n, i, a + 1)
      BY <1>5, <2>0
    <3> HIDE DEF x, c, p
    <3>3. consumed'[<<n, i>>] = x + Before(n, i, (a + 1) + 1)
      BY <1>5, <2>2, <3>1, <3>2
    <3> QED BY <3>3 DEF x
  <2>3. CASE i # c
    <3>1. consumed'[<<n, i>>] = consumed[<<n, i>>]
      BY <1>1, <2>1, <2>3 DEF Types
    <3>2. Before(n, i, (a + 1) + 1) = Before(n, i, a + 1)
      <4>1. /\ Before(n, i, a + 1) \in Nat
            /\ Before(n, i, (a + 1) + 1) = Before(n, i, a + 1) + 0
        BY <1>5, <2>3
      <4> HIDE DEF a
      <4> QED BY <4>1
    <3> QED BY <1>5, <3>1, <3>2
  <2> QED BY <2>2, <2>3
<1>7. ASSUME NEW j \in 1 .. a + 1
      PROVE  operands'[n][j] = Operand(n, j, Fired(n) + 1)
  <2> DEFINE m == Pop(queue[p]).message
             s == operands[n]
  <2>1. /\ queue[p] \in Seq(RealMessage) /\ s \in Seq(RealMessage)
        /\ Len(s) = a
    BY <1>1, <1>2 DEF Types, Stocked
  <2>2. m \in RealMessage /\ m = queue[p][1]
    <3> HIDE DEF p
    <3> QED BY <1>1, <2>1, Popped
  <2>3. operands'[n] = Append(s, m)
    BY <1>1 DEF Types
  <2>4. CASE j = a + 1
    <3>1. Stream(p) /\ Len(queue[p]) \in Nat
      <4>1. Stream(p)
        BY <1>1
      <4> HIDE DEF p
      <4> QED BY <2>1, <4>1
    <3>2. 1 \in 1 .. Len(queue[p])
      BY <1>1, <3>1
    <3>3. m = log[TopicOf(p)][Taken(p) + 1]
      BY <2>2, <3>1, <3>2 DEF Stream
    <3>4. joined[p] \in Nat
      BY <1>1 DEF Types
    <3> DEFINE x == Fired(n) * Uses(n, c, 1)
    <3>5. x \in Nat /\ consumed[p] = x + Before(n, c, a + 1)
      <4>1. consumed[p] = x + Before(n, c, a + 1)
        BY <1>1, <1>5
      <4>2. Uses(n, c, 1) \in Nat
        BY <1>1, <1>5
      <4>3. x \in Nat
        BY <1>4, <4>2, Groups
      <4> QED BY <4>1, <4>3
    <3>6. (Fired(n) + 1) - 1 = Fired(n)
      BY <1>4
    <3>7. Place(n, j, Fired(n) + 1) = joined[p] + x + Before(n, c, a + 1) + 1
      BY <2>4, <3>6 DEF Place
    <3>8. Before(n, c, a + 1) \in Nat
      BY <1>1, <1>5
    <3>9. Place(n, j, Fired(n) + 1) = Taken(p) + 1
      <4> HIDE DEF x, c, p
      <4> QED BY <3>4, <3>5, <3>7, <3>8 DEF Taken
    <3>10. operands'[n][j] = m
      <4> HIDE DEF m, s, p, c
      <4> QED BY <2>1, <2>2, <2>3, <2>4, Appended
    <3> QED BY <2>4, <3>3, <3>9, <3>10 DEF Operand
  <2>5. CASE j # a + 1
    <3>1. j \in 1 .. a
      BY <1>1, <2>5
    <3>2. operands'[n][j] = s[j]
      <4> HIDE DEF m, s, p, c
      <4> QED BY <2>1, <2>2, <2>3, <3>1, Appended
    <3> QED BY <1>2, <3>1, <3>2 DEF Computed
  <2> QED BY <2>4, <2>5
<1>8. \A j, k : Operand(n, j, k)' = Operand(n, j, k)
  BY <1>2 DEF Operand, Place
<1>9. \A k : ResultOf(n, k)' = ResultOf(n, k)
  BY <1>2 DEF Operand, Place, ResultOf
<1>10. Computed(n)'
  <2>1. \A j \in 1 .. at'[n] : operands'[n][j] = Operand(n, j, Fired(n) + 1)'
    <3> SUFFICES ASSUME NEW j \in 1 .. a + 1
                 PROVE  operands'[n][j] = Operand(n, j, Fired(n) + 1)'
      BY <1>2
    <3>1. PICK k : k = Fired(n) + 1
      OBVIOUS
    <3>2. Operand(n, j, k)' = Operand(n, j, k)
      BY <1>8
    <3> QED BY <1>4, <1>7, <3>1, <3>2
  <2>2. NodeOf[n].consumes = <<>> => nextNumber'[n] = Fired(n)'
    BY <1>1, <1>4 DEF Computed
  <2>3. \A k \in 1 .. Len(log'[NodeOf[n].output]) :
          log'[NodeOf[n].output][k].userData = ResultOf(n, k)'
    BY <1>2, <1>9 DEF Computed
  <2> QED BY <1>2, <2>1, <2>2, <2>3 DEF Computed
<1> QED BY <1>6, <1>10

LEMMA ComputesMake ==
  ASSUME Types, Types', NEW n \in Nodes, Counted(n), Computed(n), Stocked(n),
         Make(n)
  PROVE  Counted(n)' /\ Computed(n)'
<1> USE DEF ownerVars, historyVars
<1> DEFINE L == Len(NodeOf[n].consumes)
           F == Fired(n)
           t == NodeOf[n].output
           generates == NodeOf[n].consumes = <<>>
           data == IF generates THEN nextNumber[n]
                   ELSE Compute(n, UserData(operands[n]))
           message == [topic |-> t, userData |-> data]
<1>1. /\ pc[n] = "fire" /\ pc'[n] \in {"flush", "publish"} /\ at[n] = L
      /\ nextNumber'[n] = IF generates THEN nextNumber[n] + 1 ELSE nextNumber[n]
      /\ pc'[n] = "flush" => staged'[n] = message
      /\ pc'[n] = "publish" => out'[n] = message
      /\ UNCHANGED <<log, joined, consumed>>
  BY DEF Make, Goto, Types
<1>2. L \in Nat /\ F \in Nat /\ Fired(n)' = F + 1
  <2>1. /\ L \in Nat /\ F \in Nat /\ Len(log[t]) \in Nat
    BY FiredTypes, NodeFacts
  <2>2. F = Len(log[t])
    BY <1>1, <2>1 DEF Fired
  <2>3. Fired(n)' = Len(log[t]) + 1
    BY <1>1 DEF Fired
  <2> QED BY <2>1, <2>2, <2>3
<1>3. Counted(n)'
  <2> SUFFICES ASSUME NEW i \in 1 .. Len(Inputs(n))
               PROVE  consumed[<<n, i>>] = (F + 1) * Uses(n, i, 1) + 0
    BY <1>1, <1>2 DEF Counted
  <2>1. /\ Uses(n, i, 1) \in Nat /\ Before(n, i, L + 1) = Uses(n, i, 1)
    BY BeforeFacts
  <2>2. consumed[<<n, i>>] = F * Uses(n, i, 1) + Uses(n, i, 1)
    BY <1>1, <2>1 DEF Counted
  <2>3. /\ (F + 1) * Uses(n, i, 1) = F * Uses(n, i, 1) + Uses(n, i, 1)
        /\ F * Uses(n, i, 1) \in Nat
    BY <1>2, <2>1, Groups
  <2> DEFINE x == F * Uses(n, i, 1)
             y == (F + 1) * Uses(n, i, 1)
  <2>4. x \in Nat /\ y = x + Uses(n, i, 1) /\ consumed[<<n, i>>] = x + Uses(n, i, 1)
    BY <2>2, <2>3
  <2> HIDE DEF x, y
  <2>5. consumed[<<n, i>>] = y + 0
    BY <2>1, <2>4
  <2> QED BY <2>5 DEF y
<1>4. data = ResultOf(n, F + 1)
  <2>1. CASE generates
    <3>1. nextNumber[n] = F /\ (F + 1) - 1 = F
      BY <1>2, <2>1 DEF Computed
    <3> QED BY <2>1, <3>1 DEF ResultOf
  <2>2. CASE ~generates
    <3> DEFINE s == operands[n]
               r == [j \in 1 .. L |-> Operand(n, j, F + 1)]
    <3>1. /\ s \in Seq(RealMessage) /\ Len(s) = L
          /\ \A j \in 1 .. L : s[j] = Operand(n, j, F + 1)
      BY <1>1 DEF Types, Stocked, Computed
    <3>2. s = [j \in 1 .. L |-> s[j]]
      BY <3>1
    <3>3. s = r
      BY <3>1, <3>2
    <3> QED BY <2>2, <3>3 DEF ResultOf
  <2> QED BY <2>1, <2>2
<1>5. \A k : ResultOf(n, k)' = ResultOf(n, k)
  BY <1>1 DEF Operand, Place, ResultOf
<1>6. ResultOf(n, Fired(n))' = ResultOf(n, F + 1)
  <2>1. PICK k : k = F + 1
    OBVIOUS
  <2> QED BY <1>2, <1>5, <2>1
<1>7. message.userData = data
  OBVIOUS
<1>8. Computed(n)'
  <2>1. generates => nextNumber'[n] = Fired(n)'
    BY <1>1, <1>2 DEF Computed
  <2>2. pc'[n] = "flush" => staged'[n].userData = ResultOf(n, Fired(n))'
    BY <1>1, <1>4, <1>6, <1>7
  <2>3. pc'[n] = "publish" => out'[n].userData = ResultOf(n, Fired(n))'
    BY <1>1, <1>4, <1>6, <1>7
  <2>4. \A k \in 1 .. Len(log'[t]) : log'[t][k].userData = ResultOf(n, k)'
    BY <1>1, <1>5 DEF Computed
  <2> HIDE DEF message, data
  <2> QED BY <1>1, <2>1, <2>2, <2>3, <2>4 DEF Computed
<1> QED BY <1>3, <1>8

LEMMA ComputesFlush ==
  ASSUME Types, Types', NEW n \in Nodes, Counted(n), Computed(n), Flush(n)
  PROVE  Counted(n)' /\ Computed(n)'
<1> USE DEF ownerVars, historyVars
<1>1. /\ pc[n] = "flush" /\ pc'[n] = "publish" /\ out'[n] = staged[n]
      /\ UNCHANGED <<log, joined, consumed, nextNumber>>
  BY DEF Flush, Goto, Types
<1>2. Fired(n)' = Fired(n)
  BY <1>1 DEF Fired
<1>3. Counted(n)'
  BY <1>1, <1>2 DEF Counted
<1>4. \A k : ResultOf(n, k)' = ResultOf(n, k)
  BY <1>1 DEF Operand, Place, ResultOf
<1>5. ResultOf(n, Fired(n))' = ResultOf(n, Fired(n))
  <2>1. PICK k : k = Fired(n)
    OBVIOUS
  <2> QED BY <1>2, <1>4, <2>1
<1> QED BY <1>1, <1>2, <1>3, <1>4, <1>5 DEF Computed

LEMMA ComputesPublish ==
  ASSUME Types, Types', ThreadsOfBuilt, \A m \in Nodes : Publishing(m),
         [Next]_vars, WithinLogs,
         NEW n \in Nodes, Counted(n), Computed(n), Stocked(n), Publish(n)
  PROVE  Counted(n)' /\ Computed(n)'
<1> USE DEF ownerVars, fireVars
<1> DEFINE t == NodeOf[n].output
           F == Fired(n)
<1>1. /\ pc[n] = "publish" /\ pc'[n] = "call" /\ out[n].topic = t
      /\ log' = [log EXCEPT ![t] = Append(@, out[n])]
      /\ UNCHANGED <<joined, consumed, nextNumber>>
  BY DEF Publish, Goto, Publishing, Types
<1>2. /\ t \in Topics /\ Len(log[t]) \in Nat /\ log[t] \in Seq(RealMessage)
  <2>1. t \in Topics
    BY NodeFacts
  <2>2. log[t] \in Seq(RealMessage)
    BY <2>1 DEF Types
  <2> QED BY <2>1, <2>2
<1>3. out[n] \in RealMessage
  BY <1>1, <1>2 DEF Types, Message, RealMessage
<1>4. /\ Len(log'[t]) = Len(log[t]) + 1
      /\ log'[t][Len(log[t]) + 1] = out[n]
      /\ \A k \in 1 .. Len(log[t]) : log'[t][k] = log[t][k]
  <2>1. log'[t] = Append(log[t], out[n])
    BY <1>1, <1>2 DEF Types
  <2> HIDE DEF t
  <2> QED BY <1>2, <1>3, <2>1, Appended
<1>5. F = Len(log[t]) + 1 /\ Fired(n)' = F
  <2>1. F = Len(log[t]) + 1
    BY <1>1 DEF Fired
  <2> DEFINE after == Len(log'[t])
  <2>2. Fired(n)' = after + 0
    BY <1>1 DEF Fired
  <2>3. after = Len(log[t]) + 1
    BY <1>4
  <2> HIDE DEF after
  <2> QED BY <1>2, <2>1, <2>2, <2>3
<1>6. Counted(n)'
  BY <1>1, <1>5 DEF Counted
<1>7. ASSUME NEW k \in 1 .. Len(log[t]) + 1
      PROVE  log'[t][k].userData = ResultOf(n, k)'
  <2>1. k \in Nat \ {0} /\ k <= F
    BY <1>2, <1>5
  <2>2. ResultOf(n, k)' = ResultOf(n, k)
    BY <1>1, <2>1, ResultKept
  <2>3. CASE k = Len(log[t]) + 1
    BY <1>1, <1>4, <1>5, <2>2, <2>3 DEF Computed
  <2>4. CASE k # Len(log[t]) + 1
    <3>1. k \in 1 .. Len(log[t])
      BY <1>2, <2>4
    <3> QED BY <1>4, <2>2, <3>1 DEF Computed
  <2> QED BY <2>3, <2>4
<1>8. Computed(n)'
  <2>1. NodeOf[n].consumes = <<>> => nextNumber'[n] = Fired(n)'
    BY <1>1, <1>5 DEF Computed
  <2>2. \A k \in 1 .. Len(log'[t]) : log'[t][k].userData = ResultOf(n, k)'
    BY <1>4, <1>7
  <2> QED BY <1>1, <2>1, <2>2 DEF Computed
<1> QED BY <1>6, <1>8

(* The steps that make and take nothing.                                   *)
LEMMA RunComputes ==
  ASSUME IInv, Types', \A m \in Nodes : Stocked(m)', [Next]_vars, WithinLogs,
         NEW n \in NodesOf(program), n \in Nodes, Counted(n), Computed(n), Run(n)
  PROVE  Counted(n)' /\ Computed(n)'
<1> USE DEF IInv, ownerVars, fireVars, historyVars
<1>0. pc[n] # "none" /\ pc'[n] # "none"
  BY RunFrame
<1>1. CASE InputReady(n) \/ InputNotReady(n) \/ AllReady(n)
           \/ FireDestroyed(n) \/ EmptyFire(n)
           \/ Drain(n) \/ Return(n)
  <2>1. /\ pc[n] \in {"isReady", "drain", "call"}
        /\ \/ pc'[n] \in {"isReady", "drain", "ended"}
           \/ pc'[n] = "fire" /\ at'[n] = 0
        /\ UNCHANGED <<operands, staged, out, nextNumber, log, consumed>>
    <3>0. pc \in [Nodes -> {"none", "isReady", "drain", "fire", "flush",
                            "publish", "call", "ended"}]
      BY DEF Types
    <3>1. CASE InputReady(n)
      <4>1. pc[n] = "isReady" /\ pc' = pc
        BY <3>1 DEF InputReady
      <4>2. UNCHANGED <<operands, staged, out, nextNumber, log, consumed>>
        BY <3>1 DEF InputReady
      <4> QED BY <4>1, <4>2
    <3>4. CASE InputNotReady(n) \/ EmptyFire(n) \/ Return(n)
      <4>1. /\ pc[n] \in {"isReady", "call"}
            /\ pc'[n] \in {"isReady", "drain", "ended"}
        BY <3>0, <3>4 DEF InputNotReady, EmptyFire, Return, Goto, NextRun
      <4>2. UNCHANGED <<operands, staged, out, nextNumber, log, consumed>>
        BY <3>4 DEF InputNotReady, EmptyFire, Return
      <4> QED BY <4>1, <4>2
    <3>2. CASE AllReady(n)
      BY <3>2 DEF AllReady, Goto, Types
    <3>3. CASE Drain(n)
      BY <3>3 DEF Drain, Goto, NextRun, Types, Stocked
    <3>5. CASE FireDestroyed(n)
      BY <3>5 DEF FireDestroyed
    <3> QED BY <1>1, <3>1, <3>2, <3>3, <3>4, <3>5
  <2> QED BY <1>0, <2>1, ComputedKept
<1>2. ASSUME NEW p \in Ports, OnInputReceived(n, p)
      PROVE  Counted(n)' /\ Computed(n)'
  <2>1. UNCHANGED <<pc, at, operands, staged, out, nextNumber, log, consumed>>
    BY <1>2 DEF OnInputReceived
  <2> QED BY <1>0, <2>1, ComputedKept
<1>3. CASE Consume(n)
  <2>1. pc[n] = "fire"
    BY <1>3 DEF Consume
  <2>2. \A i \in 1 .. Len(Inputs(n)) : <<n, i>> \in alive
    BY <2>1, IInvImplies DEF DestroyedInOrder
  <2> QED BY <1>3, <2>2, ComputesConsume
<1>4. CASE Make(n)
  BY <1>4, ComputesMake
<1>5. CASE Flush(n)
  BY <1>5, ComputesFlush
<1>6. CASE Publish(n)
  BY <1>6, ComputesPublish
<1> QED BY <1>1, <1>2, <1>3, <1>4, <1>5, <1>6 DEF Run

(* What a step leaves alone of a node whose thread does not take it.       *)
LEMMA OtherComputes ==
  ASSUME IInv, Types', [Next]_vars, WithinLogs,
         NEW n \in NodesOf(program), n \in Nodes, Counted(n), Computed(n), ~Run(n)
  PROVE  Counted(n)' /\ Computed(n)'
<1> USE DEF IInv, ownerVars, fireVars, historyVars
<1> DEFINE t == NodeOf[n].output
<1>0. t \in Topics /\ \A i \in 1 .. Len(Inputs(n)) : <<n, i>> \in Ports
  BY NodeFacts
<1>1. /\ at'[n] = at[n] /\ operands'[n] = operands[n]
      /\ staged'[n] = staged[n] /\ out'[n] = out[n]
      /\ nextNumber'[n] = nextNumber[n] /\ log'[t] = log[t]
      /\ \A i \in 1 .. Len(Inputs(n)) : consumed'[<<n, i>>] = consumed[<<n, i>>]
      /\ \/ pc'[n] = pc[n]
         \/ pc[n] \in {"none", "isReady"} /\ pc'[n] \in {"isReady", "ended"}
  <2>1. ASSUME NEW m \in Nodes, Run(m)
        PROVE  /\ \A i \in 1 .. Len(Inputs(n)) :
                    consumed'[<<n, i>>] = consumed[<<n, i>>]
               /\ at'[n] = at[n] /\ operands'[n] = operands[n]
               /\ staged'[n] = staged[n] /\ out'[n] = out[n]
               /\ nextNumber'[n] = nextNumber[n] /\ log'[t] = log[t]
               /\ pc'[n] = pc[n]
    <3>0. m # n
      BY <2>1
    <3>1. /\ pc'[n] = pc[n] /\ at'[n] = at[n] /\ operands'[n] = operands[n]
          /\ staged'[n] = staged[n] /\ out'[n] = out[n]
          /\ nextNumber'[n] = nextNumber[n]
          /\ log'[t] = log[t] \/ (pc[m] = "publish" /\ t = NodeOf[m].output)
      BY <1>0, <2>1, <3>0, RunLocal
    <3>2. m \in NodesOf(program)
      BY <2>1, RunFrame DEF ThreadsOfBuilt
    <3>3. t # NodeOf[m].output
      BY <3>0, <3>2, ProgramFacts
    <3>4. \A i \in 1 .. Len(Inputs(n)) :
            consumed'[<<n, i>>] = consumed[<<n, i>>]
      <4>1. CASE Consume(m)
        <5>0. PICK c : c = NodeOf[m].consumes[at[m] + 1]
          OBVIOUS
        <5>1. consumed' = [consumed EXCEPT ![<<m, c>>] = @ + 1]
          BY <4>1, <5>0, ConsumeFinds
        <5>2. \A i \in 1 .. Len(Inputs(n)) : <<n, i>> # <<m, c>>
          BY <3>0
        <5> QED BY <1>0, <5>1, <5>2 DEF Types
      <4>2. CASE ~Consume(m)
        <5>1. UNCHANGED consumed
          BY <2>1, <4>2
          DEF Run, InputReady, InputNotReady, AllReady, FireDestroyed,
              EmptyFire,
               Drain, Make, Flush, Publish, OnInputReceived, Return
        <5> QED BY <5>1
      <4> QED BY <4>1, <4>2
    <3> QED BY <3>1, <3>3, <3>4
  <2>2. CASE \/ InitializeInput \/ StartRunThread \/ EndProgram \/ Destroy
             \/ UNCHANGED vars
    <3>1. UNCHANGED <<at, operands, staged, out, nextNumber, log, consumed>>
      BY <2>2 DEF InitializeInput, StartRunThread, EndProgram, Destroy,
           RequestStop, DestroyProcess, NodeDestroyed, DestroyQueue,
           Unsubscribe, vars
    <3>2. \/ pc'[n] = pc[n]
          \/ pc[n] \in {"none", "isReady"} /\ pc'[n] \in {"isReady", "ended"}
      <4>1. CASE StartRunThread
        <5>0. PICK b : b = program[built + 1]
          OBVIOUS
        <5>1. /\ pc' = [pc EXCEPT ![b] = "isReady"]
              /\ ~ending /\ built < Len(program)
          BY <4>1, <5>0 DEF StartRunThread
        <5>2. pc[b] = "none"
          BY <5>0, <5>1, BuiltFacts DEF ThreadsOfBuilt
        <5> QED BY <5>1, <5>2 DEF Types
      <4>2. CASE RequestStop
        BY <4>2 DEF RequestStop, Goto, Types
      <4>3. CASE ~StartRunThread /\ ~RequestStop
        <5>1. UNCHANGED pc
          BY <2>2, <4>3 DEF InitializeInput, EndProgram, Destroy,
               DestroyProcess, NodeDestroyed, DestroyQueue, Unsubscribe, vars
        <5> QED BY <5>1
      <4> QED BY <4>1, <4>2, <4>3
    <3> QED BY <3>1, <3>2
  <2> QED BY <2>1, <2>2 DEF Next
<1>2. CASE pc[n] # "none"
  <2>1. pc'[n] # "none"
    BY <1>1, <1>2
  <2> QED BY <1>1, <1>2, <2>1, ComputedKept
<1>3. CASE pc[n] = "none"
  <2>1. pc'[n] \in {"none", "isReady", "ended"}
    BY <1>1, <1>3
  <2>2. /\ Fired(n) = 0 /\ Fired(n)' = 0 /\ Len(log[t]) = 0
    <3>1. Fired(n) = 0 /\ Len(log[t]) \in Nat /\ Len(log[t]) <= Fired(n)
      BY <1>3, FiredTypes DEF Computed
    <3>2. Fired(n)' = Fired(n)
      BY <1>1, <1>3, <2>1 DEF Fired
    <3> QED BY <3>1, <3>2
  <2>3. Counted(n)'
    BY <1>1, <1>3, <2>1, <2>2 DEF Counted
  <2>4. Computed(n)'
    <3>1. NodeOf[n].consumes = <<>> => nextNumber'[n] = Fired(n)'
      BY <1>1, <2>2 DEF Computed
    <3>2. \A k \in 1 .. Len(log'[t]) : log'[t][k].userData = ResultOf(n, k)'
      <4>1. 1 .. Len(log[t]) = {}
        BY <2>2
      <4> QED BY <1>1, <4>1
    <3> QED BY <2>1, <2>2, <3>1, <3>2 DEF Computed
  <2> QED BY <2>3, <2>4
<1> QED BY <1>2, <1>3

LEMMA WithinStep ==
  ASSUME IInv, Types', [Next]_vars, WithinLogs
  PROVE  WithinLogs'
<1> USE DEF IInv, ownerVars, fireVars, historyVars
<1> SUFFICES ASSUME NEW p \in Ports PROVE (Taken(p) <= Len(log[TopicOf(p)]))'
  BY DEF WithinLogs
<1>0. /\ joined[p] \in Nat /\ consumed[p] \in Nat /\ Taken(p) \in Nat
      /\ TopicOf(p) \in Topics /\ Taken(p) <= Len(log[TopicOf(p)])
  BY StreamTypes DEF WithinLogs
<1> DEFINE t == TopicOf(p)
           before == Len(log[t])
           after  == Len(log'[t])
<1>1. before \in Nat /\ after \in Nat /\ before <= after /\ Taken(p) <= before
  BY <1>0, LogsGrow
<1> SUFFICES Taken(p)' <= after
  OBVIOUS
<1>2. CASE joined'[p] = joined[p] /\ consumed'[p] = consumed[p]
  <2>1. Taken(p)' = Taken(p)
    BY <1>2 DEF Taken
  <2> HIDE DEF before, after
  <2> QED BY <1>0, <1>1, <2>1
<1>3. CASE InitializeInput
  <2>0. PICK q : q = <<program[built + 1], connected + 1>>
    OBVIOUS
  <2>1. /\ ~ending /\ joined' = [joined EXCEPT ![q] = Len(log[TopicOf(q)])]
        /\ UNCHANGED consumed
    BY <1>3, <2>0 DEF InitializeInput
  <2>2. CASE p # q
    BY <1>2, <2>1, <2>2 DEF Types
  <2>3. CASE p = q
    <3>0. /\ built < Len(program)
          /\ connected < Len(Inputs(program[built + 1]))
      BY <1>3 DEF InitializeInput
    <3>1. /\ built + 1 \in 1 .. Len(program)
          /\ connected + 1 \in 1 .. Len(Inputs(program[built + 1]))
      <4>1. built + 1 \in 1 .. Len(program) /\ connected \in Nat
        BY <3>0, BuiltFacts
      <4>2. Len(Inputs(program[built + 1])) \in Nat
        BY <4>1, ProgramFacts, NodeFacts
      <4> QED BY <3>0, <4>1, <4>2
    <3>2. Untouched(p)
      <4>1. built + 1 \in built + 1 .. Len(program) /\ connected + 1 > connected
        BY <3>1 DEF Types
      <4> QED BY <2>0, <2>1, <2>3, <3>1, <4>1 DEF FreshInputs
    <3>3. joined'[p] = before /\ consumed'[p] = 0
      BY <2>1, <2>3, <3>2 DEF Untouched, Types
    <3>4. Taken(p)' = before + 0
      BY <3>3 DEF Taken
    <3> HIDE DEF before, after
    <3> QED BY <1>1, <3>4
  <2> QED BY <2>2, <2>3
<1>4. ASSUME NEW n \in Nodes, Consume(n) PROVE Taken(p)' <= after
  <2>0. PICK q : q = <<n, NodeOf[n].consumes[at[n] + 1]>>
    OBVIOUS
  <2>1. /\ q \in Ports /\ Len(queue[q]) > 0 /\ pc[n] = "fire"
        /\ NodeOf[n].consumes[at[n] + 1] \in 1 .. Len(Inputs(n))
        /\ consumed' = [consumed EXCEPT ![q] = @ + 1]
        /\ UNCHANGED <<ownerVars, log>>
    BY <1>4, <2>0, ConsumeFinds DEF Consume
  <2>2. CASE p # q
    BY <1>2, <2>1, <2>2 DEF Types
  <2>3. CASE p = q
    <3>1. p \in alive
      BY <2>0, <2>1, <2>3, IInvImplies DEF DestroyedInOrder
    <3>2. Taken(p) + Len(queue[p]) + (IF Pending(p) THEN 1 ELSE 0) = before
      BY <3>1 DEF Stream
    <3>3. Len(queue[p]) \in Nat
      BY <3>1, StreamTypes
    <3> HIDE DEF before, after
    <3>4. Taken(p) + 1 <= before
      BY <1>0, <1>1, <2>1, <2>3, <3>2, <3>3
    <3>5. joined'[p] = joined[p] /\ consumed'[p] = consumed[p] + 1
      BY <2>1, <2>3 DEF Types
    <3>6. Taken(p)' = joined[p] + (consumed[p] + 1)
      BY <3>5 DEF Taken
    <3> QED BY <1>0, <1>1, <3>4, <3>6 DEF Taken
  <2> QED BY <2>2, <2>3
<1>5. CASE ~InitializeInput /\ ~\E n \in Nodes : Consume(n)
  <2>1. UNCHANGED <<joined, consumed>>
    BY <1>5 DEF Next, StartRunThread, EndProgram, Destroy,
         RequestStop, DestroyProcess, NodeDestroyed, DestroyQueue,
         Unsubscribe, Run, InputReady,
         InputNotReady, AllReady, FireDestroyed, EmptyFire, Drain, Make,
         Flush, Publish,
         OnInputReceived, Return, vars
  <2> QED BY <1>2, <2>1
<1> QED BY <1>3, <1>4, <1>5

LEMMA ComputationsInit ==
  ASSUME Init
  PROVE  Computations
<1> USE DEF Init
<1>1. IInv
  BY IInvInit
<1>2. WithinLogs
  <2> SUFFICES ASSUME NEW p \in Ports PROVE Taken(p) <= Len(log[TopicOf(p)])
    BY DEF WithinLogs
  <2>1. Taken(p) = 0
    BY DEF Taken
  <2>2. Len(log[TopicOf(p)]) \in Nat
    BY <1>1, StreamTypes DEF IInv
  <2> QED BY <2>1, <2>2
<1>3. ASSUME NEW n \in NodesOf(program) PROVE Counted(n) /\ Computed(n)
  <2>1. n \in Nodes /\ NodeOf[n].output \in Topics
    BY <1>1, ProgramFacts, NodeFacts DEF IInv
  <2>2. log[NodeOf[n].output] = <<>> /\ Fired(n) = 0
    BY <2>1 DEF Fired
  <2>3. Counted(n)
    <3> SUFFICES ASSUME NEW i \in 1 .. Len(Inputs(n))
                 PROVE  consumed[<<n, i>>] = 0 * Uses(n, i, 1) + 0
      BY <2>1, <2>2 DEF Counted
    <3>1. <<n, i>> \in Ports /\ Uses(n, i, 1) \in Nat
      BY <2>1, NodeFacts, UsesAreMany
    <3> QED BY <3>1
  <2> QED BY <2>1, <2>2, <2>3 DEF Computed
<1> QED BY <1>2, <1>3 DEF Computations

LEMMA ComputationsStep ==
  ASSUME IInv, IInv', Computations, [Next]_vars
  PROVE  Computations'
<1> USE DEF Computations
<1>0. Types' /\ \A m \in Nodes : Stocked(m)'
  BY DEF IInv
<1>1. WithinLogs'
  BY <1>0, WithinStep
<1>2. program' = program
  BY ProgramKept
<1>3. ASSUME NEW n \in NodesOf(program) PROVE Counted(n)' /\ Computed(n)'
  <2>1. n \in Nodes
    BY ProgramFacts DEF IInv
  <2>2. CASE Run(n)
    BY <1>0, <2>1, <2>2, RunComputes
  <2>3. CASE ~Run(n)
    BY <1>0, <2>1, <2>3, OtherComputes
  <2> QED BY <2>2, <2>3
<1> QED BY <1>1, <1>2, <1>3

(* The outputs of a node are a function of the streams of its inputs, for  *)
(* any schedule of its thread, the producers and the owner.                *)
THEOREM FunctionOfStreams ==
  ASSUME ComputesNumbers
  PROVE  Spec => []OutputsFollowInputs
<1>1. Init => Computations
  BY ComputationsInit
<1>2. IInv /\ IInv' /\ Computations /\ [Next]_vars => Computations'
  BY ComputationsStep
<1>3. Computations => OutputsFollowInputs
  BY DEF Computations, Computed, ResultOf, Operand, Place, Before,
         OutputsFollowInputs
<1> QED BY <1>1, <1>2, <1>3, Invariance, PTL DEF Spec
=============================================================================
