-------------------------- MODULE IpcClient_proofs --------------------------
(***************************************************************************)
(* Proofs about IpcClient for any program of nodes, of which any are       *)
(* legacy ones, and any numbers of relays and messages; and about          *)
(* WsaFraming and SerDes, what such a client and the server send, for any  *)
(* number of senders and frames and any messages.                          *)
(***************************************************************************)
EXTENDS IpcClient, WsaFraming, FiniteSetTheorems, SequenceTheorems,
        WellFoundedInduction, TLAPS

(* The parts of the inductive invariant.                                   *)

Labelled == pc = [th \in Stoppers |-> pc[th]]

Before   == \/ ~isClientInitialized
            \/ pc[Owner] \in {"startup", "socket", "connect"}
Starting == \/ Before
            \/ pc[Owner] = "open"
            \/ /\ pc[Owner] \in {"stop", "close", "cleanup"}
               /\ handler # "destroyed"

(* The first relay starts the client once, and no other thread runs        *)
(* before its receive thread does.                                         *)
StartedOnce ==
  /\ ~isClientInitialized =>
       pc[Owner] = "relay" /\ relays = 0 /\ handler = "none"
  /\ isClientInitialized => handler # "none"
  /\ pc[Owner] = "joinRecv" => handler = "destroyed"
  /\ ~isClientInitialized \/ pc[Owner] = "startup" => startups = 0
  /\ ~isClientInitialized \/ pc[Owner] \in {"startup", "socket"} =>
       socket = "invalid"
  /\ pc[Owner] \in {"socket", "connect"} => startups = 1
  /\ Before => cleanups = 0
  /\ Starting => \A th \in Stoppers \ {Owner} : pc[th] = "none"

(* A thread that is about to clean up has closed the socket, and so has    *)
(* everyone who cleaned up before.                                         *)
ClosedFirst ==
  socket # "invalid" =>
    /\ startups = 1 /\ cleanups = 0
    /\ \A th \in Stoppers : pc[th] # "cleanup"

(* The owner has a node in hand while it starts or stops one, and a node   *)
(* that is about to send is within the bound.                              *)
InBounds ==
  /\ pc[Owner] \in {"setRelay", "run", "stopNode", "joinNode"} => built > 0
  /\ \A n \in Nodes : pc[n] = "fire" => sends[n] < MaxSends

(* A running node lacks its relay only while the owner is at work on it.   *)
RelaysKept ==
  \A n \in Nodes :
    /\ pc[n] \notin {"none", "ended"} /\ n \notin hasRelay =>
         n \notin Legacy /\ n = Program[built]
           /\ pc[Owner] \in {"setRelay", "joinNode"}
    /\ pc[n] = "crashed" => n \notin hasRelay

IInv ==
  /\ TypeOK /\ Labelled /\ StartedOnce /\ ClosedFirst /\ InBounds
  /\ AllPublished /\ RelaysKept

-----------------------------------------------------------------------------
(* Nodes are neither the owner nor the receive thread.                     *)
LEMMA Names ==
  /\ Stoppers = Nodes \cup {Owner, Recv}
  /\ Owner \notin Nodes /\ Recv \notin Nodes /\ Owner # Recv
  /\ Len(Program) \in Nat
  /\ \A i \in 1 .. Len(Program) : Program[i] \in Nodes
  /\ MaxRelays \in Nat \ {0} /\ MaxSends \in Nat
BY ClientAssumption DEF Stoppers, Owner, Recv, ClientAssumption

(* Before the first relay nothing has happened.                            *)
LEMMA InitIInv == Init => IInv
<1> SUFFICES ASSUME Init PROVE IInv
  OBVIOUS
<1>1. TypeOK
  <2>1. /\ {isClientInitialized, threadSet, stopRequested} \subseteq BOOLEAN
        /\ queuedFlag \in [Nodes -> BOOLEAN]
    BY DEF Init
  <2>2. /\ relays \in 0 .. MaxRelays /\ built \in 0 .. Len(Program)
        /\ sends \in [Nodes -> 0 .. MaxSends]
    BY Names DEF Init
  <2> QED BY <2>1, <2>2 DEF Init, TypeOK
<1>2. pc[Owner] = "relay" /\ \A th \in Stoppers \ {Owner} : pc[th] = "none"
  BY Names DEF Init
<1>3. StartedOnce /\ ClosedFirst /\ InBounds
  BY <1>2, Names DEF Init, StartedOnce, Before, Starting, ClosedFirst, InBounds
<1>4. AllPublished /\ RelaysKept
  BY <1>2, Names DEF Init, AllPublished, RelaysKept
<1>5. Labelled
  BY DEF Init, Labelled
<1> QED BY <1>1, <1>3, <1>4, <1>5 DEF IInv

-----------------------------------------------------------------------------
(* One lemma per part of the invariant: what a step of Next preserves.     *)

(* Every thread keeps a label.                                             *)
LEMMA Labelling == IInv /\ Next => Labelled'
<1> SUFFICES ASSUME IInv, Next PROVE Labelled'
  OBVIOUS
<1> USE Names DEF IInv, Goto, factoryVars, nodeVars, socketVars, threadVars,
                  sendVars, recvVars
<1>1. CASE InitializeClient \/ InitializeWSA \/ CreateSocket \/
           ConnectToServer \/ OpenServerRecvThread \/ AssignThread
  BY <1>1 DEF InitializeClient, InitializeWSA, CreateSocket, ConnectToServer,
           OpenServerRecvThread, AssignThread, Labelled
<1>2. CASE StartNode \/ SetClientBusRelay \/ EndProgram \/ DestroyProcess \/
           JoinNode \/ JoinRecv
  BY <1>2 DEF StartNode, SetClientBusRelay, EndProgram, DestroyProcess,
           JoinNode, JoinRecv, Labelled
<1>3. CASE RecvTop \/ CheckSocket \/ ReceiveFrame \/ ReceiveFails \/
           ReceiveInterrupted \/ Deliver \/ DeliverToDestroyed \/
           LockDestroyed
  BY <1>3 DEF RecvTop, CheckSocket, ReceiveFrame, ReceiveFails,
           ReceiveInterrupted, Deliver, DeliverToDestroyed, LockDestroyed,
           Labelled
<1>4. ASSUME NEW th \in Stoppers, RequestStop(th) \/ CloseSocket(th) \/
      Cleanup(th)
      PROVE  Labelled'
  BY <1>4 DEF RequestStop, CloseSocket, Cleanup, Labelled
<1>5. ASSUME NEW n \in Nodes, NodeFire(n) \/ Relay(n) \/ NodeEnd(n) \/
      SendOk(n) \/ SendBlocks(n) \/ SendFails(n) \/
      ConsumeMessageQueuedFlag(n)
      PROVE  Labelled'
  BY <1>5 DEF NodeFire, Relay, NodeEnd, SendOk, SendBlocks, SendFails,
           InSend,
           ConsumeMessageQueuedFlag, Labelled
<1>6. CASE LoseLink \/ StallLink
  BY <1>6 DEF LoseLink, StallLink, Labelled
<1> QED BY <1>1, <1>2, <1>3, <1>4, <1>5, <1>6 DEF Next, OwnerStep, RecvStep,
       NodeStep, StopClient

(* Types; the number of nodes built and of messages sent stay in bounds    *)
(* because of InBounds, the one call of WSAStartup because of StartedOnce. *)
LEMMA Typing == IInv /\ Next => TypeOK'
<1> SUFFICES ASSUME IInv, Next PROVE TypeOK'
  OBVIOUS
<1> USE Names DEF IInv, Goto, factoryVars, nodeVars, socketVars, threadVars,
                  sendVars, recvVars
<1>1. CASE InitializeClient
  BY <1>1 DEF InitializeClient, TypeOK
<1>2. CASE InitializeWSA
  BY <1>2 DEF InitializeWSA, TypeOK, StartedOnce
<1>3. CASE CreateSocket
  BY <1>3 DEF CreateSocket, TypeOK
<1>4. CASE ConnectToServer
  BY <1>4 DEF ConnectToServer, TypeOK
<1>5. CASE OpenServerRecvThread
  BY <1>5 DEF OpenServerRecvThread, TypeOK
<1>6. CASE AssignThread
  BY <1>6 DEF AssignThread, TypeOK
<1>7. CASE StartNode
  BY <1>7 DEF StartNode, TypeOK
<1>8. CASE SetClientBusRelay
  BY <1>8 DEF SetClientBusRelay, TypeOK, InBounds
<1>9. CASE EndProgram
  BY <1>9 DEF EndProgram, TypeOK
<1>10. CASE DestroyProcess
  BY <1>10 DEF DestroyProcess, TypeOK, InBounds
<1>11. CASE JoinNode
  BY <1>11 DEF JoinNode, TypeOK, InBounds
<1>12. CASE JoinRecv
  BY <1>12 DEF JoinRecv, TypeOK
<1>13. CASE RecvTop
  BY <1>13 DEF RecvTop, TypeOK
<1>14. CASE CheckSocket
  BY <1>14 DEF CheckSocket, TypeOK
<1>15. CASE ReceiveFrame
  BY <1>15 DEF ReceiveFrame, TypeOK
<1>16. CASE ReceiveFails
  BY <1>16 DEF ReceiveFails, TypeOK
<1>17. CASE ReceiveInterrupted
  BY <1>17 DEF ReceiveInterrupted, TypeOK
<1>18. CASE Deliver \/ DeliverToDestroyed \/ LockDestroyed
  BY <1>18 DEF Deliver, DeliverToDestroyed, LockDestroyed, TypeOK
<1>19. ASSUME NEW th \in Stoppers, RequestStop(th)
      PROVE  TypeOK'
  BY <1>19 DEF RequestStop, TypeOK
<1>20. ASSUME NEW th \in Stoppers, CloseSocket(th)
      PROVE  TypeOK'
  BY <1>20 DEF CloseSocket, TypeOK
<1>21. ASSUME NEW th \in Stoppers, Cleanup(th)
      PROVE  TypeOK'
  BY <1>21 DEF Cleanup, TypeOK
<1>22. ASSUME NEW n \in Nodes, NodeFire(n)
      PROVE  TypeOK'
  BY <1>22 DEF NodeFire, TypeOK
<1>23. ASSUME NEW n \in Nodes, Relay(n)
      PROVE  TypeOK'
  BY <1>23 DEF Relay, TypeOK, InBounds
<1>24. ASSUME NEW n \in Nodes, NodeEnd(n)
      PROVE  TypeOK'
  BY <1>24 DEF NodeEnd, TypeOK
<1>25. ASSUME NEW n \in Nodes, SendOk(n) \/ SendBlocks(n)
      PROVE  TypeOK'
  BY <1>25 DEF SendOk, SendBlocks, InSend, TypeOK
<1>26. ASSUME NEW n \in Nodes, SendFails(n)
      PROVE  TypeOK'
  BY <1>26 DEF SendFails, InSend, TypeOK
<1>27. ASSUME NEW n \in Nodes, ConsumeMessageQueuedFlag(n)
      PROVE  TypeOK'
  BY <1>27 DEF ConsumeMessageQueuedFlag, TypeOK
<1>28. CASE LoseLink \/ StallLink
  BY <1>28 DEF LoseLink, StallLink, TypeOK
<1> QED BY <1>1, <1>2, <1>3, <1>4, <1>5, <1>6, <1>7, <1>8, <1>9, <1>10, <1>11,
       <1>12, <1>13, <1>14, <1>15, <1>16, <1>17, <1>18, <1>19, <1>20, <1>21,
       <1>22, <1>23, <1>24, <1>25, <1>26, <1>27, <1>28 DEF Next, OwnerStep,
       RecvStep, NodeStep, StopClient

(* initializeClient runs once, and while it does it is alone.              *)
LEMMA Starts == IInv /\ Next => StartedOnce'
<1> SUFFICES ASSUME IInv, Next PROVE StartedOnce'
  OBVIOUS
<1> USE Names DEF IInv, Goto, factoryVars, nodeVars, socketVars, threadVars,
                  sendVars, recvVars
<1>1. CASE InitializeClient
  BY <1>1 DEF InitializeClient, StartedOnce, Before, Starting, Labelled
<1>2. CASE InitializeWSA
  <2>1. /\ isClientInitialized /\ handler # "none"
        /\ startups = 0 /\ cleanups = 0 /\ socket = "invalid"
        /\ \A th \in Stoppers \ {Owner} : pc[th] = "none"
    BY <1>2 DEF InitializeWSA, StartedOnce, Before, Starting
  <2>2. \A th \in Stoppers \ {Owner} : pc'[th] = pc[th]
    BY <1>2 DEF InitializeWSA, Labelled
  <2>3. \/ pc'[Owner] = "socket" /\ startups' = 1
        \/ pc'[Owner] = "open" /\ startups' = 0
    BY <1>2, <2>1 DEF InitializeWSA, Labelled
  <2> QED BY <1>2, <2>1, <2>2, <2>3 DEF InitializeWSA, StartedOnce, Before,
                                        Starting
<1>3. CASE CreateSocket
  BY <1>3 DEF CreateSocket, StartedOnce, Before, Starting, Labelled
<1>4. CASE ConnectToServer
  BY <1>4 DEF ConnectToServer, StartedOnce, Before, Starting, Labelled
<1>5. CASE OpenServerRecvThread
  BY <1>5 DEF OpenServerRecvThread, StartedOnce, Before, Starting, Labelled
<1>6. CASE AssignThread
  BY <1>6 DEF AssignThread, StartedOnce, Before, Starting, Labelled
<1>7. CASE StartNode \/ SetClientBusRelay \/ EndProgram \/ DestroyProcess \/
           JoinNode \/ JoinRecv
  BY <1>7 DEF StartNode, SetClientBusRelay, EndProgram, DestroyProcess,
           JoinNode, JoinRecv, StartedOnce, Before, Starting, Labelled
<1>8. CASE RecvTop \/ CheckSocket \/ ReceiveFrame \/ ReceiveFails \/
           ReceiveInterrupted \/ Deliver \/ DeliverToDestroyed \/
           LockDestroyed
  BY <1>8 DEF RecvTop, CheckSocket, ReceiveFrame, ReceiveFails,
           ReceiveInterrupted, Deliver, DeliverToDestroyed, LockDestroyed,
           StartedOnce, Before, Starting,
           Labelled
<1>9. ASSUME NEW th \in Stoppers, RequestStop(th)
      PROVE  StartedOnce'
  BY <1>9 DEF RequestStop, StartedOnce, Before, Starting, Labelled
<1>10. ASSUME NEW th \in Stoppers, CloseSocket(th)
      PROVE  StartedOnce'
  BY <1>10 DEF CloseSocket, StartedOnce, Before, Starting, Labelled
<1>11. ASSUME NEW th \in Stoppers, Cleanup(th)
      PROVE  StartedOnce'
  BY <1>11 DEF Cleanup, StartedOnce, Before, Starting, Labelled
<1>12. ASSUME NEW n \in Nodes, NodeFire(n) \/ Relay(n) \/ NodeEnd(n) \/
      SendOk(n) \/ SendBlocks(n) \/ SendFails(n) \/
      ConsumeMessageQueuedFlag(n)
      PROVE  StartedOnce'
  BY <1>12 DEF NodeFire, Relay, NodeEnd, SendOk, SendBlocks, SendFails,
           InSend,
           ConsumeMessageQueuedFlag, StartedOnce, Before, Starting, Labelled
<1>13. CASE LoseLink \/ StallLink
  BY <1>13 DEF LoseLink, StallLink, StartedOnce, Before, Starting, Labelled
<1> QED BY <1>1, <1>2, <1>3, <1>4, <1>5, <1>6, <1>7, <1>8, <1>9, <1>10, <1>11,
       <1>12, <1>13 DEF Next, OwnerStep, RecvStep, NodeStep, StopClient

(* A socket is created before anybody can have cleaned up, and closed by   *)
(* each thread before it cleans up.                                        *)
LEMMA Closes == IInv /\ Next => ClosedFirst'
<1> SUFFICES ASSUME IInv, Next PROVE ClosedFirst'
  OBVIOUS
<1> USE Names DEF IInv, Goto, factoryVars, nodeVars, socketVars, threadVars,
                  sendVars, recvVars
<1>1. CASE InitializeClient \/ InitializeWSA \/ CreateSocket \/
           ConnectToServer \/ OpenServerRecvThread \/ AssignThread
  BY <1>1 DEF InitializeClient, InitializeWSA, CreateSocket, ConnectToServer,
           OpenServerRecvThread, AssignThread, ClosedFirst, StartedOnce,
           Before, Starting, Labelled
<1>2. CASE StartNode \/ SetClientBusRelay \/ EndProgram \/ DestroyProcess \/
           JoinNode \/ JoinRecv
  BY <1>2 DEF StartNode, SetClientBusRelay, EndProgram, DestroyProcess,
           JoinNode, JoinRecv, ClosedFirst, Labelled
<1>3. CASE RecvTop \/ CheckSocket \/ ReceiveFrame \/ ReceiveFails \/
           ReceiveInterrupted \/ Deliver \/ DeliverToDestroyed \/
           LockDestroyed
  BY <1>3 DEF RecvTop, CheckSocket, ReceiveFrame, ReceiveFails,
           ReceiveInterrupted, Deliver, DeliverToDestroyed, LockDestroyed,
           ClosedFirst, Labelled
<1>4. ASSUME NEW th \in Stoppers, RequestStop(th)
      PROVE  ClosedFirst'
  BY <1>4 DEF RequestStop, ClosedFirst, Labelled
<1>5. ASSUME NEW th \in Stoppers, CloseSocket(th)
      PROVE  ClosedFirst'
  BY <1>5 DEF CloseSocket, ClosedFirst, Labelled
<1>6. ASSUME NEW th \in Stoppers, Cleanup(th)
      PROVE  ClosedFirst'
  BY <1>6 DEF Cleanup, ClosedFirst, Labelled
<1>7. ASSUME NEW n \in Nodes, NodeFire(n) \/ Relay(n) \/ NodeEnd(n) \/
      SendOk(n) \/ SendBlocks(n) \/ SendFails(n) \/
      ConsumeMessageQueuedFlag(n)
      PROVE  ClosedFirst'
  BY <1>7 DEF NodeFire, Relay, NodeEnd, SendOk, SendBlocks, SendFails,
           InSend,
           ConsumeMessageQueuedFlag, ClosedFirst, Labelled
<1>8. CASE LoseLink \/ StallLink
  BY <1>8 DEF LoseLink, StallLink, ClosedFirst, Labelled
<1> QED BY <1>1, <1>2, <1>3, <1>4, <1>5, <1>6, <1>7, <1>8 DEF Next, OwnerStep,
       RecvStep, NodeStep, StopClient

(* The owner's steps keep a node in hand.                                  *)
LEMMA Bounds == IInv /\ Next => InBounds'
<1> SUFFICES ASSUME IInv, Next PROVE InBounds'
  OBVIOUS
<1> USE Names DEF IInv, Goto, factoryVars, nodeVars, socketVars, threadVars,
                  sendVars, recvVars
<1>1. CASE InitializeClient \/ InitializeWSA \/ CreateSocket \/
           ConnectToServer \/ OpenServerRecvThread \/ AssignThread
  BY <1>1 DEF InitializeClient, InitializeWSA, CreateSocket, ConnectToServer,
           OpenServerRecvThread, AssignThread, InBounds, Labelled
<1>2. CASE StartNode
  <2>1. Program[built + 1] \in Nodes /\ built \in Nat
    BY <1>2 DEF StartNode, TypeOK
  <2>2. \A n \in Nodes : pc'[n] = "fire" => pc[n] = "fire"
    BY <1>2, <2>1 DEF StartNode, Labelled
  <2>3. built' > 0 /\ sends' = sends
    BY <1>2, <2>1 DEF StartNode
  <2> QED BY <2>2, <2>3 DEF InBounds
<1>3. CASE SetClientBusRelay
  BY <1>3 DEF SetClientBusRelay, InBounds, Labelled
<1>4. CASE EndProgram
  BY <1>4 DEF EndProgram, InBounds, Labelled
<1>5. CASE DestroyProcess
  BY <1>5 DEF DestroyProcess, InBounds, Labelled
<1>6. CASE JoinNode
  BY <1>6 DEF JoinNode, InBounds, Labelled, TypeOK
<1>7. CASE JoinRecv
  BY <1>7 DEF JoinRecv, InBounds, Labelled
<1>8. CASE RecvTop
  BY <1>8 DEF RecvTop, InBounds, Labelled
<1>9. CASE CheckSocket
  BY <1>9 DEF CheckSocket, InBounds, Labelled
<1>10. CASE ReceiveFrame
  BY <1>10 DEF ReceiveFrame, InBounds, Labelled
<1>11. CASE ReceiveFails
  BY <1>11 DEF ReceiveFails, InBounds, Labelled
<1>12. CASE ReceiveInterrupted
  BY <1>12 DEF ReceiveInterrupted, InBounds, Labelled
<1>13. CASE Deliver \/ DeliverToDestroyed \/ LockDestroyed
  BY <1>13 DEF Deliver, DeliverToDestroyed, LockDestroyed, InBounds, Labelled
<1>14. ASSUME NEW th \in Stoppers, RequestStop(th) \/ CloseSocket(th) \/
      Cleanup(th)
      PROVE  InBounds'
  BY <1>14 DEF RequestStop, CloseSocket, Cleanup, InBounds, Labelled
<1>15. ASSUME NEW n \in Nodes, NodeFire(n) \/ Relay(n) \/ NodeEnd(n) \/
      SendOk(n) \/ SendBlocks(n) \/ SendFails(n) \/
      ConsumeMessageQueuedFlag(n)
      PROVE  InBounds'
  BY <1>15 DEF NodeFire, Relay, NodeEnd, SendOk, SendBlocks, SendFails,
           InSend,
           ConsumeMessageQueuedFlag, InBounds, Labelled, TypeOK
<1>16. CASE LoseLink \/ StallLink
  BY <1>16 DEF LoseLink, StallLink, InBounds, Labelled
<1> QED BY <1>1, <1>2, <1>3, <1>4, <1>5, <1>6, <1>7, <1>8, <1>9, <1>10, <1>11,
       <1>12, <1>13, <1>14, <1>15, <1>16 DEF Next, OwnerStep, RecvStep,
       NodeStep, StopClient

(* A message is counted as received when it is taken, and published by the *)
(* next step unless the handler is gone: there is one, as a receive thread *)
(* runs only after the start.                                              *)
LEMMA Publishes == IInv /\ Next => AllPublished'
<1> SUFFICES ASSUME IInv, Next PROVE AllPublished'
  OBVIOUS
<1> USE Names DEF IInv, Goto, factoryVars, nodeVars, socketVars, threadVars,
                  sendVars, recvVars
<1>0. fault = "none"
  BY DEF Next, Stopped
<1>1. CASE InitializeClient \/ InitializeWSA \/ CreateSocket \/
           ConnectToServer \/ OpenServerRecvThread \/ AssignThread
  BY <1>0, <1>1
     DEF InitializeClient, InitializeWSA, CreateSocket, ConnectToServer,
           OpenServerRecvThread, AssignThread, AllPublished, StartedOnce,
           Before, Starting, Labelled
<1>2. CASE StartNode
  <2>1. Program[built + 1] \in Nodes
    BY <1>0, <1>2 DEF StartNode, TypeOK
  <2>2. pc'[Recv] = pc[Recv]
    BY <1>2, <2>1 DEF StartNode, Labelled
  <2> QED BY <1>0, <1>2, <2>2 DEF StartNode, AllPublished
<1>3. CASE SetClientBusRelay
  BY <1>0, <1>3 DEF SetClientBusRelay, AllPublished, Labelled
<1>4. CASE EndProgram
  BY <1>0, <1>4 DEF EndProgram, AllPublished, Labelled
<1>5. CASE DestroyProcess
  BY <1>0, <1>5 DEF DestroyProcess, AllPublished, Labelled
<1>6. CASE JoinNode
  BY <1>0, <1>6 DEF JoinNode, AllPublished, Labelled
<1>7. CASE JoinRecv
  BY <1>0, <1>7 DEF JoinRecv, AllPublished, Labelled
<1>8. CASE RecvTop
  BY <1>0, <1>8 DEF RecvTop, AllPublished, Labelled
<1>9. CASE CheckSocket
  BY <1>0, <1>9 DEF CheckSocket, AllPublished, Labelled
<1>10. CASE ReceiveFrame
  BY <1>0, <1>10 DEF ReceiveFrame, AllPublished, Labelled, TypeOK
<1>11. CASE ReceiveFails
  BY <1>0, <1>11 DEF ReceiveFails, AllPublished, Labelled
<1>12. CASE ReceiveInterrupted
  BY <1>0, <1>12 DEF ReceiveInterrupted, AllPublished, Labelled, TypeOK
<1>13. CASE Deliver \/ DeliverToDestroyed \/ LockDestroyed
  <2>1. CASE Deliver
    <3>1. handler = "alive"
      BY <2>1 DEF Deliver, StartedOnce, Before, Starting, TypeOK
    <3>2. pc[Recv] = "deliver" /\ pc'[Recv] = "top"
      BY <2>1 DEF Deliver, Labelled
    <3>3. received = published + 1 /\ published' = published + 1
      BY <2>1, <3>1, <3>2 DEF Deliver, AllPublished, TypeOK
    <3> QED BY <1>0, <2>1, <3>2, <3>3 DEF Deliver, AllPublished, TypeOK
  <2>2. CASE DeliverToDestroyed
    BY <2>2 DEF DeliverToDestroyed, AllPublished
  <2>3. CASE LockDestroyed
    BY <2>3 DEF LockDestroyed, AllPublished, StartedOnce
  <2> QED BY <1>13, <2>1, <2>2, <2>3
<1>14. ASSUME NEW th \in Stoppers, RequestStop(th) \/ CloseSocket(th) \/
      Cleanup(th)
      PROVE  AllPublished'
  BY <1>0, <1>14 DEF RequestStop, CloseSocket, Cleanup, AllPublished, Labelled
<1>15. ASSUME NEW n \in Nodes, NodeFire(n) \/ Relay(n) \/ NodeEnd(n) \/
      SendOk(n) \/ SendBlocks(n) \/ SendFails(n) \/
      ConsumeMessageQueuedFlag(n)
      PROVE  AllPublished'
  BY <1>0, <1>15 DEF NodeFire, Relay, NodeEnd, SendOk, SendBlocks, SendFails,
           InSend,
           ConsumeMessageQueuedFlag, AllPublished, Labelled
<1>16. CASE LoseLink \/ StallLink
  BY <1>0, <1>16 DEF LoseLink, StallLink, AllPublished, Labelled
<1> QED BY <1>1, <1>2, <1>3, <1>4, <1>5, <1>6, <1>7, <1>8, <1>9, <1>10, <1>11,
       <1>12, <1>13, <1>14, <1>15, <1>16 DEF Next, OwnerStep, RecvStep,
       NodeStep, StopClient

(* A node gets its relay before the owner leaves it, and keeps it until    *)
(* the owner comes back; JoinNode finds it ended.                          *)
LEMMA Keeps == IInv /\ Next => RelaysKept'
<1> SUFFICES ASSUME IInv, Next PROVE RelaysKept'
  OBVIOUS
<1> USE Names DEF IInv, Goto, factoryVars, nodeVars, socketVars, threadVars,
                  sendVars, recvVars
<1>1. CASE InitializeClient \/ InitializeWSA \/ CreateSocket \/
           ConnectToServer \/ OpenServerRecvThread \/ AssignThread
  BY <1>1 DEF InitializeClient, InitializeWSA, CreateSocket, ConnectToServer,
           OpenServerRecvThread, AssignThread, RelaysKept, Labelled
<1>2. CASE StartNode
  BY <1>2 DEF StartNode, RelaysKept, Labelled, TypeOK
<1>3. CASE SetClientBusRelay
  <2>1. \A n \in Nodes : pc'[n] = pc[n]
    BY <1>3 DEF SetClientBusRelay, Labelled
  <2>2. \A n \in Nodes : pc[n] # "crashed"
    BY DEF Next, Stopped, Crashed
  <2>3. \A n \in Nodes \ hasRelay' : n \notin hasRelay /\ n # Program[built]
    BY <1>3 DEF SetClientBusRelay
  <2> QED BY <2>1, <2>2, <2>3 DEF RelaysKept
<1>4. CASE EndProgram
  BY <1>4 DEF EndProgram, RelaysKept, Labelled
<1>5. CASE DestroyProcess
  BY <1>5 DEF DestroyProcess, RelaysKept, Labelled, InBounds, TypeOK
<1>6. CASE JoinNode
  BY <1>6 DEF JoinNode, RelaysKept, Labelled, InBounds, TypeOK
<1>7. CASE JoinRecv
  BY <1>7 DEF JoinRecv, RelaysKept, Labelled
<1>8. CASE RecvTop \/ CheckSocket \/ ReceiveFrame \/ ReceiveFails \/
           ReceiveInterrupted \/ Deliver \/ DeliverToDestroyed \/
           LockDestroyed
  BY <1>8 DEF RecvTop, CheckSocket, ReceiveFrame, ReceiveFails,
           ReceiveInterrupted, Deliver, DeliverToDestroyed, LockDestroyed,
           RelaysKept, Labelled
<1>9. ASSUME NEW th \in Stoppers, RequestStop(th) \/ CloseSocket(th) \/
      Cleanup(th)
      PROVE  RelaysKept'
  BY <1>9 DEF RequestStop, CloseSocket, Cleanup, RelaysKept, Labelled
<1>10. ASSUME NEW n \in Nodes, NodeFire(n)
      PROVE  RelaysKept'
  BY <1>10 DEF NodeFire, RelaysKept, Labelled
<1>11. ASSUME NEW n \in Nodes, Relay(n)
      PROVE  RelaysKept'
  BY <1>11 DEF Relay, RelaysKept, Labelled
<1>12. ASSUME NEW n \in Nodes, NodeEnd(n)
      PROVE  RelaysKept'
  BY <1>12 DEF NodeEnd, RelaysKept, Labelled
<1>13. ASSUME NEW n \in Nodes, SendOk(n) \/ SendBlocks(n)
      PROVE  RelaysKept'
  BY <1>13 DEF SendOk, SendBlocks, InSend, RelaysKept, Labelled
<1>14. ASSUME NEW n \in Nodes, SendFails(n)
      PROVE  RelaysKept'
  BY <1>14 DEF SendFails, InSend, RelaysKept, Labelled
<1>15. ASSUME NEW n \in Nodes, ConsumeMessageQueuedFlag(n)
      PROVE  RelaysKept'
  BY <1>15 DEF ConsumeMessageQueuedFlag, RelaysKept, Labelled
<1>16. CASE LoseLink \/ StallLink
  BY <1>16 DEF LoseLink, StallLink, RelaysKept, Labelled
<1> QED BY <1>1, <1>2, <1>3, <1>4, <1>5, <1>6, <1>7, <1>8, <1>9, <1>10, <1>11,
       <1>12, <1>13, <1>14, <1>15, <1>16 DEF Next, OwnerStep, RecvStep,
       NodeStep, StopClient

-----------------------------------------------------------------------------
(* The conjunction of the parts holds in every behaviour of any program.   *)
THEOREM InductiveInvariant == Spec => []IInv
<1>1. IInv /\ [Next]_vars => IInv'
  <2> SUFFICES ASSUME IInv, [Next]_vars PROVE IInv'
    OBVIOUS
  <2>1. CASE Next
    BY <2>1, Labelling, Typing, Starts, Closes, Bounds, Publishes, Keeps
       DEF IInv
  <2>2. CASE UNCHANGED vars
    <3> USE <2>2 DEF vars, factoryVars, nodeVars, socketVars, threadVars,
                     sendVars, recvVars
    <3>1. TypeOK' /\ Labelled' /\ InBounds'
      <4>1. TypeOK'
        BY DEF IInv, TypeOK
      <4>2. Labelled' /\ InBounds'
        BY DEF IInv, Labelled, InBounds
      <4> QED BY <4>1, <4>2
    <3>2. StartedOnce' /\ ClosedFirst'
      BY DEF IInv, StartedOnce, Before, Starting, ClosedFirst
    <3>3. AllPublished' /\ RelaysKept'
      <4>1. AllPublished'
        BY DEF IInv, AllPublished
      <4>2. RelaysKept'
        BY DEF IInv, RelaysKept
      <4> QED BY <4>1, <4>2
    <3> QED BY <3>1, <3>2, <3>3 DEF IInv
  <2> QED BY <2>1, <2>2
<1> QED BY InitIInv, <1>1, PTL DEF Spec

(* wsa_client.cpp: whoever fails closes the socket and calls WSACleanup,   *)
(* so the library is never shut down under an open one.                    *)
THEOREM OpenSocketsStartedUp == Spec => []OpenMeansStartedUp
<1>1. IInv => OpenMeansStartedUp
  BY DEF IInv, ClosedFirst, OpenMeansStartedUp
<1> QED BY <1>1, InductiveInvariant, PTL

(* network_factory.cpp: the handler has its bus before the client starts,   *)
(* so no message that is received is lost while the handler exists.        *)
THEOREM ReceivedIsPublished == Spec => []AllPublished
<1>1. IInv => AllPublished
  BY DEF IInv
<1> QED BY <1>1, InductiveInvariant, PTL

(* network_node.h: nodes run without their relay only around construction  *)
(* and destruction, and legacy nodes never.                                *)
THEOREM RelaysFound == Spec => []RelayFound
<1>1. IInv => RelayFound
  BY DEF IInv, RelaysKept, RelayFound
<1> QED BY <1>1, InductiveInvariant, PTL
-----------------------------------------------------------------------------
(***************************************************************************)
(* Message frames.                                                         *)
(***************************************************************************)

(* The bytes that have been sent and are not part of a payload yet.        *)
Unread == buffer \o stream

(* The payloads of q that a sender sent, and how many were delivered.      *)
SentBy(q, s) == {j \in 1 .. Len(q) : q[j][1].frame[1] = s}
Taken(s) == Cardinality(SentBy(delivered, s))

(* The types, with those of the receiver's buffer. A frame is begun by the *)
(* only sender, and less than all of it is given.                          *)
FramingTypes ==
  /\ FramingTypeOK
  /\ users # {}
  /\ interrupts \in Nat
  /\ buffer \in Seq(Bytes)
  /\ recvCount < length
  /\ reading = "prepend" => length = PrependLength
  /\ \A s \in Senders :
       sentCount[s] > 0 =>
         /\ users = {s}
         /\ current[s] <= MaxFrames
         /\ sentCount[s] < FullSize(<<s, current[s]>>)

(* The frames reported though a byte of them was not given, one for each   *)
(* interrupted call.                                                       *)
Missing ==
  {f \in reported : ~(ToSet(Slice(f, 0, FullSize(f))) \subseteq written)}
QueuedInv ==
  /\ \A s \in Senders : \A p \in 1 .. sentCount[s] :
       [frame |-> <<s, current[s]>>, pos |-> p] \in written
  /\ IsFiniteSet(Missing) /\ Cardinality(Missing) <= interrupts

(* A byte is followed by the next of its frame, the last one by the first  *)
(* of another, and those of a sender are in order.                         *)
Runs(q) ==
  \A i \in 1 .. Len(q) : \A d \in 0 .. FullSize(q[i].frame) - q[i].pos :
    i + d <= Len(q) => q[i + d] = [frame |-> q[i].frame, pos |-> q[i].pos + d]
Joints(q) ==
  \A i \in 1 .. Len(q) - 1 :
    q[i].pos = FullSize(q[i].frame) => q[i + 1].pos = 1
Ordered(q) ==
  \A i, j \in 1 .. Len(q) :
    i < j /\ q[i].frame[1] = q[j].frame[1] =>
      \/ q[i].frame[2] < q[j].frame[2]
      \/ q[i].frame = q[j].frame /\ q[i].pos < q[j].pos

(* The last byte given of a frame begun; the bytes given so far.           *)
Partial(s) == [frame |-> <<s, current[s]>>, pos |-> sentCount[s]]
GivenOut(b) ==
  LET s == b.frame[1]
  IN  \/ b.frame[2] < current[s]
      \/ b.frame[2] = current[s] /\ b.pos <= sentCount[s]

(* What is unread has been given, and belongs to a frame not delivered.    *)
InRange ==
  \A i \in 1 .. Len(Unread) :
    /\ Unread[i].pos <= FullSize(Unread[i].frame)
    /\ Taken(Unread[i].frame[1]) < Unread[i].frame[2]
    /\ GivenOut(Unread[i])

(* It ends with a frame, or with the part of the one begun.                *)
LastFits ==
  Len(Unread) > 0 =>
    LET b == Unread[Len(Unread)]
    IN  /\ \/ b.pos = FullSize(b.frame)
           \/ \E s \in Senders : sentCount[s] > 0 /\ b = Partial(s)
        /\ \A s \in Senders : sentCount[s] > 0 => b = Partial(s)

(* It begins where the receiver expects it, which knows the length.        *)
FirstFits ==
  IF Len(Unread) > 0
  THEN /\ Unread[1].pos = IF reading = "prepend" THEN 1 ELSE PrependLength + 1
       /\ reading = "payload" => length = PayloadSize(Unread[1].frame)
  ELSE IF reading = "prepend" THEN \A s \in Senders : sentCount[s] = 0
  ELSE \E s \in Senders : /\ sentCount[s] = PrependLength
                          /\ length = PayloadSize(<<s, current[s]>>)

(* All frames given whole and not delivered are in it.                     *)
Complete ==
  \A s \in Senders :
    /\ Taken(s) < current[s]
    /\ \A k \in 1 .. MaxFrames :
         Taken(s) < k /\ k < current[s] =>
           \E i \in 1 .. Len(Unread) : Unread[i].frame = <<s, k>>

(* The k-th payload is the next of its sender.                             *)
IsNext(d, k, f) ==
  /\ d[k] = Payload(f)
  /\ f[2] = Cardinality({j \in 1 .. k : d[j][1].frame[1] = f[1]})
Whole(d) == \A k \in 1 .. Len(d) : \E f \in Frames : IsNext(d, k, f)
DeliveredWhole == Whole(delivered)

(* The second invariant, which holds until a call is interrupted.          *)
Aligned ==
  /\ Runs(Unread) /\ Joints(Unread) /\ Ordered(Unread)
  /\ InRange /\ LastFits /\ FirstFits /\ Complete /\ DeliveredWhole
StreamInv == interrupts = 0 => Aligned

-----------------------------------------------------------------------------
(* A frame holds a byte at least besides its length.                       *)
LEMMA Sizes ==
  ASSUME NEW f \in Frames
  PROVE  /\ PayloadSize(f) \in Nat /\ PayloadSize(f) > 0
         /\ FullSize(f) \in Nat /\ FullSize(f) = PayloadSize(f) + PrependLength
         /\ PrependLength \in Nat /\ PrependLength > 0
<1>1. Message(f) \in Messages /\ PrependLength \in Nat /\ PrependLength > 0
  BY FramingAssumption, SerDesAssumption
<1>2. /\ Len(Message(f).source) \in Nat
      /\ Len(Message(f).payload) \in Nat
  BY <1>1 DEF Messages
<1>3. PayloadSize(f) =
        4 * PrependLength + Len(Message(f).source) + Len(Message(f).payload) + 2
  BY <1>1, <1>2 DEF PayloadSize, SerializedSize, GetSerializedSize
<1> DEFINE a == Len(Message(f).source)
           b == Len(Message(f).payload)
<1>4. PayloadSize(f) = 4 * PrependLength + a + b + 2 /\ a \in Nat /\ b \in Nat
  BY <1>2, <1>3
<1> HIDE DEF a, b
<1>5. PayloadSize(f) \in Nat /\ PayloadSize(f) > 0
  BY <1>1, <1>4
<1> QED BY <1>1, <1>5 DEF FullSize

(* The bytes of a frame that a call is given.                              *)
LEMMA Pieces ==
  ASSUME NEW f \in Frames, NEW from \in Nat, NEW n \in Nat
  PROVE  /\ Slice(f, from, n) \in Seq(Bytes) /\ Len(Slice(f, from, n)) = n
         /\ \A i \in 1 .. n :
              Slice(f, from, n)[i] = [frame |-> f, pos |-> from + i]
<1>1. \A i \in 1 .. n : [frame |-> f, pos |-> from + i] \in Bytes
  BY DEF Bytes
<1> QED BY <1>1 DEF Slice

(* The frame a sender sends and how much of it is left.                    *)
LEMMA Rest ==
  ASSUME FramingTypes, NEW s \in users, current[s] <= MaxFrames
  PROVE  /\ <<s, current[s]>> \in Frames
         /\ sentCount[s] \in Nat /\ current[s] \in Nat /\ current[s] > 0
         /\ FullSize(<<s, current[s]>>) \in Nat
         /\ sentCount[s] < FullSize(<<s, current[s]>>)
         /\ sentCount[s] > 0 => users = {s}
<1>1. s \in Senders /\ current[s] \in 1 .. MaxFrames /\ sentCount[s] \in Nat
  BY FramingAssumption DEF FramingTypes, FramingTypeOK
<1>2. <<s, current[s]>> \in Frames
  BY <1>1 DEF Frames
<1>3. /\ FullSize(<<s, current[s]>>) \in Nat
      /\ FullSize(<<s, current[s]>>) > 0
  BY <1>2, Sizes
<1> QED BY <1>1, <1>2, <1>3, FramingAssumption DEF FramingTypes

(* A call takes a part of what it is given only where one thread sends.    *)
LEMMA Given ==
  ASSUME NEW given \in Nat, given > 0, NEW n \in Takes(given)
  PROVE  n \in 1 .. given /\ (n < given => Cardinality(users) = 1)
  BY DEF Takes

(* Nothing is sent or received yet.                                        *)
LEMMA TypesInit == FramingInit => FramingTypes /\ QueuedInv
<1> SUFFICES ASSUME FramingInit PROVE FramingTypes /\ QueuedInv
  OBVIOUS
<1>1. FramingTypes
  <2>1. MaxFrames \in Nat /\ Capacity \in Nat /\ MaxInterrupts \in Nat
        /\ PrependLength \in Nat /\ PrependLength > 0
    BY FramingAssumption, SerDesAssumption
  <2>2. /\ users \subseteq Senders /\ users # {} /\ reported = {}
        /\ written = {} /\ interrupts = 0
        /\ current \in [Senders -> 1 .. MaxFrames + 1]
        /\ sentCount \in [Senders -> Nat]
        /\ \A s \in Senders : sentCount[s] = 0
    BY <2>1 DEF FramingInit
  <2>3. /\ stream \in Seq(Bytes) /\ Len(stream) <= Capacity
        /\ delivered \in Seq(Seq(Bytes)) /\ buffer = <<>>
        /\ reading = "prepend" /\ length = PrependLength /\ recvCount = 0
        /\ overrun = "none"
    BY <2>1 DEF FramingInit
  <2>4. FramingTypeOK
    BY <2>1, <2>2, <2>3 DEF FramingTypeOK
  <2> QED BY <2>1, <2>2, <2>3, <2>4 DEF FramingTypes
<1>2. QueuedInv
  <2>1. Missing = {}
    BY DEF FramingInit, Missing
  <2> QED BY <2>1, FS_EmptySet DEF FramingInit, QueuedInv
<1> QED BY <1>1, <1>2

(* A send() leaves a frame begun or ends it.                               *)
LEMMA SentTypes ==
  ASSUME FramingTypes, NEW s \in users, current[s] <= MaxFrames,
         NEW count \in Int, count <= FullSize(<<s, current[s]>>),
         0 < count /\ count < FullSize(<<s, current[s]>>) => users = {s},
         Sent(s, count), UNCHANGED users
  PROVE  /\ current' \in [Senders -> 1 .. MaxFrames + 1]
         /\ sentCount' \in [Senders -> Nat]
         /\ reported' \subseteq Frames
         /\ \A t \in Senders :
              sentCount'[t] > 0 =>
                /\ users = {t}
                /\ current'[t] <= MaxFrames
                /\ sentCount'[t] < FullSize(<<t, current'[t]>>)
<1>1. /\ current \in [Senders -> 1 .. MaxFrames + 1]
      /\ sentCount \in [Senders -> Nat]
      /\ reported \subseteq Frames /\ users \subseteq Senders
      /\ \A t \in Senders :
           sentCount[t] > 0 =>
             /\ users = {t}
             /\ current[t] <= MaxFrames
             /\ sentCount[t] < FullSize(<<t, current[t]>>)
  BY DEF FramingTypes, FramingTypeOK
<1>2. /\ <<s, current[s]>> \in Frames /\ s \in Senders /\ MaxFrames \in Nat
      /\ FullSize(<<s, current[s]>>) \in Nat
  BY <1>1, Rest, FramingAssumption
<1>3. CASE Below(count, FullSize(<<s, current[s]>>))
  <2>1. /\ sentCount' = [sentCount EXCEPT ![s] = count]
        /\ UNCHANGED <<current, reported>>
        /\ 0 <= count /\ count < FullSize(<<s, current[s]>>)
    BY <1>3 DEF Sent, Below
  <2> QED BY <2>1, <1>1, <1>2
<1>4. CASE ~Below(count, FullSize(<<s, current[s]>>))
  <2>1. /\ sentCount' = [sentCount EXCEPT ![s] = 0]
        /\ current' = [current EXCEPT ![s] = @ + 1]
        /\ reported' = reported \cup {<<s, current[s]>>}
    BY <1>4 DEF Sent
  <2>2. \A t \in Senders :
          sentCount'[t] > 0 =>
            t # s /\ sentCount'[t] = sentCount[t] /\ current'[t] = current[t]
    BY <2>1, <1>1
  <2>3. /\ current' \in [Senders -> 1 .. MaxFrames + 1]
        /\ sentCount' \in [Senders -> Nat]
        /\ reported' \subseteq Frames
    BY <2>1, <1>1, <1>2
  <2>4. \A t \in Senders :
          sentCount'[t] > 0 =>
            /\ users = {t}
            /\ current'[t] <= MaxFrames
            /\ sentCount'[t] < FullSize(<<t, current'[t]>>)
    BY <2>2, <1>1
  <2> QED BY <2>3, <2>4
<1> QED BY <1>3, <1>4

(* A send() takes bytes, and the types stay.                               *)
LEMMA SendTypes ==
  ASSUME FramingTypes, NEW s \in users, Send(s)
  PROVE  /\ FramingTypes'
         /\ \E n \in 1 .. FullSize(<<s, current[s]>>) - sentCount[s] :
              /\ current[s] <= MaxFrames
              /\ stream' = stream \o Slice(<<s, current[s]>>, sentCount[s], n)
              /\ written' = written \cup
                   ToSet(Slice(<<s, current[s]>>, sentCount[s], n))
              /\ Sent(s, sentCount[s] + n)
              /\ UNCHANGED <<users, receiverVars, interrupts, overrun>>
              /\ sentCount[s] + n < FullSize(<<s, current[s]>>) => users = {s}
<1> DEFINE f == <<s, current[s]>>
<1>1. PICK n \in Takes(FullSize(f) - sentCount[s]) :
        /\ current[s] <= MaxFrames
        /\ Len(stream) + n <= Capacity
        /\ stream' = stream \o Slice(f, sentCount[s], n)
        /\ written' = written \cup ToSet(Slice(f, sentCount[s], n))
        /\ Sent(s, sentCount[s] + n)
        /\ UNCHANGED <<users, receiverVars, interrupts, overrun>>
  BY Zenon DEF Send, Serializes
<1>2. /\ f \in Frames /\ sentCount[s] \in Nat /\ FullSize(f) \in Nat
      /\ sentCount[s] < FullSize(f)
  BY <1>1, Rest
<1>3. /\ users \subseteq Senders /\ users # {} /\ IsFiniteSet(users)
  BY FramingAssumption, FS_Subset DEF FramingTypes, FramingTypeOK
<1> HIDE DEF f
<1>4. /\ n \in 1 .. FullSize(f) - sentCount[s]
      /\ sentCount[s] + n < FullSize(f) => Cardinality(users) = 1
  BY <1>2, Given
<1>5. Cardinality(users) = 1 => users = {s}
  BY <1>3, FS_Singleton
<1>6. n \in Nat /\ sentCount[s] + n \in Int /\ sentCount[s] + n <= FullSize(f)
  BY <1>2, <1>4
<1>7. sentCount[s] + n < FullSize(f) => users = {s}
  BY <1>4, <1>5
<1>8. /\ current' \in [Senders -> 1 .. MaxFrames + 1]
      /\ sentCount' \in [Senders -> Nat]
      /\ reported' \subseteq Frames
      /\ \A t \in Senders :
           sentCount'[t] > 0 =>
             /\ users = {t}
             /\ current'[t] <= MaxFrames
             /\ sentCount'[t] < FullSize(<<t, current'[t]>>)
  BY <1>1, <1>6, <1>7, SentTypes DEF f
<1>9. /\ stream' \in Seq(Bytes) /\ Len(stream') <= Capacity
      /\ written' \subseteq Bytes
  <2>1. /\ Slice(f, sentCount[s], n) \in Seq(Bytes)
        /\ Len(Slice(f, sentCount[s], n)) = n
    BY <1>2, <1>6, Pieces
  <2>2. ToSet(Slice(f, sentCount[s], n)) \subseteq Bytes
    BY <2>1 DEF ToSet
  <2>3. stream \in Seq(Bytes) /\ written \subseteq Bytes
    BY DEF FramingTypes, FramingTypeOK
  <2>4. /\ Len(stream \o Slice(f, sentCount[s], n)) = Len(stream) + n
        /\ stream \o Slice(f, sentCount[s], n) \in Seq(Bytes)
    BY <2>1, <2>3
  <2> QED BY <1>1, <2>2, <2>3, <2>4
<1>10. FramingTypes'
  BY <1>1, <1>8, <1>9 DEF FramingTypes, FramingTypeOK, receiverVars
<1> QED BY <1>1, <1>4, <1>7, <1>10 DEF f

(* So they do when it takes none.                                          *)
LEMMA InterruptTypes ==
  ASSUME FramingTypes, NEW s \in users, SendInterrupted(s)
  PROVE  FramingTypes'
<1>1. /\ interrupts' = interrupts + 1 /\ current[s] <= MaxFrames
      /\ Sent(s, sentCount[s] - 1)
      /\ UNCHANGED <<users, written, stream, receiverVars, overrun>>
  BY DEF SendInterrupted, Serializes
<1>2. /\ sentCount[s] \in Nat /\ FullSize(<<s, current[s]>>) \in Nat
      /\ sentCount[s] < FullSize(<<s, current[s]>>)
      /\ sentCount[s] > 0 => users = {s}
  BY <1>1, Rest
<1>3. /\ sentCount[s] - 1 \in Int
      /\ sentCount[s] - 1 <= FullSize(<<s, current[s]>>)
      /\ 0 < sentCount[s] - 1 => users = {s}
  BY <1>2
<1>4. /\ current' \in [Senders -> 1 .. MaxFrames + 1]
      /\ sentCount' \in [Senders -> Nat]
      /\ reported' \subseteq Frames
      /\ \A t \in Senders :
           sentCount'[t] > 0 =>
             /\ users = {t}
             /\ current'[t] <= MaxFrames
             /\ sentCount'[t] < FullSize(<<t, current'[t]>>)
  BY <1>1, <1>3, SentTypes
<1>5. interrupts \in Nat /\ interrupts' \in Nat
  BY <1>1 DEF FramingTypes
<1>6. FramingTypeOK'
  BY <1>1, <1>4 DEF FramingTypes, FramingTypeOK, receiverVars
<1>7. /\ users' = users /\ recvCount' = recvCount /\ length' = length
      /\ reading' = reading /\ buffer' = buffer
  BY <1>1 DEF receiverVars
<1>8. /\ users # {} /\ recvCount < length /\ buffer \in Seq(Bytes)
      /\ reading = "prepend" => length = PrependLength
  BY DEF FramingTypes
<1> QED BY <1>4, <1>5, <1>6, <1>7, <1>8 DEF FramingTypes

(* A read has all it asked for or goes on.                                 *)
LEMMA ReceivedTypes ==
  ASSUME FramingTypes, NEW count \in Int, count <= length,
         NEW bytes \in Seq(Bytes),
         IF count < 0 THEN bytes = <<>> ELSE Len(bytes) = count,
         Received(count, bytes), UNCHANGED senderVars,
         stream' \in Seq(Bytes), Len(stream') <= Capacity, interrupts' \in Nat
  PROVE  FramingTypes'
<1> USE DEF senderVars
<1>1. /\ recvCount = Len(buffer)
      /\ length \in Nat /\ PrependLength \in Nat /\ PrependLength > 0
      /\ delivered \in Seq(Seq(Bytes)) /\ reading \in {"prepend", "payload"}
      /\ reading = "prepend" => length = PrependLength
      /\ recvCount < length
  BY SerDesAssumption DEF FramingTypes, FramingTypeOK
<1>2. /\ length' \in Nat /\ reading' \in {"prepend", "payload"}
      /\ reading' = "prepend" => length' = PrependLength
      /\ delivered' \in Seq(Seq(Bytes))
      /\ recvCount' = Len(buffer') /\ recvCount' < length'
      /\ buffer' \in Seq(Bytes)
  <2>1. CASE Below(count, length)
    <3>1. /\ recvCount' = count /\ buffer' = bytes
          /\ UNCHANGED <<reading, length, delivered>>
          /\ 0 <= count /\ count < length
      BY <2>1 DEF Received, Below
    <3>2. Len(bytes) = count
      BY <3>1
    <3> QED BY <3>1, <3>2, <1>1
  <2>2. CASE ~Below(count, length) /\ reading = "prepend"
    <3>1. /\ recvCount' = 0 /\ buffer' = <<>> /\ reading' = "payload"
          /\ delivered' = delivered
          /\ length' \in IF bytes = <<>> THEN {PayloadSize(g) : g \in Frames}
                          ELSE Lengths(bytes)
      BY <2>2 DEF Received
    <3>2. bytes # <<>> => bytes[1].frame \in Frames
      <4>1. bytes # <<>> => bytes[1] \in Bytes
        <5>1. bytes # <<>> => Len(bytes) # 0
          BY EmptySeq
        <5> QED BY <5>1
      <4> QED BY <4>1 DEF Bytes
    <3>3. \E g \in Frames : length' = PayloadSize(g)
      BY <3>1, <3>2 DEF Lengths
    <3>4. length' \in Nat /\ length' > 0
      BY <3>3, Sizes
    <3> QED BY <3>1, <3>4, <1>1
  <2>3. CASE ~Below(count, length) /\ reading # "prepend"
    <3>1. /\ recvCount' = 0 /\ buffer' = <<>> /\ reading' = "prepend"
          /\ length' = PrependLength /\ delivered' = Append(delivered, bytes)
      BY <2>3 DEF Received
    <3> QED BY <3>1, <1>1
  <2> QED BY <2>1, <2>2, <2>3
<1>3. overrun' \in {"none", "serialize", "broadcast"}
  <2>1. overrun' = overrun \/ overrun' \in {"none", "broadcast"}
    BY DEF Received, BroadcastEnds
  <2> QED BY <2>1 DEF FramingTypes, FramingTypeOK
<1>4. FramingTypeOK'
  BY <1>2, <1>3 DEF FramingTypes, FramingTypeOK
<1> QED BY <1>2, <1>4 DEF FramingTypes

(* What is read comes off the front of what is unread.                     *)
Off(q, bytes, rest) ==
  /\ bytes \in Seq(Bytes) /\ rest \in Seq(Bytes)
  /\ Len(bytes) > 0
  /\ Len(q) = Len(bytes) + Len(rest)
  /\ \A i \in 1 .. Len(bytes) : bytes[i] = q[i]
  /\ \A i \in 1 .. Len(rest) : rest[i] = q[Len(bytes) + i]

(* A recv() hands on what it read.                                         *)
LEMMA RecvTypes ==
  ASSUME FramingTypes, RecvBytes
  PROVE  /\ FramingTypes'
         /\ \E bytes \in Seq(Bytes) :
              /\ Received(Len(bytes), bytes)
              /\ Len(bytes) <= length
              /\ Off(Unread, bytes, stream')
              /\ UNCHANGED <<senderVars, interrupts>>
<1>1. /\ length \in Nat /\ recvCount = Len(buffer) /\ recvCount < length
      /\ stream \in Seq(Bytes) /\ Len(stream) <= Capacity /\ interrupts \in Nat
      /\ buffer \in Seq(Bytes)
      /\ Capacity \in Nat
  BY FramingAssumption DEF FramingTypes, FramingTypeOK
<1>2. PICK n \in 1 .. (IF Len(stream) < length - recvCount THEN Len(stream)
                       ELSE length - recvCount) :
        /\ stream' = SubSeq(stream, n + 1, Len(stream))
        /\ Received(recvCount + n, buffer \o SubSeq(stream, 1, n))
        /\ UNCHANGED <<senderVars, interrupts>>
  BY Zenon DEF RecvBytes
<1> DEFINE bytes == buffer \o SubSeq(stream, 1, n)
<1>3. n \in Nat /\ n > 0 /\ n <= Len(stream) /\ recvCount + n <= length
  BY <1>1, <1>2
<1>4. /\ bytes \in Seq(Bytes) /\ Len(bytes) = recvCount + n
      /\ stream' \in Seq(Bytes) /\ Len(stream') = Len(stream) - n
      /\ Len(Unread) = Len(buffer) + Len(stream)
  <2>1. /\ SubSeq(stream, 1, n) \in Seq(Bytes)
        /\ Len(SubSeq(stream, 1, n)) = n
    BY <1>1, <1>3
  <2>2. /\ stream' \in Seq(Bytes) /\ Len(stream') = Len(stream) - n
    BY <1>1, <1>2, <1>3
  <2> QED BY <1>1, <2>1, <2>2 DEF Unread
<1>5. /\ \A i \in 1 .. Len(bytes) : bytes[i] = Unread[i]
      /\ \A i \in 1 .. Len(stream') : stream'[i] = Unread[Len(bytes) + i]
  <2>1. \A i \in 1 .. Len(Unread) :
          Unread[i] = IF i <= Len(buffer) THEN buffer[i]
                      ELSE stream[i - Len(buffer)]
    BY <1>1 DEF Unread
  <2>2. \A i \in 1 .. n : SubSeq(stream, 1, n)[i] = stream[i]
    BY <1>1, <1>3
  <2>3. \A i \in 1 .. Len(bytes) :
          bytes[i] = IF i <= Len(buffer) THEN buffer[i]
                     ELSE SubSeq(stream, 1, n)[i - Len(buffer)]
    BY <1>1, <1>3, <1>4
  <2>4. \A i \in 1 .. Len(stream') : stream'[i] = stream[i + n]
    BY <1>1, <1>2, <1>3
  <2>5. Len(buffer) \in Nat /\ Len(stream) \in Nat /\ Len(stream') \in Nat
    BY <1>1, <1>4
  <2> HIDE DEF bytes
  <2>6. \A i \in 1 .. Len(bytes) : bytes[i] = Unread[i]
    <3> SUFFICES ASSUME NEW i \in 1 .. Len(bytes) PROVE bytes[i] = Unread[i]
      OBVIOUS
    <3>1. i \in 1 .. Len(Unread) /\ i \in Nat
      BY <1>1, <1>3, <1>4, <2>5
    <3>2. CASE i <= Len(buffer)
      BY <3>1, <3>2, <2>1, <2>3
    <3>3. CASE ~(i <= Len(buffer))
      <4>1. i - Len(buffer) \in 1 .. n
        BY <3>1, <3>3, <1>1, <1>3, <1>4, <2>5
      <4> QED BY <4>1, <3>1, <3>3, <2>1, <2>2, <2>3
    <3> QED BY <3>2, <3>3
  <2>7. ASSUME NEW i \in 1 .. Len(stream')
        PROVE  stream'[i] = Unread[Len(bytes) + i]
    <3>1. /\ Len(bytes) + i \in 1 .. Len(Unread)
          /\ ~(Len(bytes) + i <= Len(buffer))
          /\ Len(bytes) + i - Len(buffer) = i + n
      BY <1>1, <1>3, <1>4, <2>5
    <3> QED BY <3>1, <2>1, <2>4
  <2> QED BY <2>6, <2>7
<1> HIDE DEF bytes
<1>6. Off(Unread, bytes, stream')
  BY <1>1, <1>3, <1>4, <1>5 DEF Off
<1>7. /\ Received(Len(bytes), bytes) /\ Len(bytes) <= length
      /\ Len(bytes) \in Int /\ Len(bytes) >= 0
      /\ Len(stream') <= Capacity /\ interrupts' \in Nat
  <2>1. Received(recvCount + n, bytes)
    BY <1>2 DEF bytes
  <2>2. Received(Len(bytes), bytes)
    BY <2>1, <1>4
  <2> QED BY <2>2, <1>1, <1>2, <1>3, <1>4
<1>8. FramingTypes'
  BY <1>2, <1>4, <1>7, ReceivedTypes
<1> QED BY <1>2, <1>4, <1>6, <1>7, <1>8

(* A recv() that fails takes back a byte or restarts the read.             *)
LEMMA RecvInterruptTypes ==
  ASSUME FramingTypes, RecvInterrupted
  PROVE  FramingTypes'
<1>1. /\ interrupts' = interrupts + 1
      /\ Received(recvCount - 1, IF buffer = <<>> THEN <<>> ELSE Front(buffer))
      /\ UNCHANGED <<senderVars, stream>>
  BY DEF RecvInterrupted
<1>2. /\ length \in Nat /\ recvCount = Len(buffer) /\ recvCount < length
      /\ stream \in Seq(Bytes) /\ Len(stream) <= Capacity /\ interrupts \in Nat
      /\ buffer \in Seq(Bytes)
  BY DEF FramingTypes, FramingTypeOK
<1>3. CASE buffer = <<>>
  <2>1. Received(-1, <<>>)
    BY <1>1, <1>2, <1>3
  <2> DEFINE count == -1
             bytes == <<>>
  <2>2. /\ count \in Int /\ count <= length /\ bytes \in Seq(Bytes)
        /\ IF count < 0 THEN bytes = <<>> ELSE Len(bytes) = count
    BY <1>2
  <2>3. /\ UNCHANGED senderVars /\ stream' \in Seq(Bytes)
        /\ Len(stream') <= Capacity /\ interrupts' \in Nat
    BY <1>1, <1>2
  <2> HIDE DEF count, bytes
  <2>4. Received(count, bytes)
    BY <2>1 DEF count, bytes
  <2> QED BY <2>2, <2>3, <2>4, ReceivedTypes
<1>4. CASE buffer # <<>>
  <2>1. Front(buffer) \in Seq(Bytes) /\ Len(Front(buffer)) = recvCount - 1
        /\ recvCount > 0
    BY <1>2, <1>4 DEF Front
  <2>2. Received(recvCount - 1, Front(buffer))
    BY <1>1, <1>4
  <2> QED BY <2>1, <2>2, <1>1, <1>2, ReceivedTypes
<1> QED BY <1>3, <1>4

(* A serialisation that goes beyond its array changes nothing else.        *)
LEMMA FailTypes ==
  ASSUME FramingTypes, NEW s \in users, SerializeFails(s)
  PROVE  /\ FramingTypes'
         /\ UNCHANGED <<senderVars, stream, receiverVars, interrupts>>
<1>1. /\ UNCHANGED <<senderVars, stream, receiverVars, interrupts>>
      /\ overrun' = "serialize"
  BY DEF SerializeFails
<1> QED BY <1>1 DEF FramingTypes, FramingTypeOK, senderVars, receiverVars

(* A frame that a send() ends has been given whole.                        *)
LEMMA SendQueues ==
  ASSUME FramingTypes, QueuedInv, NEW s \in users, Send(s)
  PROVE  QueuedInv'
<1> DEFINE f == <<s, current[s]>>
<1>1. PICK n \in 1 .. FullSize(f) - sentCount[s] :
        /\ current[s] <= MaxFrames
        /\ written' = written \cup ToSet(Slice(f, sentCount[s], n))
        /\ Sent(s, sentCount[s] + n)
        /\ interrupts' = interrupts
  BY SendTypes
<1>2. /\ f \in Frames /\ sentCount[s] \in Nat /\ FullSize(f) \in Nat
      /\ sentCount[s] < FullSize(f) /\ s \in Senders
  BY <1>1, Rest DEF FramingTypes, FramingTypeOK
<1>3. /\ sentCount \in [Senders -> Nat]
      /\ current \in [Senders -> 1 .. MaxFrames + 1]
  BY DEF FramingTypes, FramingTypeOK
<1>4. \A p \in 1 .. sentCount[s] + n : [frame |-> f, pos |-> p] \in written'
  <2> SUFFICES ASSUME NEW p \in 1 .. sentCount[s] + n
               PROVE  [frame |-> f, pos |-> p] \in written'
    OBVIOUS
  <2>1. CASE p <= sentCount[s]
    BY <2>1, <1>1, <1>2 DEF QueuedInv
  <2>2. CASE ~(p <= sentCount[s])
    <3> DEFINE i == p - sentCount[s]
    <3>1. i \in 1 .. n /\ sentCount[s] + i = p /\ n \in Nat
      BY <2>2, <1>2
    <3> HIDE DEF i, f
    <3>2. Slice(f, sentCount[s], n)[i] = [frame |-> f, pos |-> p]
      BY <3>1, <1>2, Pieces
    <3>3. Len(Slice(f, sentCount[s], n)) = n
      BY <3>1, <1>2, Pieces
    <3>4. DOMAIN Slice(f, sentCount[s], n) = 1 .. n
      BY DEF Slice
    <3> QED BY <3>1, <3>2, <3>4, <1>1 DEF ToSet
  <2> QED BY <2>1, <2>2
<1>5. IsFiniteSet(Missing) /\ Cardinality(Missing) <= interrupts
  BY DEF QueuedInv
<1> SUFFICES /\ \A t \in Senders : \A p \in 1 .. sentCount'[t] :
                 [frame |-> <<t, current'[t]>>, pos |-> p] \in written'
             /\ Missing' \subseteq Missing
  <2>1. IsFiniteSet(Missing') /\ Cardinality(Missing') <= Cardinality(Missing)
    BY <1>5, FS_Subset
  <2>2. /\ Cardinality(Missing) \in Nat /\ Cardinality(Missing') \in Nat
        /\ interrupts \in Nat
    BY <1>5, <2>1, FS_CardinalityType DEF FramingTypes
  <2> QED BY <2>1, <2>2, <1>1, <1>5 DEF QueuedInv
<1>6. \A t \in Senders : \A p \in 1 .. sentCount[t] :
        [frame |-> <<t, current[t]>>, pos |-> p] \in written'
  BY <1>1 DEF QueuedInv
<1>7. CASE Below(sentCount[s] + n, FullSize(f))
  <2>1. /\ sentCount' = [sentCount EXCEPT ![s] = sentCount[s] + n]
        /\ current' = current /\ reported' = reported
    BY <1>1, <1>7 DEF Sent
  <2>2. Missing' \subseteq Missing
    BY <2>1, <1>1 DEF Missing
  <2> QED BY <2>1, <2>2, <1>3, <1>4, <1>6
<1>8. CASE ~Below(sentCount[s] + n, FullSize(f))
  <2>1. /\ sentCount' = [sentCount EXCEPT ![s] = 0]
        /\ current' = [current EXCEPT ![s] = @ + 1]
        /\ reported' = reported \cup {f}
    BY <1>1, <1>8 DEF Sent
  <2>2. sentCount[s] + n = FullSize(f)
    BY <1>2, <1>8 DEF Below
  <2>3. ToSet(Slice(f, 0, FullSize(f))) \subseteq written'
    <3> HIDE DEF f
    <3>1. \A i \in 1 .. FullSize(f) :
            Slice(f, 0, FullSize(f))[i] = [frame |-> f, pos |-> i]
      BY DEF Slice
    <3>2. DOMAIN Slice(f, 0, FullSize(f)) = 1 .. FullSize(f)
      BY DEF Slice
    <3>3. \A i \in 1 .. FullSize(f) : [frame |-> f, pos |-> i] \in written'
      BY <2>2, <1>4
    <3>4. \A i \in 1 .. FullSize(f) : Slice(f, 0, FullSize(f))[i] \in written'
      BY <3>1, <3>3
    <3> DEFINE q == Slice(f, 0, FullSize(f))
    <3>5. \A i \in DOMAIN q : q[i] \in written'
      BY <3>2, <3>4
    <3> HIDE DEF q
    <3>6. ToSet(q) \subseteq written'
      BY <3>5 DEF ToSet
    <3> QED BY <3>6 DEF q
  <2>4. Missing' \subseteq Missing
    BY <2>1, <2>3, <1>1 DEF Missing
  <2>5. \A t \in Senders : \A p \in 1 .. sentCount'[t] :
          t # s /\ sentCount'[t] = sentCount[t] /\ current'[t] = current[t]
    BY <2>1, <1>3
  <2> QED BY <2>4, <2>5, <1>6
<1> QED BY <1>7, <1>8

(* One that an interrupted call ends is one more that is not.              *)
LEMMA InterruptQueues ==
  ASSUME FramingTypes, QueuedInv, NEW s \in users, SendInterrupted(s)
  PROVE  QueuedInv'
<1> DEFINE f == <<s, current[s]>>
<1>1. /\ interrupts' = interrupts + 1 /\ current[s] <= MaxFrames
      /\ Sent(s, sentCount[s] - 1) /\ written' = written
  BY DEF SendInterrupted, Serializes
<1>2. /\ sentCount \in [Senders -> Nat] /\ s \in Senders
      /\ current \in [Senders -> 1 .. MaxFrames + 1] /\ interrupts \in Nat
  BY DEF FramingTypes, FramingTypeOK
<1>3. /\ \A t \in Senders : \A p \in 1 .. sentCount[t] :
           [frame |-> <<t, current[t]>>, pos |-> p] \in written
      /\ IsFiniteSet(Missing) /\ Cardinality(Missing) <= interrupts
  BY DEF QueuedInv
<1>4. /\ \A t \in Senders :
           \/ sentCount'[t] \in 0 .. sentCount[t] /\ current'[t] = current[t]
           \/ sentCount'[t] = 0
      /\ reported' \subseteq reported \cup {f}
  BY <1>1, <1>2 DEF Sent, Below
<1>5. \A t \in Senders : \A p \in 1 .. sentCount'[t] :
        [frame |-> <<t, current'[t]>>, pos |-> p] \in written'
  <2> SUFFICES ASSUME NEW t \in Senders, NEW p \in 1 .. sentCount'[t]
               PROVE  [frame |-> <<t, current'[t]>>, pos |-> p] \in written
    BY <1>1
  <2>1. sentCount'[t] \in 0 .. sentCount[t] /\ current'[t] = current[t]
    BY <1>4
  <2>2. p \in 1 .. sentCount[t]
    BY <2>1, <1>2
  <2> QED BY <2>1, <2>2, <1>3
<1>6. Missing' \subseteq Missing \cup {f}
  BY <1>1, <1>4 DEF Missing
<1>7. /\ IsFiniteSet(Missing \cup {f})
      /\ Cardinality(Missing \cup {f}) \in
           {Cardinality(Missing), Cardinality(Missing) + 1}
  BY <1>3, FS_AddElement
<1>8. /\ IsFiniteSet(Missing')
      /\ Cardinality(Missing') <= Cardinality(Missing \cup {f})
  BY <1>6, <1>7, FS_Subset
<1>9. Cardinality(Missing) \in Nat /\ Cardinality(Missing') \in Nat
  BY <1>3, <1>8, FS_CardinalityType
<1>10. Cardinality(Missing') <= interrupts'
  BY <1>1, <1>2, <1>3, <1>7, <1>8, <1>9
<1> QED BY <1>5, <1>8, <1>10 DEF QueuedInv

(* The first invariant: nothing is said yet of what the stream holds.      *)
FramingSafe == FramingTypes /\ QueuedInv

(* Every step keeps it.                                                    *)
LEMMA FramingSafeNext ==
  ASSUME FramingSafe, [FramingNext]_framingVars
  PROVE  FramingSafe'
<1>1. CASE UNCHANGED framingVars
  BY <1>1 DEF FramingSafe, FramingTypes, FramingTypeOK, QueuedInv, Missing,
              framingVars, senderVars, receiverVars
<1>2. ASSUME NEW s \in users, Send(s) \/ SendInterrupted(s)
      PROVE  FramingSafe'
  BY <1>2, SendTypes, SendQueues, InterruptTypes, InterruptQueues
     DEF FramingSafe
<1>3. CASE RecvBytes \/ RecvInterrupted
  <2>1. FramingTypes'
    BY <1>3, RecvTypes, RecvInterruptTypes DEF FramingSafe
  <2>2. UNCHANGED senderVars /\ interrupts' \in {interrupts, interrupts + 1}
    BY <1>3 DEF RecvBytes, RecvInterrupted
  <2>3. Missing' = Missing
    BY <2>2 DEF Missing, senderVars
  <2>4. IsFiniteSet(Missing) /\ Cardinality(Missing) <= interrupts
    BY DEF FramingSafe, QueuedInv
  <2>5. Cardinality(Missing) \in Nat /\ interrupts \in Nat
    BY <2>4, FS_CardinalityType DEF FramingSafe, FramingTypes
  <2>6. Cardinality(Missing) <= interrupts'
    BY <2>2, <2>4, <2>5
  <2>7. QueuedInv'
    BY <2>2, <2>3, <2>4, <2>6 DEF FramingSafe, QueuedInv, senderVars
  <2> QED BY <2>1, <2>7 DEF FramingSafe
<1>4. ASSUME NEW s \in users, SerializeFails(s) PROVE FramingSafe'
  BY <1>4, FailTypes DEF FramingSafe, QueuedInv, Missing, senderVars
<1> QED BY <1>1, <1>2, <1>3, <1>4 DEF FramingNext

(* wsa_common.h sendMessageFrame: a frame reported as queued has been      *)
(* given to the socket whole, but for one for every interrupted call.      *)
THEOREM QueuedFramesAreSent == FramingSpec => []QueuedIsSent
<1>1. FramingInit => FramingSafe
  BY TypesInit DEF FramingSafe
<1>2. FramingSafe => QueuedIsSent
  BY DEF FramingSafe, QueuedInv, QueuedIsSent, Missing
<1> QED BY <1>1, <1>2, FramingSafeNext, PTL DEF FramingSpec

-----------------------------------------------------------------------------
(* A frame is a sender and a number.                                       *)
LEMMA FrameParts ==
  ASSUME NEW f \in Frames
  PROVE  /\ f = <<f[1], f[2]>> /\ f[1] \in Senders
         /\ f[2] \in Nat /\ f[2] > 0 /\ f[2] <= MaxFrames
  BY FramingAssumption DEF Frames

(* A byte is a frame and a position.                                       *)
LEMMA ByteFields ==
  ASSUME NEW b \in Bytes
  PROVE  /\ b.frame \in Frames /\ b.pos \in Nat /\ b.pos > 0
         /\ FullSize(b.frame) \in Nat
<1>1. b.frame \in Frames /\ b.pos \in Nat /\ b.pos > 0
  BY DEF Bytes
<1> QED BY <1>1, Sizes

(* r is q and then the n bytes of frame f that come after the first c.     *)
Continued(r, q, f, c, n) ==
  /\ r \in Seq(Bytes) /\ Len(r) = Len(q) + n
  /\ \A i \in 1 .. Len(q) : r[i] = q[i]
  /\ \A i \in 1 .. n : r[Len(q) + i] = [frame |-> f, pos |-> c + i]
  /\ \A j \in 1 .. Len(r) :
       \/ j \in 1 .. Len(q) /\ r[j] = q[j]
       \/ /\ j - Len(q) \in 1 .. n
          /\ r[j] = [frame |-> f, pos |-> c + (j - Len(q))]

(* What a send() leaves in the stream.                                     *)
LEMMA Appended ==
  ASSUME NEW q \in Seq(Bytes), NEW f \in Frames, NEW c \in Nat, NEW n \in Nat
  PROVE  Continued(q \o Slice(f, c, n), q, f, c, n)
<1> DEFINE p == Slice(f, c, n)
           r == q \o p
<1>1. /\ p \in Seq(Bytes) /\ Len(p) = n
      /\ \A i \in 1 .. n : p[i] = [frame |-> f, pos |-> c + i]
  BY Pieces
<1> HIDE DEF p
<1>2. /\ r \in Seq(Bytes) /\ Len(r) = Len(q) + n
      /\ \A i \in 1 .. Len(q) : r[i] = q[i]
  <2>1. p \in Seq(Bytes) /\ Len(p) = n
    BY <1>1
  <2>2. r \in Seq(Bytes) /\ Len(r) = Len(q) + n
    BY <2>1
  <2>3. \A i \in 1 .. Len(q) : r[i] = q[i]
    BY <2>1
  <2> QED BY <2>2, <2>3
<1>3. \A i \in 1 .. n : r[Len(q) + i] = p[i]
  <2>1. p \in Seq(Bytes) /\ Len(p) = n
    BY <1>1
  <2> QED BY <2>1
<1>4. Len(q) \in Nat
  OBVIOUS
<1> HIDE DEF r
<1>5. ASSUME NEW j \in 1 .. Len(r)
      PROVE  \/ j \in 1 .. Len(q) /\ r[j] = q[j]
             \/ /\ j - Len(q) \in 1 .. n
                /\ r[j] = [frame |-> f, pos |-> c + (j - Len(q))]
  <2>1. CASE j <= Len(q)
    BY <2>1, <1>2, <1>4
  <2>2. CASE ~(j <= Len(q))
    <3>1. j - Len(q) \in 1 .. n /\ Len(q) + (j - Len(q)) = j
      BY <2>2, <1>2, <1>4
    <3>2. r[j] = p[j - Len(q)]
      BY <3>1, <1>3
    <3> QED BY <3>1, <3>2, <1>1
  <2> QED BY <2>1, <2>2
<1>6. \A i \in 1 .. n : r[Len(q) + i] = [frame |-> f, pos |-> c + i]
  BY <1>1, <1>3
<1>7. Continued(r, q, f, c, n)
  BY <1>2, <1>5, <1>6 DEF Continued
<1> QED BY <1>7 DEF r, p

(* It goes on with the frame that was begun, or begins one after another.  *)
LEMMA RunsAppended ==
  ASSUME NEW q \in Seq(Bytes), NEW f \in Frames, NEW c \in Nat, NEW n \in Nat,
         NEW r, Continued(r, q, f, c, n), n > 0, c + n <= FullSize(f),
         Runs(q), Joints(q),
         Len(q) > 0 =>
           \/ c = 0 /\ q[Len(q)].pos = FullSize(q[Len(q)].frame)
           \/ q[Len(q)] = [frame |-> f, pos |-> c]
  PROVE  Runs(r) /\ Joints(r)
<1> DEFINE L == Len(q)
<1>1. /\ r \in Seq(Bytes) /\ Len(r) = L + n
      /\ \A i \in 1 .. L : r[i] = q[i]
      /\ \A i \in 1 .. n : r[L + i] = [frame |-> f, pos |-> c + i]
      /\ \A j \in 1 .. Len(r) :
           \/ j \in 1 .. L /\ r[j] = q[j]
           \/ /\ j - L \in 1 .. n
              /\ r[j] = [frame |-> f, pos |-> c + (j - L)]
  BY DEF Continued
<1>2. /\ L \in Nat /\ FullSize(f) \in Nat
      /\ \A i \in 1 .. L : /\ q[i] \in Bytes
                           /\ q[i].pos \in Nat
                           /\ FullSize(q[i].frame) \in Nat
  <2>1. L \in Nat /\ \A i \in 1 .. L : q[i] \in Bytes
    OBVIOUS
  <2> QED BY <2>1, ByteFields, Sizes
<1>3. Len(q) > 0 => \/ c = 0 /\ q[L].pos = FullSize(q[L].frame)
                    \/ q[L] = [frame |-> f, pos |-> c]
  OBVIOUS
<1> HIDE DEF L
<1>7. Len(r) \in Nat
  BY <1>1
<1>8. Len(r) = L + n /\ L \in Nat
  BY <1>1, <1>2
<1>4. ASSUME NEW i \in 1 .. Len(r),
             NEW d \in 0 .. FullSize(r[i].frame) - r[i].pos,
             i + d <= Len(r)
      PROVE  r[i + d] = [frame |-> r[i].frame, pos |-> r[i].pos + d]
  <2>0. PICK z \in Nat, p \in Nat : z = FullSize(r[i].frame) /\ p = r[i].pos
    BY <1>1, ByteFields
  <2>5. i \in Nat /\ i > 0 /\ d \in 0 .. z - p /\ d \in Nat
    BY <2>0, <1>7
  <2>6. i + d <= L + n
    BY <1>4, <1>8
  <2>1. CASE i \in 1 .. L /\ r[i] = q[i]
    <3>1. CASE i + d <= L
      <4>3. i \in Nat /\ i > 0 /\ d \in Nat /\ L \in Nat
        BY <2>5, <1>8
      <4>1. i + d \in 1 .. L
        BY <3>1, <4>3
      <4>2. q[i + d] = [frame |-> q[i].frame, pos |-> q[i].pos + d]
        BY <2>1, <3>1, <1>4 DEF Runs, L
      <4> QED BY <2>1, <4>1, <4>2, <1>1
    <3>2. CASE ~(i + d <= L)
      <4> DEFINE e == L - i
      <4>7. i \in 1 .. L
        BY <2>1
      <4>8. /\ i \in Nat /\ d \in Nat /\ d <= z - p /\ L \in Nat
            /\ z \in Nat /\ p \in Nat
        BY <2>5, <1>8
      <4>1. e \in 0 .. z - p /\ p + e < z /\ i + e = L /\ L > 0 /\ e \in Nat
        BY <3>2, <4>7, <4>8
      <4> HIDE DEF e
      <4>2. q[L] = [frame |-> q[i].frame, pos |-> p + e]
        <5>1. e \in 0 .. FullSize(q[i].frame) - q[i].pos /\ i + e <= Len(q)
          BY <2>0, <2>1, <4>1, <1>2 DEF L
        <5>2. q[i + e] = [frame |-> q[i].frame, pos |-> q[i].pos + e]
          BY <2>1, <5>1 DEF Runs, L
        <5> QED BY <5>2, <4>1, <2>0, <2>1
      <4>3. q[L] = [frame |-> f, pos |-> c]
        <5>1. q[L].pos # FullSize(q[L].frame)
          <6>1. q[L].pos = p + e /\ FullSize(q[L].frame) = z
            BY <4>2, <2>0, <2>1
          <6> QED BY <6>1, <4>1
        <5> QED BY <4>1, <5>1, <1>3 DEF L
      <4>4. q[i].frame = f /\ p + e = c
        BY <4>2, <4>3
      <4>5. /\ i + d - L \in 1 .. n /\ L + (i + d - L) = i + d
            /\ c + (i + d - L) = p + d
        <5>1. c \in Nat /\ n \in Nat
          OBVIOUS
        <5>2. i + d - L \in 1 .. n /\ L + (i + d - L) = i + d
          BY <2>5, <2>6, <3>2, <1>8, <5>1
        <5>3. c + (i + d - L) = p + d
          <6>1. p + e = c /\ i + e = L
            BY <4>1, <4>4
          <6>2. p \in Nat /\ e \in Nat /\ i \in Nat /\ d \in Nat
            BY <2>5, <4>1
          <6> QED BY <6>1, <6>2
        <5> QED BY <5>2, <5>3
      <4>6. r[i + d] = [frame |-> f, pos |-> c + (i + d - L)]
        BY <4>5, <1>1
      <4> QED BY <2>0, <2>1, <4>4, <4>5, <4>6
    <3> QED BY <3>1, <3>2
  <2>2. CASE i - L \in 1 .. n /\ r[i] = [frame |-> f, pos |-> c + (i - L)]
    <3>1. /\ i + d - L \in 1 .. n /\ L + (i + d - L) = i + d
          /\ c + (i + d - L) = c + (i - L) + d
      <4>1. c \in Nat /\ n \in Nat
        OBVIOUS
      <4>4. i - L \in 1 .. n
        BY <2>2
      <4>5. i \in Nat /\ d \in Nat /\ i + d <= L + n /\ L \in Nat
        BY <2>5, <2>6, <1>8
      <4>2. i + d - L \in 1 .. n /\ L + (i + d - L) = i + d
        BY <4>1, <4>4, <4>5
      <4>3. c + (i + d - L) = c + (i - L) + d
        BY <2>5, <1>8, <4>1
      <4> QED BY <4>2, <4>3
    <3>2. r[i + d] = [frame |-> f, pos |-> c + (i + d - L)]
      BY <3>1, <1>1
    <3> QED BY <2>2, <3>1, <3>2
  <2> QED BY <2>1, <2>2, <1>1
<1>5. ASSUME NEW i \in 1 .. Len(r) - 1, r[i].pos = FullSize(r[i].frame)
      PROVE  r[i + 1].pos = 1
  <2>1. i \in 1 .. Len(r) /\ i \in Nat
    BY <1>7
  <2>2. CASE i \in 1 .. L /\ r[i] = q[i]
    <3>1. CASE i < L
      <4>3. i \in 1 .. L
        BY <2>2
      <4>1. i + 1 \in 1 .. L /\ i \in 1 .. L - 1
        BY <3>1, <4>3, <1>8
      <4>2. q[i + 1].pos = 1
        BY <4>1, <2>2, <1>5 DEF Joints, L
      <4> QED BY <4>1, <4>2, <1>1
    <3>2. CASE ~(i < L)
      <4>1. i = L /\ Len(q) > 0
        BY <3>2, <2>2, <1>2 DEF L
      <4>2. q[L] # [frame |-> f, pos |-> c]
        BY <4>1, <2>2, <1>2, <1>5
      <4>3. c = 0 /\ 1 \in 1 .. n
        BY <4>1, <4>2, <1>3
      <4>4. r[L + 1] = [frame |-> f, pos |-> c + 1]
        BY <4>3, <1>1
      <4> QED BY <4>1, <4>3, <4>4
    <3> QED BY <3>1, <3>2
  <2>3. CASE i - L \in 1 .. n /\ r[i] = [frame |-> f, pos |-> c + (i - L)]
    <3>1. c + (i - L) < c + n
      BY <2>3, <1>1, <1>2, <1>5
    <3> QED BY <2>3, <3>1, <1>2, <1>5
  <2> QED BY <2>1, <2>2, <2>3, <1>1
<1>6. Runs(r) /\ Joints(r)
  BY <1>4, <1>5 DEF Runs, Joints
<1> QED BY <1>6

(* It comes after all of the sender's bytes.                               *)
LEMMA OrderAppended ==
  ASSUME NEW q \in Seq(Bytes), NEW f \in Frames, NEW c \in Nat, NEW n \in Nat,
         NEW r, Continued(r, q, f, c, n), Ordered(q),
         \A i \in 1 .. Len(q) :
           q[i].frame[1] = f[1] =>
             \/ q[i].frame[2] < f[2]
             \/ q[i].frame = f /\ q[i].pos <= c
  PROVE  Ordered(r)
<1> DEFINE L == Len(q)
<1>1. \A j \in 1 .. Len(r) :
        \/ j \in 1 .. L /\ r[j] = q[j]
        \/ /\ j - L \in 1 .. n
           /\ r[j] = [frame |-> f, pos |-> c + (j - L)]
  BY DEF Continued
<1>2. L \in Nat /\ \A i \in 1 .. L : q[i].pos \in Nat
  <2>1. L \in Nat /\ \A i \in 1 .. L : q[i] \in Bytes
    OBVIOUS
  <2> QED BY <2>1, ByteFields
<1>5. Len(r) \in Nat
  <2>1. r \in Seq(Bytes)
    BY DEF Continued
  <2> QED BY <2>1
<1> HIDE DEF L
<1>3. ASSUME NEW i \in 1 .. Len(r), NEW j \in 1 .. Len(r), i < j,
             r[i].frame[1] = r[j].frame[1]
      PROVE  \/ r[i].frame[2] < r[j].frame[2]
             \/ r[i].frame = r[j].frame /\ r[i].pos < r[j].pos
  <2>1. CASE j \in 1 .. L /\ r[j] = q[j]
    <3>1. i \in 1 .. L /\ r[i] = q[i]
      <4>1. ~(i - L \in 1 .. n)
        BY <2>1, <1>2, <1>3, <1>5
      <4> QED BY <4>1, <1>1
    <3> QED BY <2>1, <3>1, <1>3 DEF Ordered, L
  <2>2. CASE j - L \in 1 .. n /\ r[j] = [frame |-> f, pos |-> c + (j - L)]
    <3>1. CASE i \in 1 .. L /\ r[i] = q[i]
      <4>3. i \in 1 .. L /\ q[i].frame[1] = f[1]
        BY <2>2, <3>1, <1>3
      <4>1. q[i].frame[2] < f[2] \/ (q[i].frame = f /\ q[i].pos <= c)
        BY <4>3 DEF L
      <4>4. PICK e \in Nat : e = j - L /\ e > 0
        BY <2>2
      <4>5. c < c + e
        BY <4>4
      <4>2. c < c + (j - L) /\ q[i].pos \in Nat /\ c + (j - L) \in Nat
        BY <4>3, <4>4, <4>5, <1>2
      <4> QED BY <2>2, <3>1, <4>1, <4>2
    <3>2. CASE i - L \in 1 .. n /\ r[i] = [frame |-> f, pos |-> c + (i - L)]
      <4>1. c + (i - L) < c + (j - L)
        BY <1>2, <1>3
      <4> QED BY <2>2, <3>2, <4>1
    <3> QED BY <3>1, <3>2, <1>1
  <2> QED BY <2>1, <2>2, <1>1
<1>4. Ordered(r)
  BY <1>3 DEF Ordered
<1> QED BY <1>4

(* What is left when the front is taken off is as well ordered.            *)
LEMMA RestOrdered ==
  ASSUME NEW q \in Seq(Bytes), NEW rest \in Seq(Bytes), NEW m \in Nat,
         Len(q) = m + Len(rest), \A i \in 1 .. Len(rest) : rest[i] = q[m + i],
         Runs(q), Joints(q), Ordered(q)
  PROVE  Runs(rest) /\ Joints(rest) /\ Ordered(rest)
<1>1. Len(rest) \in Nat /\ \A i \in 1 .. Len(rest) : m + i \in 1 .. Len(q)
  OBVIOUS
<1>2. Ordered(rest)
  <2> SUFFICES ASSUME NEW i \in 1 .. Len(rest), NEW j \in 1 .. Len(rest), i < j,
                      rest[i].frame[1] = rest[j].frame[1]
               PROVE  \/ rest[i].frame[2] < rest[j].frame[2]
                      \/ /\ rest[i].frame = rest[j].frame
                         /\ rest[i].pos < rest[j].pos
    BY DEF Ordered
  <2>1. /\ m + i < m + j /\ m + i \in 1 .. Len(q) /\ m + j \in 1 .. Len(q)
        /\ rest[i] = q[m + i] /\ rest[j] = q[m + j]
    BY <1>1
  <2>2. \/ q[m + i].frame[2] < q[m + j].frame[2]
        \/ /\ q[m + i].frame = q[m + j].frame
           /\ q[m + i].pos < q[m + j].pos
    <3>1. q[m + i].frame[1] = q[m + j].frame[1]
      BY <2>1
    <3> QED BY <2>1, <3>1 DEF Ordered
  <2> QED BY <2>1, <2>2
<1>3. Runs(rest)
  <2> SUFFICES ASSUME NEW i \in 1 .. Len(rest),
                      NEW d \in 0 .. FullSize(rest[i].frame) - rest[i].pos,
                      i + d <= Len(rest)
               PROVE  rest[i + d] =
                        [frame |-> rest[i].frame, pos |-> rest[i].pos + d]
    BY DEF Runs
  <2>1. /\ i + d \in 1 .. Len(rest) /\ m + i + d <= Len(q)
        /\ m + (i + d) = m + i + d
    <3>1. rest[i] \in Bytes
      OBVIOUS
    <3>2. PICK z \in Nat, p \in Nat :
            z = FullSize(rest[i].frame) /\ p = rest[i].pos
      BY <3>1, ByteFields
    <3>3. d \in 0 .. z - p
      BY <3>2
    <3>4. d \in Nat
      BY <3>3
    <3>5. i \in Nat /\ i > 0 /\ Len(rest) \in Nat /\ Len(q) = m + Len(rest)
          /\ i + d <= Len(rest)
      BY <1>1
    <3> QED BY <3>4, <3>5
  <2>2. d \in 0 .. FullSize(q[m + i].frame) - q[m + i].pos
    OBVIOUS
  <2>3. q[m + i + d] = [frame |-> q[m + i].frame, pos |-> q[m + i].pos + d]
    BY <2>1, <2>2, <1>1 DEF Runs
  <2> QED BY <2>1, <2>3
<1>4. Joints(rest)
  <2> SUFFICES ASSUME NEW i \in 1 .. Len(rest) - 1,
                      rest[i].pos = FullSize(rest[i].frame)
               PROVE  rest[i + 1].pos = 1
    BY DEF Joints
  <2>2. PICK n \in Nat : n = Len(rest) /\ Len(q) = m + n
    BY <1>1
  <2>3. i \in 1 .. n - 1
    BY <2>2
  <2>4. /\ i \in 1 .. n /\ i + 1 \in 1 .. n
        /\ m + i \in 1 .. m + n - 1 /\ m + i + 1 = m + (i + 1)
    BY <2>3
  <2>1. /\ i \in 1 .. Len(rest) /\ i + 1 \in 1 .. Len(rest)
        /\ m + i \in 1 .. Len(q) - 1 /\ m + i + 1 = m + (i + 1)
    BY <2>2, <2>4
  <2> QED BY <2>1 DEF Joints
<1> QED BY <1>2, <1>3, <1>4

(* The payloads delivered of a sender are a number.                        *)
LEMMA TakenNatural ==
  ASSUME FramingTypes, NEW s
  PROVE  IsFiniteSet(SentBy(delivered, s)) /\ Taken(s) \in Nat
<1>1. 1 \in Int /\ Len(delivered) \in Int
  BY DEF FramingTypes, FramingTypeOK
<1>2. IsFiniteSet(1 .. Len(delivered))
  BY <1>1, FS_Interval
<1>3. IsFiniteSet(SentBy(delivered, s))
  BY <1>2, FS_Subset DEF SentBy
<1> QED BY <1>3, FS_CardinalityType DEF Taken

(* What is unread is bytes of frames.                                      *)
LEMMA UnreadBytes ==
  ASSUME FramingTypes
  PROVE  /\ Unread \in Seq(Bytes) /\ Len(Unread) \in Nat
         /\ \A i \in 1 .. Len(Unread) :
              /\ Unread[i] \in Bytes /\ Unread[i].frame \in Frames
              /\ Unread[i].pos \in Nat /\ Unread[i].pos > 0
              /\ FullSize(Unread[i].frame) \in Nat
<1>1. buffer \in Seq(Bytes) /\ stream \in Seq(Bytes)
  BY DEF FramingTypes, FramingTypeOK
<1>2. Unread \in Seq(Bytes)
  BY <1>1 DEF Unread
<1>3. Len(Unread) \in Nat /\ \A i \in 1 .. Len(Unread) : Unread[i] \in Bytes
  BY <1>2
<1> QED BY <1>2, <1>3, ByteFields

(* The first frame that is not read is the next of its sender.             *)
LEMMA FirstIsNext ==
  ASSUME FramingTypes, Aligned, Len(Unread) > 0
  PROVE  Unread[1].frame[2] = Taken(Unread[1].frame[1]) + 1
<1>1. /\ 1 \in 1 .. Len(Unread) /\ Len(Unread) \in Nat
      /\ \A i \in 1 .. Len(Unread) : Unread[i].frame \in Frames
  BY UnreadBytes
<1> DEFINE f == Unread[1].frame
           t == f[1]
           k == Taken(t) + 1
<1>2. /\ t \in Senders /\ f[2] \in Nat /\ f[2] <= MaxFrames
      /\ MaxFrames \in Nat /\ Taken(t) \in Nat
      /\ current[t] \in Nat
  <2>1. t \in Senders /\ f[2] \in Nat /\ f[2] <= MaxFrames /\ MaxFrames \in Nat
    <3>1. f \in Frames
      BY <1>1
    <3> HIDE DEF f
    <3> QED BY <3>1, FrameParts, FramingAssumption
  <2>2. current \in [Senders -> 1 .. MaxFrames + 1]
    BY DEF FramingTypes, FramingTypeOK
  <2> HIDE DEF t
  <2>3. Taken(t) \in Nat
    BY TakenNatural
  <2> QED BY <2>1, <2>2, <2>3
<1>3. Taken(t) < f[2] /\ (f[2] < current[t] \/ f[2] = current[t])
  BY <1>1 DEF Aligned, InRange, GivenOut
<1>4. ASSUME k < f[2] PROVE FALSE
  <2>1. k \in 1 .. MaxFrames /\ Taken(t) < k /\ k < current[t]
    BY <1>2, <1>3, <1>4
  <2>2. PICK i \in 1 .. Len(Unread) : Unread[i].frame = <<t, k>>
    <3> HIDE DEF k, t
    <3> QED BY <2>1, <1>2 DEF Aligned, Complete
  <2>3. Unread[i].frame[1] = t /\ Unread[i].frame[2] = k
    <3> HIDE DEF k, t
    <3> QED BY <2>2
  <2>4. i # 1
    BY <2>3, <1>2, <1>4
  <2>5. 1 < i
    BY <2>4, <1>1
  <2>6. \/ f[2] < Unread[i].frame[2]
        \/ f = Unread[i].frame
    BY <2>3, <2>5, <1>1 DEF Aligned, Ordered
  <2> HIDE DEF f, k
  <2> QED BY <2>3, <2>6, <1>2, <1>4 DEF k
<1> HIDE DEF f
<1> QED BY <1>2, <1>3, <1>4 DEF f

(* At first nothing is unread.                                             *)
LEMMA AlignedInit ==
  ASSUME FramingInit
  PROVE  Aligned
<1>1. FramingTypes
  BY TypesInit
<1>2. Unread = <<>> /\ delivered = <<>> /\ reading = "prepend"
      /\ \A s \in Senders : sentCount[s] = 0 /\ current[s] = 1
  BY DEF FramingInit, Unread
<1>3. \A s : SentBy(delivered, s) = {}
  BY <1>2 DEF SentBy
<1>4. \A s : Taken(s) = 0
  BY <1>3, FS_EmptySet DEF Taken
<1>5. Runs(Unread) /\ Joints(Unread) /\ Ordered(Unread)
  BY <1>2 DEF Runs, Joints, Ordered
<1>6. InRange /\ LastFits /\ FirstFits /\ DeliveredWhole
  BY <1>2 DEF InRange, LastFits, FirstFits, DeliveredWhole, Whole
<1>7. Complete
  BY <1>2, <1>4, FramingAssumption DEF Complete
<1> QED BY <1>5, <1>6, <1>7 DEF Aligned

(* What a send() appends goes on where the last one stopped.               *)
LEMMA SendFits ==
  ASSUME FramingTypes, Aligned, NEW s \in users, current[s] <= MaxFrames,
         Len(Unread) > 0
  PROVE  LET b == Unread[Len(Unread)]
         IN  \/ sentCount[s] = 0 /\ b.pos = FullSize(b.frame)
             \/ b = Partial(s)
<1>1. /\ s \in Senders /\ sentCount[s] \in Nat
  BY Rest DEF FramingTypes, FramingTypeOK
<1> DEFINE b == Unread[Len(Unread)]
<1>2. /\ \/ b.pos = FullSize(b.frame)
         \/ \E t \in Senders : sentCount[t] > 0 /\ b = Partial(t)
      /\ \A t \in Senders : sentCount[t] > 0 => b = Partial(t)
  BY DEF Aligned, LastFits
<1> HIDE DEF b
<1>3. CASE sentCount[s] > 0
  BY <1>1, <1>2, <1>3 DEF b
<1>4. CASE sentCount[s] = 0
  <2>1. \A t \in Senders : sentCount[t] > 0 => t = s
    BY DEF FramingTypes
  <2>2. b.pos = FullSize(b.frame)
    BY <2>1, <1>2, <1>4
  <2> QED BY <2>2, <1>4 DEF b
<1> QED BY <1>1, <1>3, <1>4

(* Two ways to append.                                                     *)
LEMMA Associative ==
  ASSUME NEW x \in Seq(Bytes), NEW y \in Seq(Bytes), NEW z \in Seq(Bytes)
  PROVE  (x \o y) \o z = x \o (y \o z)
  OBVIOUS

(* A send() keeps the unread bytes in order.                               *)
LEMMA SendAligns ==
  ASSUME FramingTypes, Aligned, NEW s \in users, Send(s)
  PROVE  Aligned'
<1>1. PICK n \in 1 .. FullSize(<<s, current[s]>>) - sentCount[s] :
        /\ current[s] <= MaxFrames
        /\ stream' = stream \o Slice(<<s, current[s]>>, sentCount[s], n)
        /\ Sent(s, sentCount[s] + n)
        /\ UNCHANGED <<users, receiverVars, interrupts>>
  BY SendTypes
<1>2. FramingTypes'
  BY SendTypes
<1>3. PICK f \in Frames, c \in Nat, full \in Nat :
        /\ f = <<s, current[s]>> /\ c = sentCount[s] /\ full = FullSize(f)
        /\ c < full
  BY <1>1, Rest
<1>4. /\ n \in Nat /\ n > 0 /\ c + n <= full /\ s \in Senders
      /\ f[1] = s /\ f[2] = current[s] /\ f[2] \in Nat
  <2>1. f[1] = s /\ f[2] = current[s]
    BY <1>3
  <2>2. f[2] \in Nat
    BY FrameParts
  <2>3. s \in Senders
    BY DEF FramingTypes, FramingTypeOK
  <2>4. n \in 1 .. full - c
    BY <1>1, <1>3
  <2>5. n \in Nat /\ n > 0 /\ c + n <= full
    BY <2>4, <1>3
  <2> QED BY <2>1, <2>2, <2>3, <2>5
<1>5. /\ sentCount \in [Senders -> Nat]
      /\ current \in [Senders -> 1 .. MaxFrames + 1] /\ MaxFrames \in Nat
      /\ stream \in Seq(Bytes) /\ buffer \in Seq(Bytes)
  BY FramingAssumption DEF FramingTypes, FramingTypeOK
<1>6. \/ /\ c + n < full
         /\ sentCount' = [sentCount EXCEPT ![s] = c + n] /\ current' = current
      \/ /\ c + n = full
         /\ sentCount' = [sentCount EXCEPT ![s] = 0]
         /\ current' = [current EXCEPT ![s] = @ + 1]
  BY <1>1, <1>3, <1>4 DEF Sent, Below
<1>7. Unread' = Unread \o Slice(f, c, n)
  <2>1. stream' = stream \o Slice(f, c, n) /\ buffer' = buffer
    BY <1>1, <1>3 DEF receiverVars
  <2> DEFINE p == Slice(f, c, n)
  <2>2. p \in Seq(Bytes)
    BY <1>4, Pieces
  <2>3. stream' = stream \o p /\ buffer' = buffer
    BY <2>1
  <2> HIDE DEF p
  <2>6. buffer \in Seq(Bytes) /\ stream \in Seq(Bytes)
    BY <1>5
  <2>4. buffer \o (stream \o p) = (buffer \o stream) \o p
    BY <2>2, <2>6, Associative, SMTT(20)
  <2>5. Unread' = Unread \o p
    BY <2>3, <2>4 DEF Unread
  <2> QED BY <2>5 DEF p
<1>17. PICK q \in Seq(Bytes), r \in Seq(Bytes), L \in Nat :
         q = Unread /\ r = Unread' /\ L = Len(q)
  <2>1. Unread \in Seq(Bytes) /\ Unread' \in Seq(Bytes)
    BY <1>2, UnreadBytes DEF Unread, FramingTypes, FramingTypeOK
  <2> QED BY <2>1
<1>8. /\ q \in Seq(Bytes) /\ L \in Nat
      /\ \A i \in 1 .. L : /\ q[i] \in Bytes /\ q[i].frame \in Frames
                           /\ q[i].pos \in Nat /\ q[i].pos > 0
                           /\ FullSize(q[i].frame) \in Nat
  BY <1>17, UnreadBytes
<1>21. Continued(r, q, f, c, n)
  <2>1. r = q \o Slice(f, c, n) /\ c \in Nat /\ n \in Nat
    BY <1>7, <1>17, <1>4, <1>3
  <2> QED BY <2>1, Appended
<1>9. /\ r \in Seq(Bytes) /\ Len(r) = L + n
      /\ \A i \in 1 .. L : r[i] = q[i]
      /\ \A i \in 1 .. n : r[L + i] = [frame |-> f, pos |-> c + i]
      /\ \A j \in 1 .. Len(r) :
           \/ j \in 1 .. L /\ r[j] = q[j]
           \/ /\ j - L \in 1 .. n
              /\ r[j] = [frame |-> f, pos |-> c + (j - L)]
  BY <1>21, <1>17 DEF Continued
<1>10. \A i \in 1 .. L :
         /\ q[i].pos <= FullSize(q[i].frame)
         /\ Taken(q[i].frame[1]) < q[i].frame[2]
         /\ GivenOut(q[i])
  BY <1>17 DEF Aligned, InRange
<1>11. Runs(Unread') /\ Joints(Unread')
  <2>1. L > 0 => \/ c = 0 /\ q[L].pos = FullSize(q[L].frame)
                 \/ q[L] = [frame |-> f, pos |-> c]
    BY <1>1, <1>3, <1>17, SendFits DEF Partial
  <2>2. Runs(q) /\ Joints(q)
    BY <1>17 DEF Aligned
  <2>3. Runs(r) /\ Joints(r)
    BY <2>1, <2>2, <1>3, <1>4, <1>17, <1>21, RunsAppended
  <2> QED BY <2>3, <1>17
<1>12. Ordered(Unread')
  <2>1. ASSUME NEW i \in 1 .. L, q[i].frame[1] = f[1]
        PROVE  q[i].frame[2] < f[2] \/ (q[i].frame = f /\ q[i].pos <= c)
    <3>1. q[i].frame = <<q[i].frame[1], q[i].frame[2]>>
      BY <1>8, FrameParts
    <3> QED BY <2>1, <3>1, <1>3, <1>4, <1>10 DEF GivenOut
  <2>2. Ordered(q)
    BY <1>17 DEF Aligned
  <2>3. Ordered(r)
    BY <2>1, <2>2, <1>4, <1>17, <1>21, OrderAppended
  <2> QED BY <2>3, <1>17
<1>13. delivered' = delivered /\ reading' = reading /\ length' = length
       /\ users' = users /\ \A t : Taken(t)' = Taken(t)
  <2>1. delivered' = delivered /\ reading' = reading /\ length' = length
        /\ users' = users
    BY <1>1 DEF receiverVars
  <2>2. \A t : Taken(t)' = Taken(t)
    BY <2>1 DEF Taken, SentBy
  <2> QED BY <2>1, <2>2
<1>14. \A b \in Bytes : GivenOut(b) => GivenOut(b)'
  <2> SUFFICES ASSUME NEW b \in Bytes, GivenOut(b)
               PROVE  GivenOut(b)'
    OBVIOUS
  <2> DEFINE t == b.frame[1]
  <2>5. b.frame \in Frames /\ b.pos \in Nat
    BY ByteFields
  <2>1. t \in Senders /\ b.frame[2] \in Nat
    BY <2>5, FrameParts
  <2>2. \/ b.frame[2] < current[t]
        \/ b.frame[2] = current[t] /\ b.pos <= sentCount[t]
    BY DEF GivenOut
  <2>3. CASE t = s
    <3>1. PICK k \in Nat, u \in Nat : k = current[s] /\ u = b.frame[2]
      BY <2>1, <1>4, <1>5
    <3>2. u < k \/ (u = k /\ b.pos <= c)
      BY <2>2, <2>3, <3>1, <1>3
    <3>3. CASE c + n < full
      <4>1. current'[s] = k /\ sentCount'[s] = c + n
        BY <3>1, <3>3, <1>4, <1>5, <1>6
      <4>2. u < k \/ (u = k /\ b.pos <= c + n)
        BY <3>2, <2>5, <1>3, <1>4
      <4> QED BY <2>3, <3>1, <4>1, <4>2 DEF GivenOut
    <3>4. CASE ~(c + n < full)
      <4>1. current'[s] = k + 1
        BY <3>1, <3>4, <1>4, <1>5, <1>6
      <4>2. u < k + 1
        BY <3>1, <3>2
      <4> QED BY <2>3, <3>1, <4>1, <4>2 DEF GivenOut
    <3> QED BY <3>3, <3>4
  <2>4. CASE t # s
    <3>1. current'[t] = current[t] /\ sentCount'[t] = sentCount[t]
      BY <2>1, <2>4, <1>5, <1>6
    <3> QED BY <2>2, <3>1 DEF GivenOut
  <2> QED BY <2>3, <2>4
<1>15. InRange'
  <2>1. ASSUME NEW j \in 1 .. Len(r), NEW b \in Bytes, b = r[j]
        PROVE  /\ b.pos <= FullSize(b.frame)
               /\ Taken(b.frame[1]) < b.frame[2]
               /\ GivenOut(b)'
    <3>1. CASE j \in 1 .. L /\ r[j] = q[j]
      BY <2>1, <3>1, <1>8, <1>10, <1>14
    <3>2. CASE j - L \in 1 .. n /\ r[j] = [frame |-> f, pos |-> c + (j - L)]
      <4>1. b.frame = f /\ b.pos = c + (j - L) /\ b.pos <= c + n
        BY <2>1, <3>2, <1>4
      <4>2. Taken(s) < current[s]
        BY <1>4 DEF Aligned, Complete
      <4>3. GivenOut(b)'
        <5>1. /\ b.frame[1] = s /\ b.frame[2] = current[s]
              /\ current[s] \in Nat /\ b.pos <= c + n
          BY <4>1, <1>4, <1>5
        <5>2. CASE c + n < full
          <6>1. current'[s] = current[s] /\ sentCount'[s] = c + n
            BY <5>2, <1>4, <1>5, <1>6
          <6> QED BY <5>1, <6>1 DEF GivenOut
        <5>3. CASE ~(c + n < full)
          <6>1. current'[s] = current[s] + 1
            BY <5>3, <1>4, <1>5, <1>6
          <6>2. b.frame[2] < current'[s]
            BY <5>1, <6>1
          <6> QED BY <5>1, <6>2 DEF GivenOut
        <5> QED BY <5>2, <5>3
      <4> QED BY <4>1, <4>2, <4>3, <1>3, <1>4
    <3> QED BY <3>1, <3>2, <1>9
  <2>2. ASSUME NEW j \in 1 .. Len(r)
        PROVE  /\ Unread'[j].pos <= FullSize(Unread'[j].frame)
               /\ Taken(Unread[j].frame[1])' < Unread'[j].frame[2]
               /\ GivenOut(Unread[j])'
    <3>1. PICK b \in Bytes : b = r[j]
      OBVIOUS
    <3>2. b = Unread'[j] /\ GivenOut(b)'
      BY <2>1, <3>1, <1>17
    <3>3. Taken(Unread[j].frame[1])' = Taken(b.frame[1])
      BY <3>2, <1>13 DEF Taken, SentBy
    <3>4. GivenOut(Unread[j])'
      BY <3>2 DEF GivenOut
    <3> QED BY <2>1, <3>1, <3>2, <3>3, <3>4
  <2> QED BY <2>2, <1>17 DEF InRange
<1>16. LastFits'
  <2>1. L + n = Len(r) /\ r[L + n] = [frame |-> f, pos |-> c + n]
    BY <1>4, <1>9
  <2>2. \A t \in Senders : sentCount'[t] > 0 => t = s /\ c + n < full
    <3>1. \A t \in Senders : sentCount'[t] > 0 => users = {t}
      BY <1>2, <1>13 DEF FramingTypes
    <3> QED BY <3>1, <1>4, <1>5, <1>6
  <2>3. c + n < full => sentCount'[s] = c + n /\ current'[s] = current[s]
    BY <1>4, <1>5, <1>6
  <2>4. CASE c + n < full
    <3>4. sentCount'[s] = c + n /\ <<s, current'[s]>> = f /\ c + n > 0
      BY <2>3, <2>4, <1>3, <1>4
    <3>1. Partial(s)' = [frame |-> f, pos |-> c + n] /\ sentCount'[s] > 0
      BY <3>4 DEF Partial
    <3>2. Unread'[Len(Unread')] = Partial(s)'
      BY <2>1, <3>1, <1>17
    <3>3. \A t \in Senders : sentCount'[t] > 0 =>
            Unread'[Len(Unread')] = Partial(t)'
      BY <2>2, <3>2
    <3> QED BY <3>1, <3>2, <3>3, <1>4 DEF LastFits
  <2>5. CASE ~(c + n < full)
    <3>1. c + n = full
      BY <2>5, <1>4
    <3>3. r[Len(r)] = [frame |-> f, pos |-> full]
      BY <2>1, <3>1
    <3>4. r[Len(r)].pos = FullSize(r[Len(r)].frame)
      BY <3>3, <1>3
    <3>2. Unread'[Len(Unread')].pos = FullSize(Unread'[Len(Unread')].frame)
      BY <3>4, <1>17
    <3> QED BY <2>2, <2>5, <3>2 DEF LastFits
  <2> QED BY <2>4, <2>5
<1>18. FirstFits'
  <2>1. CASE L > 0
    <3>1. /\ r[1] = q[1] /\ Len(r) > 0
          /\ q[1].pos = IF reading = "prepend" THEN 1 ELSE PrependLength + 1
          /\ reading = "payload" => length = PayloadSize(q[1].frame)
      BY <2>1, <1>4, <1>9, <1>17 DEF Aligned, FirstFits
    <3> QED BY <3>1, <1>13, <1>17 DEF FirstFits
  <2>2. CASE L = 0
    <3>1. r[1] = [frame |-> f, pos |-> c + 1] /\ Len(r) > 0
      <4>1. L + 1 = 1 /\ 1 \in 1 .. n /\ Len(r) > 0
        BY <2>2, <1>4, <1>9
      <4> QED BY <4>1, <1>9
    <3>2. CASE reading = "prepend"
      <4>1. c = 0
        BY <2>2, <3>2, <1>3, <1>4, <1>17 DEF Aligned, FirstFits
      <4>2. Unread'[1].pos = 1
        BY <3>1, <4>1, <1>17
      <4> QED BY <3>1, <3>2, <4>2, <1>13, <1>17 DEF FirstFits
    <3>3. CASE reading # "prepend"
      <4>1. PICK t \in Senders : /\ sentCount[t] = PrependLength
                                 /\ length = PayloadSize(<<t, current[t]>>)
        BY <2>2, <3>3, <1>17 DEF Aligned, FirstFits
      <4>2. t = s
        BY <4>1, SerDesAssumption DEF FramingTypes
      <4>3. c = PrependLength /\ length = PayloadSize(f)
        BY <4>1, <4>2, <1>3
      <4>4. Unread'[1].frame = f /\ Unread'[1].pos = PrependLength + 1
        BY <3>1, <4>3, <1>17, SerDesAssumption
      <4> QED BY <3>1, <3>3, <4>3, <4>4, <1>13, <1>17 DEF FirstFits
    <3> QED BY <3>2, <3>3
  <2> QED BY <2>1, <2>2, <1>8
<1>19. Complete'
  <2>1. ASSUME NEW t \in Senders
        PROVE  Taken(t)' < current'[t]
    <3>1. Taken(t) < current[t] /\ Taken(t) \in Nat
      BY TakenNatural DEF Aligned, Complete
    <3>2. current[t] \in Nat /\ current'[t] \in {current[t], current[t] + 1}
      BY <1>5, <1>6
    <3> QED BY <3>1, <3>2, <1>13
  <2>2. ASSUME NEW t \in Senders, NEW k \in 1 .. MaxFrames,
               Taken(t) < k, k < current'[t]
        PROVE  \E i \in 1 .. Len(r) : r[i].frame = <<t, k>>
    <3>1. CASE k < current[t]
      <4>1. PICK i \in 1 .. L : q[i].frame = <<t, k>>
        BY <2>2, <3>1, <1>17 DEF Aligned, Complete
      <4>2. i \in 1 .. Len(r) /\ r[i] = q[i]
        BY <1>4, <1>9
      <4> QED BY <4>1, <4>2
    <3>2. CASE ~(k < current[t])
      <4>1. t = s /\ k = current[s]
        <5>1. current[t] \in Nat /\ k \in Nat
          BY <1>5
        <5> QED BY <5>1, <2>2, <3>2, <1>5, <1>6
      <4>2. L + 1 \in 1 .. Len(r) /\ r[L + 1].frame = f
        BY <1>4, <1>9
      <4> QED BY <4>1, <4>2, <1>3
    <3> QED BY <3>1, <3>2
  <2> QED BY <2>1, <2>2, <1>13, <1>17 DEF Complete
<1>20. DeliveredWhole'
  <2>1. Whole(delivered) /\ delivered' = delivered
    BY <1>13 DEF Aligned, DeliveredWhole
  <2>2. Whole(delivered')
    BY <2>1
  <2> QED BY <2>2 DEF DeliveredWhole
<1> QED BY <1>11, <1>12, <1>15, <1>16, <1>18, <1>19, <1>20 DEF Aligned

(* What has been received before what is in the connection.                *)
LEMMA Reassembled ==
  ASSUME NEW q \in Seq(Bytes), NEW bytes \in Seq(Bytes),
         NEW rest \in Seq(Bytes), Off(q, bytes, rest)
  PROVE  bytes \o rest = q
<1>1. PICK m \in Nat, l \in Nat : m = Len(bytes) /\ l = Len(rest)
  OBVIOUS
<1>2. /\ Len(q) = m + l
      /\ \A i \in 1 .. m : bytes[i] = q[i]
      /\ \A i \in 1 .. l : rest[i] = q[m + i]
  BY <1>1 DEF Off
<1> DEFINE r == bytes \o rest
<1>3. /\ r \in Seq(Bytes) /\ Len(r) = m + l
      /\ \A i \in 1 .. m + l : r[i] = IF i <= m THEN bytes[i] ELSE rest[i - m]
  BY <1>1
<1> HIDE DEF r
<1>4. ASSUME NEW i \in 1 .. m + l PROVE r[i] = q[i]
  <2>1. CASE i <= m
    BY <2>1, <1>2, <1>3
  <2>2. CASE ~(i <= m)
    <3>1. i - m \in 1 .. l /\ m + (i - m) = i
      BY <2>2
    <3> QED BY <2>2, <3>1, <1>2, <1>3
  <2> QED BY <2>1, <2>2
<1>5. r = q
  BY <1>2, <1>3, <1>4, SeqEqual
<1> QED BY <1>5 DEF r

(* The m bytes of q that a read asked for follow p others of frame f.      *)
OneFrame(q, f, p, m) ==
  /\ m > 0 /\ p + m <= FullSize(f)
  /\ reading = "prepend" => m = PrependLength /\ m < FullSize(f)
  /\ reading # "prepend" => m = PayloadSize(f) /\ p + m = FullSize(f)
  /\ \A i \in 1 .. Len(q) :
       p + i <= FullSize(f) => q[i] = [frame |-> f, pos |-> p + i]

(* All that a read asked for is of one frame, in order.                    *)
LEMMA WholeRead ==
  ASSUME FramingTypes, Aligned,
         NEW q \in Seq(Bytes), q = Unread,
         NEW m \in Nat, m = length, m <= Len(q),
         NEW f \in Frames, f = q[1].frame,
         NEW p \in Nat, p = IF reading = "prepend" THEN 0 ELSE PrependLength
  PROVE  OneFrame(q, f, p, m)
<1>1. /\ reading \in {"prepend", "payload"} /\ m > 0 /\ Len(q) > 0
      /\ Len(q) \in Nat
      /\ reading = "prepend" => m = PrependLength
  <2>1. recvCount = Len(buffer) /\ buffer \in Seq(Bytes) /\ recvCount < length
    BY DEF FramingTypes, FramingTypeOK
  <2>2. m > 0
    BY <2>1
  <2> QED BY <2>2 DEF FramingTypes, FramingTypeOK
<1>2. /\ q[1].pos = p + 1
      /\ reading # "prepend" => m = PayloadSize(f)
  BY <1>1, SerDesAssumption DEF Aligned, FirstFits
<1>3. PICK full \in Nat : full = FullSize(f)
  BY Sizes
<1>4. /\ PayloadSize(f) \in Nat /\ PayloadSize(f) > 0
      /\ full = PayloadSize(f) + PrependLength
      /\ PrependLength \in Nat /\ PrependLength > 0
  BY <1>3, Sizes
<1>5. ASSUME NEW i \in 1 .. Len(q), p + i <= full
      PROVE  q[i] = [frame |-> f, pos |-> p + i]
  <2>1. /\ i - 1 \in 0 .. full - (p + 1) /\ 1 + (i - 1) = i /\ 1 \in 1 .. Len(q)
        /\ p + 1 + (i - 1) = p + i
    BY <1>1, <1>5
  <2>2. i - 1 \in 0 .. FullSize(q[1].frame) - q[1].pos /\ 1 + (i - 1) <= Len(q)
    BY <2>1, <1>2, <1>3
  <2>3. q[1 + (i - 1)] = [frame |-> q[1].frame, pos |-> q[1].pos + (i - 1)]
    BY <2>1, <2>2 DEF Aligned, Runs
  <2> QED BY <2>1, <2>3, <1>2
<1> QED BY <1>1, <1>2, <1>3, <1>4, <1>5 DEF OneFrame

(* A number more.                                                          *)
LEMMA OneMore ==
  ASSUME NEW l \in Nat
  PROVE  1 .. l + 1 = (1 .. l) \cup {l + 1} /\ ~(l + 1 \in 1 .. l)
  OBVIOUS

(* What a handler is given counts for the sender of its first byte.        *)
LEMMA TakenAppended ==
  ASSUME FramingTypes, NEW bytes \in Seq(Bytes), NEW u, bytes[1].frame[1] = u,
         delivered' = Append(delivered, bytes)
  PROVE  /\ Taken(u)' = Taken(u) + 1
         /\ \A t : t # u => Taken(t)' = Taken(t)
<1>9. delivered \in Seq(Seq(Bytes)) /\ delivered' \in Seq(Seq(Bytes))
  <2>1. delivered \in Seq(Seq(Bytes))
    BY DEF FramingTypes, FramingTypeOK
  <2> QED BY <2>1
<1>1. PICK d \in Seq(Seq(Bytes)), l \in Nat : d = delivered /\ l = Len(d)
  BY <1>9
<1>2. PICK e \in Seq(Seq(Bytes)) : e = delivered'
  BY <1>9
<1>3. /\ Len(e) = l + 1 /\ e[l + 1] = bytes
      /\ \A j \in 1 .. l : e[j] = d[j]
  <2>1. e = Append(d, bytes)
    BY <1>1, <1>2
  <2> QED BY <2>1, <1>1
<1>10. \A t : SentBy(d, t) = {j \in 1 .. l : d[j][1].frame[1] = t}
  BY <1>1 DEF SentBy
<1>12. \A t : SentBy(e, t) = {j \in 1 .. l + 1 : e[j][1].frame[1] = t}
  BY <1>3 DEF SentBy
<1>11. 1 .. l + 1 = (1 .. l) \cup {l + 1} /\ ~(l + 1 \in 1 .. l)
  BY OneMore
<1>4. ASSUME NEW t, t # u PROVE SentBy(e, t) = SentBy(d, t)
  <2>1. \A j \in 1 .. l : e[j][1].frame[1] = t <=> d[j][1].frame[1] = t
    BY <1>3
  <2>2. ~(e[l + 1][1].frame[1] = t)
    BY <1>3, <1>4
  <2>3. ASSUME NEW j
        PROVE  j \in SentBy(e, t) <=> j \in SentBy(d, t)
    <3>1. j \in SentBy(d, t) <=> j \in 1 .. l /\ d[j][1].frame[1] = t
      BY <1>10
    <3>2. j \in SentBy(e, t) <=> j \in 1 .. l + 1 /\ e[j][1].frame[1] = t
      BY <1>12
    <3>3. j \in 1 .. l + 1 <=> j \in 1 .. l \/ j = l + 1
      BY <1>11
    <3> QED BY <3>1, <3>2, <3>3, <2>1, <2>2
  <2> QED BY <2>3, <1>10, <1>12
<1>5. SentBy(e, u) = SentBy(d, u) \cup {l + 1}
  BY <1>3, <1>10, <1>12, <1>11, Zenon
<1>6. IsFiniteSet(SentBy(d, u)) /\ ~(l + 1 \in SentBy(d, u))
  <2>1. IsFiniteSet(SentBy(delivered, u))
    BY TakenNatural
  <2>2. IsFiniteSet(SentBy(d, u))
    BY <2>1, <1>1
  <2>3. ~(l + 1 \in SentBy(d, u))
    <3>1. \A j \in SentBy(d, u) : j \in 1 .. l
      BY <1>10, Zenon
    <3> QED BY <3>1, <1>11
  <2> QED BY <2>2, <2>3
<1>7. Cardinality(SentBy(e, u)) = Cardinality(SentBy(d, u)) + 1
  <2>1. PICK A, x : A = SentBy(d, u) /\ x = l + 1
    OBVIOUS
  <2>2. IsFiniteSet(A) /\ x \notin A
    BY <2>1, <1>6
  <2>3. Cardinality(A \cup {x}) = Cardinality(A) + 1
    BY <2>2, FS_AddElement
  <2> QED BY <2>1, <2>3, <1>5
<1>8. \A t : /\ Taken(t) = Cardinality(SentBy(d, t))
             /\ Taken(t)' = Cardinality(SentBy(e, t))
  BY <1>1, <1>2 DEF Taken, SentBy
<1> QED BY <1>4, <1>7, <1>8

(* Aligned says nothing of how far a read has come.                        *)
LEMMA SameAligned ==
  ASSUME Aligned, Unread' = Unread,
         UNCHANGED <<senderVars, reading, length, delivered>>
  PROVE  Aligned'
<1>1. /\ current' = current /\ sentCount' = sentCount
      /\ reading' = reading /\ length' = length /\ delivered' = delivered
  BY DEF senderVars
<1>2. \A t : Taken(t)' = Taken(t)
  BY <1>1 DEF Taken, SentBy
<1>3. PICK q : q = Unread
  OBVIOUS
<1>4. q = Unread'
  BY <1>3
<1>5. Runs(Unread') /\ Joints(Unread') /\ Ordered(Unread')
  BY DEF Aligned
<1>6. \A b : GivenOut(b)' <=> GivenOut(b)
  BY <1>1 DEF GivenOut
<1>7. InRange'
  <2>1. \A i \in 1 .. Len(q) :
          /\ q[i].pos <= FullSize(q[i].frame)
          /\ Taken(q[i].frame[1]) < q[i].frame[2]
          /\ GivenOut(q[i])
    BY <1>3 DEF Aligned, InRange
  <2>2. \A i \in 1 .. Len(q) :
          /\ q[i].pos <= FullSize(q[i].frame)
          /\ Taken(q[i].frame[1])' < q[i].frame[2]
          /\ GivenOut(q[i])'
    BY <2>1, <1>2, <1>6
  <2> QED BY <2>2, <1>4 DEF InRange, Taken, SentBy, GivenOut
<1>8. LastFits'
  <2>1. \A t : Partial(t)' = Partial(t)
    BY <1>1 DEF Partial
  <2> QED BY <2>1, <1>1 DEF Aligned, LastFits
<1>9. FirstFits'
  BY <1>1 DEF Aligned, FirstFits
<1>10. Complete'
  BY <1>1, <1>2 DEF Aligned, Complete
<1>11. DeliveredWhole'
  <2>1. Whole(delivered) /\ delivered' = delivered
    BY <1>1 DEF Aligned, DeliveredWhole
  <2>2. Whole(delivered')
    BY <2>1
  <2> QED BY <2>2 DEF DeliveredWhole
<1> QED BY <1>5, <1>7, <1>8, <1>9, <1>10, <1>11 DEF Aligned

(* A payload more: what was delivered before is as it was.                 *)
LEMMA WholeAppended ==
  ASSUME NEW d \in Seq(Seq(Bytes)), NEW bytes \in Seq(Bytes), Whole(d),
         NEW f \in Frames, bytes = Payload(f),
         f[2] = Cardinality(SentBy(Append(d, bytes), f[1]))
  PROVE  Whole(Append(d, bytes))
<1>1. PICK e \in Seq(Seq(Bytes)), l \in Nat : e = Append(d, bytes) /\ l = Len(d)
  <2>1. Append(d, bytes) \in Seq(Seq(Bytes)) /\ Len(d) \in Nat
    <3> DEFINE S == Seq(Bytes)
    <3>1. d \in Seq(S) /\ bytes \in S
      OBVIOUS
    <3> HIDE DEF S
    <3>2. Append(d, bytes) \in Seq(S) /\ Len(d) \in Nat
      BY <3>1
    <3> QED BY <3>2 DEF S
  <2> QED BY <2>1
<1>2. Len(e) = l + 1 /\ e[l + 1] = bytes /\ \A j \in 1 .. l : e[j] = d[j]
  BY <1>1
<1>3. ASSUME NEW k \in 1 .. l
      PROVE  \E g \in Frames : IsNext(e, k, g)
  <2>1. PICK g \in Frames : IsNext(d, k, g)
    BY <1>1 DEF Whole
  <2>7. \A j \in 1 .. k : j \in 1 .. l
    OBVIOUS
  <2>2. \A j \in 1 .. k : e[j] = d[j]
    BY <2>7, <1>2
  <2>3. {j \in 1 .. k : e[j][1].frame[1] = g[1]}
          = {j \in 1 .. k : d[j][1].frame[1] = g[1]}
    BY <2>2
  <2>4. e[k] = d[k]
    BY <1>2
  <2>5. e[k] = Payload(g)
    BY <2>1, <2>4 DEF IsNext
  <2>6. g[2] = Cardinality({j \in 1 .. k : d[j][1].frame[1] = g[1]})
    BY <2>1 DEF IsNext
  <2> QED BY <2>3, <2>5, <2>6 DEF IsNext
<1>4. IsNext(e, l + 1, f)
  <2>1. f[2] = Cardinality(SentBy(e, f[1]))
    BY <1>1
  <2>2. SentBy(e, f[1]) = {j \in 1 .. l + 1 : e[j][1].frame[1] = f[1]}
    BY <1>2 DEF SentBy
  <2> QED BY <2>1, <2>2, <1>2 DEF IsNext
<1>5. \A k \in 1 .. Len(e) : k \in 1 .. l \/ k = l + 1
  BY <1>2
<1>6. Whole(e)
  BY <1>3, <1>4, <1>5 DEF Whole
<1> QED BY <1>1, <1>6

(* So does a recv(): it goes on, ends a prepend, or delivers a payload.    *)
LEMMA RecvAligns ==
  ASSUME FramingTypes, Aligned, RecvBytes
  PROVE  Aligned'
<1>1. PICK bytes \in Seq(Bytes) :
        /\ Received(Len(bytes), bytes)
        /\ Len(bytes) <= length
        /\ Off(Unread, bytes, stream')
        /\ UNCHANGED <<senderVars, interrupts>>
  BY RecvTypes
<1>2. PICK q \in Seq(Bytes), rest \in Seq(Bytes), m \in Nat, l \in Nat :
        /\ q = Unread /\ rest = stream' /\ m = Len(bytes) /\ l = Len(rest)
  <2>1. Unread \in Seq(Bytes) /\ stream' \in Seq(Bytes)
    BY <1>1, UnreadBytes DEF Off
  <2> QED BY <2>1
<1>3. /\ Off(q, bytes, rest)
      /\ Len(q) = m + l /\ m > 0
      /\ \A i \in 1 .. m : bytes[i] = q[i]
      /\ \A i \in 1 .. l : rest[i] = q[m + i]
  BY <1>1, <1>2 DEF Off
<1>4. /\ current' = current /\ sentCount' = sentCount /\ UNCHANGED senderVars
      /\ \A t \in Senders : current[t] \in Nat /\ sentCount[t] \in Nat
      /\ length \in Nat /\ reading \in {"prepend", "payload"}
      /\ delivered \in Seq(Seq(Bytes)) /\ MaxFrames \in Nat
  BY <1>1, FramingAssumption DEF senderVars, FramingTypes, FramingTypeOK
<1>5. CASE Below(Len(bytes), length)
  <2>1. /\ buffer' = bytes
        /\ UNCHANGED <<reading, length, delivered>>
    BY <1>1, <1>5 DEF Received
  <2>2. bytes \o rest = q
    BY <1>3, Reassembled
  <2>3. Unread' = Unread
    BY <2>1, <2>2, <1>2 DEF Unread
  <2> QED BY <2>1, <2>3, <1>4, SameAligned
<1>6. ASSUME ~Below(Len(bytes), length) PROVE Aligned'
  <2>1. m = length /\ buffer' = <<>>
    BY <1>1, <1>2, <1>4, <1>6 DEF Received, Below
  <2>2. Unread' = rest
    BY <2>1, <1>2 DEF Unread
  <2>3. Runs(Unread') /\ Joints(Unread') /\ Ordered(Unread')
    <3>1. Runs(q) /\ Joints(q) /\ Ordered(q)
      BY <1>2 DEF Aligned
    <3> QED BY <3>1, <2>2, <1>2, <1>3, RestOrdered
  <2>4. /\ \A i \in 1 .. Len(q) : /\ q[i].frame \in Frames /\ q[i].pos \in Nat
                                  /\ FullSize(q[i].frame) \in Nat
        /\ \A i \in 1 .. Len(q) :
             /\ q[i].pos <= FullSize(q[i].frame)
             /\ Taken(q[i].frame[1]) < q[i].frame[2]
             /\ GivenOut(q[i])
    BY <1>2, UnreadBytes DEF Aligned, InRange
  <2>5. PICK f \in Frames, p \in Nat :
          /\ f = q[1].frame
          /\ p = IF reading = "prepend" THEN 0 ELSE PrependLength
    <3>1. 1 \in 1 .. Len(q)
      BY <1>2, <1>3
    <3> QED BY <3>1, <2>4, SerDesAssumption
  <2>6. PICK full \in Nat, u \in Senders :
          /\ full = FullSize(f) /\ f[1] = u /\ f[2] \in Nat /\ f[2] > 0
          /\ f[2] <= MaxFrames
    BY Sizes, FrameParts
  <2>7. /\ p + m <= full
        /\ reading = "prepend" => m = PrependLength /\ m < full
        /\ reading # "prepend" => m = PayloadSize(f) /\ p + m = full
        /\ \A i \in 1 .. Len(q) :
             p + i <= full => q[i] = [frame |-> f, pos |-> p + i]
    <3>1. m = length /\ m <= Len(q)
      BY <2>1, <1>2, <1>3
    <3>2. OneFrame(q, f, p, m)
      <4>1. f = q[1].frame
        BY <2>5
      <4>2. q = Unread
        BY <1>2
      <4>3. p = IF reading = "prepend" THEN 0 ELSE PrependLength
        BY <2>5
      <4> QED BY <4>1, <4>2, <4>3, <3>1, WholeRead
    <3> QED BY <3>2, <2>6 DEF OneFrame
  <2>8. /\ \A i \in 1 .. m : bytes[i] = [frame |-> f, pos |-> p + i]
        /\ q[m] = [frame |-> f, pos |-> p + m]
    <3>1. \A i \in 1 .. m : i \in 1 .. Len(q) /\ p + i <= full
      BY <1>2, <1>3, <2>7
    <3>2. m \in 1 .. m
      BY <1>3
    <3> QED BY <3>1, <3>2, <2>7, <1>3
  <2>9. bytes = Slice(f, p, m)
    <3>1. /\ Slice(f, p, m) \in Seq(Bytes) /\ Len(Slice(f, p, m)) = m
          /\ \A i \in 1 .. m : Slice(f, p, m)[i] = [frame |-> f, pos |-> p + i]
      BY Pieces
    <3>2. \A i \in 1 .. m : bytes[i] = Slice(f, p, m)[i]
      BY <3>1, <2>8
    <3> DEFINE o == Slice(f, p, m)
    <3>3. o \in Seq(Bytes) /\ Len(bytes) = Len(o)
          /\ \A i \in 1 .. Len(bytes) : bytes[i] = o[i]
      BY <3>1, <3>2, <1>2
    <3> HIDE DEF o
    <3>4. bytes = o
      BY <3>3, SeqEqual
    <3> QED BY <3>4 DEF o
  <2>10. bytes[1].frame = f
    <3>1. 1 \in 1 .. m
      BY <1>3
    <3>2. bytes[1] = [frame |-> f, pos |-> p + 1]
      BY <3>1, <2>8
    <3> QED BY <3>2
  <2>11. \A b : GivenOut(b)' <=> GivenOut(b)
    BY <1>4 DEF GivenOut
  <2>12. \A t : Partial(t)' = Partial(t)
    BY <1>4 DEF Partial
  <2>13. \A i \in 1 .. l : m + i \in 1 .. Len(q) /\ rest[i] = q[m + i]
    BY <1>3
  <2>14. LastFits'
    <3>1. l > 0 =>
            /\ \/ rest[l].pos = FullSize(rest[l].frame)
               \/ \E s \in Senders : sentCount[s] > 0 /\ rest[l] = Partial(s)
            /\ \A s \in Senders : sentCount[s] > 0 => rest[l] = Partial(s)
      <4> SUFFICES ASSUME l > 0
                   PROVE  l \in 1 .. l /\ m + l = Len(q) /\ Len(q) > 0
        BY <2>13, <1>2 DEF Aligned, LastFits
      <4> QED BY <1>3
    <3> QED BY <3>1, <2>2, <2>12, <1>2, <1>4 DEF LastFits
  <2>15. CASE reading = "prepend"
    <3>1. /\ reading' = "payload" /\ delivered' = delivered
          /\ length' = PayloadSize(f)
      <4>1. bytes # <<>>
        BY <1>2, <1>3
      <4>2. Lengths(bytes) = {PayloadSize(f)}
        BY <2>5, <2>7, <2>9, <2>10, <2>15 DEF Lengths
      <4> QED BY <4>1, <4>2, <1>1, <1>6, <2>15 DEF Received
    <3>2. \A t : Taken(t)' = Taken(t)
      BY <3>1 DEF Taken, SentBy
    <3>3. p = 0 /\ m = PrependLength /\ m < full
      BY <2>5, <2>7, <2>15
    <3>4. l = 0 => \E s \in Senders :
                     /\ sentCount[s] = PrependLength /\ f = <<s, current[s]>>
      <4> SUFFICES ASSUME l = 0
                   PROVE  \E s \in Senders :
                     /\ sentCount[s] = PrependLength /\ f = <<s, current[s]>>
        OBVIOUS
      <4>1. Len(q) = m /\ q[m].frame = f /\ q[m].pos = m /\ Len(q) > 0
        BY <1>2, <1>3, <2>8, <3>3
      <4>2. q[m].pos # FullSize(q[m].frame)
        BY <4>1, <2>6, <3>3
      <4>3. PICK s \in Senders : sentCount[s] > 0 /\ q[m] = Partial(s)
        BY <4>1, <4>2, <1>2 DEF Aligned, LastFits
      <4> QED BY <4>1, <4>3, <3>3 DEF Partial
    <3>5. l > 0 => rest[1] = [frame |-> f, pos |-> PrependLength + 1]
      <4> SUFFICES ASSUME l > 0
                   PROVE  rest[1] = [frame |-> f, pos |-> PrependLength + 1]
        OBVIOUS
      <4>1. 1 \in 1 .. l /\ m + 1 \in 1 .. Len(q) /\ p + (m + 1) <= full
            /\ p + (m + 1) = m + 1
        BY <1>3, <2>6, <3>3
      <4>2. q[m + 1] = [frame |-> f, pos |-> p + (m + 1)]
        BY <4>1, <2>7
      <4> QED BY <4>1, <4>2, <2>13, <3>3
    <3>6. InRange'
      <4>1. ASSUME NEW i \in 1 .. l
            PROVE  /\ rest[i].pos <= FullSize(rest[i].frame)
                   /\ Taken(rest[i].frame[1])' < rest[i].frame[2]
                   /\ GivenOut(rest[i])'
        BY <2>4, <2>11, <2>13, <3>2
      <4> QED BY <4>1, <2>2, <1>2 DEF InRange, Taken, SentBy, GivenOut
    <3>7. FirstFits'
      <4>1. reading' # "prepend" /\ reading' = "payload"
        BY <3>1
      <4>2. CASE l > 0
        <5>1. Unread'[1] = [frame |-> f, pos |-> PrependLength + 1]
              /\ Len(Unread') > 0
          BY <4>2, <3>5, <2>2, <1>2
        <5> QED BY <5>1, <4>1, <3>1 DEF FirstFits
      <4>3. CASE l = 0
        <5>1. ~(Len(Unread') > 0)
          BY <4>3, <2>2, <1>2
        <5>2. PICK s \in Senders :
                sentCount'[s] = PrependLength /\ f = <<s, current'[s]>>
          BY <4>3, <3>4, <1>4
        <5> QED BY <5>1, <5>2, <4>1, <3>1 DEF FirstFits
      <4> QED BY <4>2, <4>3
    <3>8. Complete'
      <4>1. \A t \in Senders : Taken(t)' < current'[t]
        BY <3>2, <1>4 DEF Aligned, Complete
      <4>2. ASSUME NEW t \in Senders, NEW k \in 1 .. MaxFrames,
                   Taken(t) < k, k < current[t]
            PROVE  \E i \in 1 .. l : rest[i].frame = <<t, k>>
        <5>1. PICK i \in 1 .. Len(q) : q[i].frame = <<t, k>>
          BY <4>2, <1>2 DEF Aligned, Complete
        <5>2. CASE i <= m
          <6>1. f = <<t, k>>
            <7>1. i \in 1 .. m
              BY <5>2, <1>2, <1>3
            <7>2. q[i] = [frame |-> f, pos |-> p + i]
              BY <7>1, <2>8, <1>3
            <7> QED BY <7>2, <5>1
          <6>2. l > 0
            <7>1. ASSUME l = 0 PROVE FALSE
              <8>1. PICK s \in Senders : f = <<s, current[s]>>
                BY <7>1, <3>4
              <8>2. k = current[t]
                BY <8>1, <6>1
              <8> QED BY <8>2, <4>2, <1>4
            <7> QED BY <7>1
          <6>3. /\ 1 \in 1 .. l
                /\ rest[1] = [frame |-> f, pos |-> PrependLength + 1]
            BY <6>2, <3>5
          <6>4. rest[1].frame = <<t, k>>
            BY <6>1, <6>3
          <6> QED BY <6>3, <6>4
        <5>3. CASE ~(i <= m)
          <6>1. i - m \in 1 .. l /\ m + (i - m) = i
            BY <5>3, <1>2, <1>3
          <6> QED BY <6>1, <5>1, <2>13
        <5> QED BY <5>2, <5>3
      <4> QED BY <4>1, <4>2, <3>2, <2>2, <1>2, <1>4 DEF Complete
    <3>9. DeliveredWhole'
      <4>1. Whole(delivered')
        BY <3>1 DEF Aligned, DeliveredWhole
      <4> QED BY <4>1 DEF DeliveredWhole
    <3> QED BY <2>3, <2>14, <3>6, <3>7, <3>8, <3>9 DEF Aligned
  <2>16. CASE reading # "prepend"
    <3>1. /\ reading' = "prepend" /\ length' = PrependLength
          /\ delivered' = Append(delivered, bytes)
      BY <1>1, <1>6, <2>16 DEF Received
    <3>2. Taken(u)' = Taken(u) + 1 /\ \A t : t # u => Taken(t)' = Taken(t)
      <4>1. bytes[1].frame[1] = u
        BY <2>6, <2>10
      <4> QED BY <3>1, <4>1, TakenAppended
    <3>3. p = PrependLength /\ m = PayloadSize(f) /\ p + m = full
      BY <2>5, <2>7, <2>16
    <3>4. f[2] = Taken(u) + 1 /\ Taken(u) \in Nat
      <4>1. Len(Unread) > 0 /\ Unread[1].frame = f
        BY <1>2, <1>3, <2>5
      <4>2. Unread[1].frame[2] = Taken(Unread[1].frame[1]) + 1
        BY <4>1, FirstIsNext
      <4>3. f[2] = Taken(u) + 1
        BY <4>1, <4>2, <2>6
      <4> QED BY <4>3, TakenNatural
    <3>5. /\ m \in 1 .. Len(q) /\ q[m].frame = f /\ q[m].pos = full
          /\ GivenOut(q[m])
      <4>1. m \in 1 .. Len(q)
        BY <1>2, <1>3
      <4> QED BY <4>1, <2>4, <2>8, <3>3
    <3>6. \A s \in Senders : f[1] = s /\ f[2] = current[s] =>
                               sentCount[s] < full
      <4> SUFFICES ASSUME NEW s \in Senders, f[1] = s, f[2] = current[s]
                   PROVE  sentCount[s] < full
        OBVIOUS
      <4>1. f = <<s, current[s]>>
        BY FrameParts
      <4>2. full > 0
        BY <2>6, Sizes
      <4>3. sentCount[s] > 0 => sentCount[s] < FullSize(<<s, current[s]>>)
        BY DEF FramingTypes
      <4> QED BY <4>1, <4>2, <4>3, <2>6, <1>4
    <3>7. InRange'
      <4>1. ASSUME NEW i \in 1 .. l, NEW b \in Bytes, b = rest[i]
            PROVE  /\ b.pos <= FullSize(b.frame)
                   /\ Taken(b.frame[1])' < b.frame[2]
                   /\ GivenOut(b)'
        <5>1. /\ m + i \in 1 .. Len(q) /\ b = q[m + i]
              /\ b.pos <= FullSize(b.frame) /\ GivenOut(b)'
              /\ Taken(b.frame[1]) < b.frame[2]
          BY <4>1, <2>4, <2>11, <2>13
        <5>2. CASE b.frame[1] = u
          <6>1. m < m + i
            BY <1>2
          <6>2. \/ f[2] < b.frame[2]
                \/ f = b.frame /\ full < b.pos
            BY <5>1, <5>2, <6>1, <3>5, <2>6, <1>2 DEF Aligned, Ordered
          <6>3. ~(f = b.frame /\ full < b.pos)
            <7>1. b.pos \in Nat
              BY ByteFields
            <7> QED BY <7>1, <5>1, <2>6
          <6> QED BY <5>1, <5>2, <6>2, <6>3, <3>2, <3>4
        <5>3. CASE b.frame[1] # u
          BY <5>1, <5>3, <3>2
        <5> QED BY <5>2, <5>3
      <4>2. ASSUME NEW i \in 1 .. l
            PROVE  /\ rest[i].pos <= FullSize(rest[i].frame)
                   /\ Taken(rest[i].frame[1])' < rest[i].frame[2]
                   /\ GivenOut(rest[i])'
        <5>1. PICK b \in Bytes : b = rest[i]
          BY <1>2
        <5>2. /\ b.pos <= FullSize(b.frame)
              /\ Taken(b.frame[1])' < b.frame[2]
              /\ GivenOut(b)'
          BY <4>1, <5>1
        <5> QED BY <5>1, <5>2
      <4> QED BY <4>2, <2>2, <1>2 DEF InRange, Taken, SentBy, GivenOut
    <3>8. FirstFits'
      <4>1. CASE l > 0
        <5>1. m \in 1 .. Len(q) - 1 /\ 1 \in 1 .. l
          BY <4>1, <1>2, <1>3
        <5>2. q[m + 1].pos = 1
          BY <5>1, <3>5, <2>6, <1>2 DEF Aligned, Joints
        <5>3. Unread'[1].pos = 1 /\ Len(Unread') > 0
          BY <4>1, <5>1, <5>2, <2>2, <2>13, <1>2
        <5> QED BY <5>3, <3>1 DEF FirstFits
      <4>2. CASE l = 0
        <5>1. ~(Len(Unread') > 0)
          BY <4>2, <2>2, <1>2
        <5>2. ASSUME NEW s \in Senders, sentCount[s] > 0 PROVE FALSE
          <6>1. Len(q) = m /\ Len(q) > 0
            BY <4>2, <1>2, <1>3
          <6>2. q[m] = Partial(s)
            BY <5>2, <6>1, <1>2 DEF Aligned, LastFits
          <6>3. f = <<s, current[s]>> /\ sentCount[s] = full
            BY <6>2, <3>5 DEF Partial
          <6>4. sentCount[s] < full
            BY <6>3, <3>6
          <6> QED BY <6>3, <6>4, <1>4
        <5>3. \A s \in Senders : sentCount'[s] = 0
          BY <5>2, <1>4
        <5> QED BY <5>1, <5>3, <3>1 DEF FirstFits
      <4> QED BY <4>1, <4>2
    <3>9. Complete'
      <4>1. ASSUME NEW t \in Senders PROVE Taken(t)' < current'[t]
        <5>1. Taken(t) < current[t]
          BY DEF Aligned, Complete
        <5>2. CASE t = u
          <6>1. \/ f[2] < current[u]
                \/ f[2] = current[u] /\ full <= sentCount[u]
            BY <3>5, <2>6 DEF GivenOut
          <6>2. f[2] < current[u]
            BY <6>1, <3>6, <2>6, <1>4
          <6> QED BY <5>2, <6>2, <3>2, <3>4, <1>4
        <5>3. CASE t # u
          BY <5>1, <5>3, <3>2, <1>4
        <5> QED BY <5>2, <5>3
      <4>2. ASSUME NEW t \in Senders, NEW k \in 1 .. MaxFrames,
                   Taken(t)' < k, k < current'[t]
            PROVE  \E i \in 1 .. l : rest[i].frame = <<t, k>>
        <5>1. Taken(t) < k
          <6>1. Taken(t) \in Nat /\ Taken(t)' \in {Taken(t), Taken(t) + 1}
            BY <3>2, TakenNatural
          <6>2. k \in Nat
            BY <1>4
          <6> QED BY <6>1, <6>2, <4>2
        <5>2. PICK i \in 1 .. Len(q) : q[i].frame = <<t, k>>
          BY <4>2, <5>1, <1>2, <1>4 DEF Aligned, Complete
        <5>3. ~(i <= m)
          <6>1. ASSUME i <= m PROVE FALSE
            <7>1. i \in 1 .. m
              BY <6>1, <1>2, <1>3
            <7>2. q[i] = [frame |-> f, pos |-> p + i]
              BY <7>1, <2>8, <1>3
            <7>3. t = u /\ k = f[2]
              BY <7>2, <5>2, <2>6
            <7>4. Taken(u)' = k
              BY <7>3, <3>2, <3>4
            <7> QED BY <7>3, <7>4, <4>2, <2>6
          <6> QED BY <6>1
        <5>4. i - m \in 1 .. l /\ m + (i - m) = i
          BY <5>3, <1>2, <1>3
        <5> QED BY <5>2, <5>4, <2>13
      <4> QED BY <4>1, <4>2, <2>2, <1>2 DEF Complete
    <3>10. DeliveredWhole'
      <4>1. bytes = Payload(f)
        BY <2>9, <3>3 DEF Payload
      <4>2. f[2] = Cardinality(SentBy(delivered', u))
        BY <3>2, <3>4 DEF Taken, SentBy
      <4>3. f[2] = Cardinality(SentBy(Append(delivered, bytes), f[1]))
        BY <4>2, <3>1, <2>6
      <4>4. Whole(delivered)
        BY DEF Aligned, DeliveredWhole
      <4>5. PICK d \in Seq(Seq(Bytes)) : d = delivered
        BY <1>4
      <4>6. Whole(Append(d, bytes))
        BY <4>1, <4>3, <4>4, <4>5, WholeAppended
      <4>7. Whole(delivered')
        BY <4>5, <4>6, <3>1
      <4> QED BY <4>7 DEF DeliveredWhole
    <3> QED BY <2>3, <2>14, <3>7, <3>8, <3>9, <3>10 DEF Aligned
  <2> QED BY <2>15, <2>16
<1> QED BY <1>5, <1>6

(* Every step keeps the types.                                             *)
LEMMA FramingTypesNext ==
  ASSUME FramingTypes, [FramingNext]_framingVars
  PROVE  FramingTypes'
<1>1. CASE UNCHANGED framingVars
  BY <1>1 DEF framingVars, senderVars, receiverVars, FramingTypes, FramingTypeOK
<1> QED BY <1>1, SendTypes, InterruptTypes, FailTypes, RecvTypes,
           RecvInterruptTypes DEF FramingNext

(* Every step keeps the second invariant.                                  *)
LEMMA FramingAlignedNext ==
  ASSUME FramingTypes, StreamInv, [FramingNext]_framingVars
  PROVE  FramingTypes' /\ StreamInv'
<1>1. interrupts \in Nat
  BY DEF FramingTypes
<1>2. CASE UNCHANGED framingVars
  <2>1. /\ FramingTypes'
        /\ interrupts' = interrupts /\ Unread' = Unread
        /\ UNCHANGED <<senderVars, reading, length, delivered>>
    BY <1>2 DEF framingVars, senderVars, receiverVars, FramingTypes,
                FramingTypeOK, Unread
  <2> QED BY <2>1, SameAligned DEF StreamInv
<1>3. ASSUME NEW s \in users, Send(s) PROVE FramingTypes' /\ StreamInv'
  <2>1. interrupts' = interrupts
    BY <1>3 DEF Send
  <2> QED BY <1>3, <2>1, SendTypes, SendAligns DEF StreamInv
<1>4. ASSUME NEW s \in users, SendInterrupted(s)
      PROVE  FramingTypes' /\ StreamInv'
  <2>1. interrupts' = interrupts + 1
    BY <1>4 DEF SendInterrupted
  <2> QED BY <1>1, <1>4, <2>1, InterruptTypes DEF StreamInv
<1>5. CASE RecvBytes
  <2>1. interrupts' = interrupts
    BY <1>5 DEF RecvBytes
  <2> QED BY <1>5, <2>1, RecvTypes, RecvAligns DEF StreamInv
<1>6. CASE RecvInterrupted
  <2>1. interrupts' = interrupts + 1
    BY <1>6 DEF RecvInterrupted
  <2> QED BY <1>1, <1>6, <2>1, RecvInterruptTypes DEF StreamInv
<1>7. ASSUME NEW s \in users, SerializeFails(s)
      PROVE  FramingTypes' /\ StreamInv'
  <2>1. FramingTypes' /\ UNCHANGED <<senderVars, stream, receiverVars, interrupts>>
    BY <1>7, FailTypes
  <2>2. interrupts' = interrupts /\ Unread' = Unread
        /\ UNCHANGED <<senderVars, reading, length, delivered>>
    BY <2>1 DEF receiverVars, Unread
  <2> QED BY <2>1, <2>2, SameAligned DEF StreamInv
<1> QED BY <1>2, <1>3, <1>4, <1>5, <1>6, <1>7 DEF FramingNext

(* wsa_common.h getMessageFrame: however send() and recv() cut the stream, *)
(* every payload is handed on whole, once and in its sender's order, as    *)
(* long as no call is interrupted.                                         *)
THEOREM PayloadsArriveWhole == FramingSpec => []FramesIntact
<1> DEFINE Inv == FramingTypes /\ StreamInv
<1>1. FramingInit => Inv
  BY TypesInit, AlignedInit DEF StreamInv
<1>2. Inv /\ [FramingNext]_framingVars => Inv'
  BY FramingAlignedNext
<1>3. Inv => FramesIntact
  BY DEF FramingTypes, StreamInv, Aligned, DeliveredWhole, Whole, IsNext,
         FramesIntact
<1> QED BY <1>1, <1>2, <1>3, PTL DEF FramingSpec

-----------------------------------------------------------------------------
(* Nobody looks whether a message fits into its array, but what does not   *)
(* is never sent: the third invariant.                                     *)
Fitting == {b \in Bytes : Fits(Message(b.frame))}
FitInv ==
  stream \in Seq(Fitting) /\ buffer \in Seq(Fitting) /\ delivered \in Seq(Seq(Fitting))

(* What is read of bytes that fit fits.                                    *)
LEMMA ReceivedFits ==
  ASSUME FitInv, NEW count, NEW bytes \in Seq(Fitting), Received(count, bytes)
  PROVE  buffer' \in Seq(Fitting) /\ delivered' \in Seq(Seq(Fitting))
<1> DEFINE S == Seq(Fitting)
<1>1. bytes \in S /\ buffer \in S /\ <<>> \in S /\ delivered \in Seq(S)
  BY DEF FitInv
<1> HIDE DEF S
<1>2. Append(delivered, bytes) \in Seq(S)
  BY <1>1
<1>3. buffer' \in {bytes, <<>>} /\ delivered' \in {delivered, Append(delivered, bytes)}
  BY DEF Received
<1>4. buffer' \in S /\ delivered' \in Seq(S)
  BY <1>1, <1>2, <1>3
<1> QED BY <1>4 DEF S

(* Every step keeps the third invariant.                                   *)
LEMMA FitNext ==
  ASSUME FramingTypes, FitInv, [FramingNext]_framingVars
  PROVE  FitInv'
<1>1. stream \in Seq(Fitting) /\ buffer \in Seq(Fitting)
  BY DEF FitInv
<1>2. CASE UNCHANGED framingVars
  BY <1>2 DEF framingVars, receiverVars, FitInv
<1>3. ASSUME NEW s \in users, Send(s) PROVE FitInv'
  <2> DEFINE f == <<s, current[s]>>
  <2>1. Fits(Message(f)) /\ current[s] <= MaxFrames
    BY <1>3 DEF Send, Serializes
  <2>2. f \in Frames /\ sentCount[s] \in Nat /\ FullSize(f) \in Nat
    BY <2>1, Rest
  <2>3. PICK n \in 1 .. FullSize(f) - sentCount[s] :
          /\ stream' = stream \o Slice(f, sentCount[s], n)
          /\ UNCHANGED receiverVars
    BY <1>3, SendTypes
  <2> HIDE DEF f
  <2>4. n \in Nat
    BY <2>2
  <2>5. \A i \in 1 .. n : [frame |-> f, pos |-> sentCount[s] + i] \in Fitting
    BY <2>1, <2>2 DEF Fitting, Bytes
  <2>6. Slice(f, sentCount[s], n) \in Seq(Fitting)
    BY <2>4, <2>5 DEF Slice
  <2> QED BY <1>1, <2>3, <2>6 DEF FitInv, receiverVars
<1>4. ASSUME NEW s \in users, SendInterrupted(s) \/ SerializeFails(s)
      PROVE  FitInv'
  BY <1>4 DEF SendInterrupted, SerializeFails, receiverVars, FitInv
<1>5. CASE RecvBytes
  <2>1. /\ Len(stream) \in Nat
        /\ length - recvCount \in Int
    BY <1>1 DEF FramingTypes, FramingTypeOK
  <2>2. PICK n \in 1 .. (IF Len(stream) < length - recvCount THEN Len(stream)
                         ELSE length - recvCount) :
          /\ stream' = SubSeq(stream, n + 1, Len(stream))
          /\ Received(recvCount + n, buffer \o SubSeq(stream, 1, n))
    BY <1>5, Zenon DEF RecvBytes
  <2>3. n \in Nat /\ 1 <= n /\ n <= Len(stream)
    BY <2>1
  <2>4. /\ SubSeq(stream, 1, n) \in Seq(Fitting)
        /\ SubSeq(stream, n + 1, Len(stream)) \in Seq(Fitting)
    BY <1>1, <2>3
  <2>5. buffer \o SubSeq(stream, 1, n) \in Seq(Fitting)
    BY <1>1, <2>4
  <2> QED BY <2>2, <2>4, <2>5, ReceivedFits DEF FitInv
<1>6. CASE RecvInterrupted
  <2>1. /\ Received(recvCount - 1, IF buffer = <<>> THEN <<>> ELSE Front(buffer))
        /\ stream' = stream
    BY <1>6 DEF RecvInterrupted
  <2>2. (IF buffer = <<>> THEN <<>> ELSE Front(buffer)) \in Seq(Fitting)
    <3>1. CASE buffer = <<>>
      BY <3>1
    <3>2. CASE buffer # <<>>
      <4>1. Front(buffer) \in Seq(Fitting)
        BY <1>1, <3>2 DEF Front
      <4> QED BY <3>2, <4>1
    <3> QED BY <3>1, <3>2
  <2> QED BY <1>1, <2>1, <2>2, ReceivedFits DEF FitInv
<1> QED BY <1>2, <1>3, <1>4, <1>5, <1>6 DEF FramingNext

-----------------------------------------------------------------------------
(* A number and its bytes.                                                 *)

(* Of some naturals one is the least.                                      *)
LEMMA LeastOf ==
  ASSUME NEW S \in SUBSET Nat, S # {}
  PROVE  \E m \in S : \A k \in S : m <= k
<1>1. PICK m \in S : \A k \in S : ~(<<k, m>> \in OpToRel(<, Nat))
  BY NatLessThanWellFounded, WFMin, Zenon
<1>2. ASSUME NEW k \in S PROVE m <= k
  <2>1. ~(k < m)
    BY <1>1 DEF OpToRel
  <2> QED BY <2>1
<1> QED BY <1>2

(* A set with 0 and, up to n, the successor of what it has, has all that.  *)
LEMMA ClosedUpTo ==
  ASSUME NEW n \in Nat, NEW A, 0 \in A, \A i \in 1 .. n : i - 1 \in A => i \in A
  PROVE  0 .. n \subseteq A
<1> DEFINE Wrong == (0 .. n) \ A
<1>1. ASSUME Wrong # {} PROVE FALSE
  <2>1. PICK m \in Wrong : \A k \in Wrong : m <= k
    <3>1. Wrong \in SUBSET Nat
      OBVIOUS
    <3> HIDE DEF Wrong
    <3> QED BY <3>1, <1>1, LeastOf
  <2>2. m \in 0 .. n /\ m \notin A /\ m # 0
    OBVIOUS
  <2>3. m \in 1 .. n /\ m - 1 \in 0 .. n /\ ~(m <= m - 1)
    BY <2>2
  <2>4. m - 1 \in A
    BY <2>1, <2>3
  <2> QED BY <2>2, <2>3, <2>4
<1> QED BY <1>1

(* What is defined from one number to the next is defined up to n.         *)
LEMMA DefinedUpTo ==
  ASSUME NEW n \in Nat, NEW base \in Nat, NEW G \in [Nat \X Nat -> Nat]
  PROVE  \E f \in [0 .. n -> Nat] :
           f[0] = base /\ \A i \in 1 .. n : f[i] = G[<<i, f[i - 1]>>]
<1> DEFINE Defined(f, m) ==
             f[0] = base /\ \A i \in 1 .. m : f[i] = G[<<i, f[i - 1]>>]
           A == {m \in Nat : \E f \in [0 .. m -> Nat] : Defined(f, m)}
<1>1. 0 \in A
  <2> DEFINE f == [i \in 0 .. 0 |-> base]
  <2>1. f \in [0 .. 0 -> Nat] /\ Defined(f, 0)
    OBVIOUS
  <2> QED BY <2>1
<1>2. ASSUME NEW m \in 1 .. n, m - 1 \in A PROVE m \in A
  <2>1. PICK g \in [0 .. m - 1 -> Nat] : Defined(g, m - 1)
    BY <1>2
  <2> DEFINE f == [i \in 0 .. m |-> IF i = m THEN G[<<m, g[m - 1]>>] ELSE g[i]]
  <2>2. m \in Nat /\ m - 1 \in Nat /\ m - 1 \in 0 .. m - 1 /\ m # 0 /\ 0 \in 0 .. m
    OBVIOUS
  <2>3. G[<<m, g[m - 1]>>] \in Nat
    <3>1. g[m - 1] \in Nat
      BY <2>1, <2>2
    <3> QED BY <3>1, <2>2
  <2>4. \A i \in 0 .. m : i # m => i \in 0 .. m - 1 /\ f[i] = g[i]
    OBVIOUS
  <2>5. f \in [0 .. m -> Nat]
    BY <2>1, <2>3
  <2>6. f[m] = G[<<m, g[m - 1]>>]
    BY <2>2
  <2> HIDE DEF f
  <2>7. f[0] = base
    BY <2>1, <2>2, <2>4
  <2>8. ASSUME NEW i \in 1 .. m PROVE f[i] = G[<<i, f[i - 1]>>]
    <3>1. i - 1 \in 0 .. m /\ i - 1 # m /\ i \in 0 .. m
      BY <2>2
    <3>2. f[i - 1] = g[i - 1]
      BY <3>1, <2>4
    <3>3. CASE i = m
      BY <3>3, <3>2, <2>6
    <3>4. CASE i # m
      <4>1. i \in 1 .. m - 1 /\ f[i] = g[i]
        BY <3>4, <3>1, <2>4
      <4> QED BY <4>1, <3>2, <2>1
    <3> QED BY <3>3, <3>4
  <2> QED BY <2>2, <2>5, <2>7, <2>8
<1>3. 0 .. n \subseteq A
  <2> HIDE DEF A
  <2> QED BY <1>1, <1>2, ClosedUpTo
<1>4. n \in A
  <2> HIDE DEF A
  <2> QED BY <1>3
<1> QED BY <1>4

(* Values is what its definition says: it exists.                          *)
LEMMA ValuesAre ==
  /\ Values \in [0 .. PrependLength -> Nat]
  /\ Values[0] = 1
  /\ \A n \in 1 .. PrependLength : Values[n] = 256 * Values[n - 1]
<1> DEFINE P == PrependLength
           G == [x \in Nat \X Nat |-> 256 * x[2]]
           IsValues(f) == f = [n \in 0 .. P |-> IF n = 0 THEN 1 ELSE 256 * f[n - 1]]
<1>1. P \in Nat
  BY SerDesAssumption
<1>0. G \in [Nat \X Nat -> Nat]
  OBVIOUS
<1>2. \A i, x \in Nat : G[<<i, x>>] = 256 * x
  OBVIOUS
<1> HIDE DEF P, G
<1>3. PICK f \in [0 .. P -> Nat] :
        f[0] = 1 /\ \A i \in 1 .. P : f[i] = G[<<i, f[i - 1]>>]
  <2>1. \A base \in Nat, g \in [Nat \X Nat -> Nat] :
          \E f \in [0 .. P -> Nat] :
            f[0] = base /\ \A i \in 1 .. P : f[i] = g[<<i, f[i - 1]>>]
    BY <1>1, DefinedUpTo
  <2>2. \A base \in Nat :
          \E f \in [0 .. P -> Nat] :
            f[0] = base /\ \A i \in 1 .. P : f[i] = G[<<i, f[i - 1]>>]
    BY <2>1, <1>0, Zenon
  <2> QED BY <2>2
<1>4. ASSUME NEW i \in 0 .. P
      PROVE  f[i] = IF i = 0 THEN 1 ELSE 256 * f[i - 1]
  <2>1. CASE i = 0
    BY <2>1, <1>3
  <2>2. CASE i # 0
    <3>1. i \in 1 .. P /\ i \in Nat /\ i - 1 \in 0 .. P
      BY <2>2, <1>1
    <3>2. f[i] = G[<<i, f[i - 1]>>] /\ f[i - 1] \in Nat
      BY <3>1, <1>3
    <3> QED BY <3>1, <3>2, <2>2, <1>2
  <2> QED BY <2>1, <2>2
<1>5. IsValues(f)
  BY <1>4
<1>6. Values = CHOOSE v : IsValues(v)
  BY DEF Values, P
<1>7. IsValues(Values)
  <2> HIDE DEF IsValues
  <2> QED BY <1>5, <1>6
<1> DEFINE v == Values
<1>8. v = [n \in 0 .. P |-> IF n = 0 THEN 1 ELSE 256 * v[n - 1]]
  BY <1>7
<1> HIDE DEF v
<1>9. /\ v[0] = 1
      /\ \A n \in 1 .. P : v[n] = 256 * v[n - 1]
      /\ v = [n \in 0 .. P |-> v[n]]
  <2>1. \A n \in 0 .. P : v[n] = IF n = 0 THEN 1 ELSE 256 * v[n - 1]
    BY <1>8
  <2>2. \A n \in 1 .. P : n \in 0 .. P /\ n # 0
    OBVIOUS
  <2>3. 0 \in 0 .. P
    BY <1>1
  <2>4. DOMAIN v = 0 .. P /\ v = [n \in DOMAIN v |-> v[n]]
    BY <1>8
  <2> QED BY <2>1, <2>2, <2>3, <2>4
<1>10. \A n \in 0 .. P : v[n] \in Nat
  <2> DEFINE A == {n \in 0 .. P : v[n] \in Nat}
  <2>1. 0 \in A
    BY <1>1, <1>9
  <2>2. ASSUME NEW i \in 1 .. P, i - 1 \in A PROVE i \in A
    <3>1. i \in 0 .. P /\ v[i - 1] \in Nat
      BY <2>2, <1>1
    <3>2. v[i] = 256 * v[i - 1]
      BY <1>9
    <3> QED BY <3>1, <3>2
  <2>3. 0 .. P \subseteq A
    <3> HIDE DEF A
    <3> QED BY <2>1, <2>2, <1>1, ClosedUpTo
  <2> QED BY <2>3
<1> QED BY <1>9, <1>10 DEF P, v

(* The equation of the shifted values of a number.                         *)
IsShifted(f, value) ==
  f = [n \in 0 .. PrependLength |->
         IF n = 0 THEN value ELSE f[n - 1] \div 256]

(* storeHostu32 takes its bytes from a number and its quotients.           *)
LEMMA ShiftedAre ==
  ASSUME NEW value \in Nat
  PROVE  \E f \in [0 .. PrependLength -> Nat] :
           /\ f[0] = value
           /\ \A n \in 1 .. PrependLength : f[n] = f[n - 1] \div 256
           /\ StoreHostu32(value) =
                [k \in 1 .. PrependLength |-> f[PrependLength - k] % 256]
<1> DEFINE P == PrependLength
           G == [x \in Nat \X Nat |-> x[2] \div 256]
           v == CHOOSE f : IsShifted(f, value)
<1>1. P \in Nat
  BY SerDesAssumption
<1>2. G \in [Nat \X Nat -> Nat]
  <2>1. \A x \in Nat : x \div 256 \in Nat
    OBVIOUS
  <2> QED BY <2>1
<1>3. \A i, x \in Nat : G[<<i, x>>] = x \div 256
  OBVIOUS
<1> HIDE DEF P, G
<1>4. PICK f \in [0 .. P -> Nat] :
        f[0] = value /\ \A i \in 1 .. P : f[i] = G[<<i, f[i - 1]>>]
  <2>1. \A base \in Nat, g \in [Nat \X Nat -> Nat] :
          \E f \in [0 .. P -> Nat] :
            f[0] = base /\ \A i \in 1 .. P : f[i] = g[<<i, f[i - 1]>>]
    BY <1>1, DefinedUpTo
  <2> QED BY <2>1, <1>2, Zenon
<1>5. ASSUME NEW i \in 0 .. P
      PROVE  f[i] = IF i = 0 THEN value ELSE f[i - 1] \div 256
  <2>1. CASE i = 0
    BY <2>1, <1>4
  <2>2. CASE i # 0
    <3>1. i \in 1 .. P /\ i \in Nat /\ i - 1 \in 0 .. P
      BY <2>2, <1>1
    <3>2. f[i] = G[<<i, f[i - 1]>>] /\ f[i - 1] \in Nat
      BY <3>1, <1>4
    <3> QED BY <3>1, <3>2, <2>2, <1>3
  <2> QED BY <2>1, <2>2
<1>6. IsShifted(f, value)
  BY <1>5 DEF IsShifted, P
<1>7. IsShifted(v, value)
  BY <1>6, Zenon
<1>8. StoreHostu32(value) = [k \in 1 .. P |-> v[P - k] % 256]
  BY DEF StoreHostu32, IsShifted, P
<1> HIDE DEF v
<1>9. v = [n \in 0 .. P |-> IF n = 0 THEN value ELSE v[n - 1] \div 256]
  BY <1>7 DEF IsShifted, P
<1>10. /\ v[0] = value
       /\ \A n \in 1 .. P : v[n] = v[n - 1] \div 256
       /\ v = [n \in 0 .. P |-> v[n]]
  <2>1. \A n \in 0 .. P : v[n] = IF n = 0 THEN value ELSE v[n - 1] \div 256
    BY <1>9
  <2>2. \A n \in 1 .. P : n \in 0 .. P /\ n # 0
    OBVIOUS
  <2>3. 0 \in 0 .. P
    BY <1>1
  <2>4. DOMAIN v = 0 .. P /\ v = [n \in DOMAIN v |-> v[n]]
    BY <1>9
  <2> QED BY <2>1, <2>2, <2>3, <2>4
<1>11. \A n \in 0 .. P : v[n] \in Nat
  <2> DEFINE A == {n \in 0 .. P : v[n] \in Nat}
  <2>1. 0 \in A
    BY <1>1, <1>10
  <2>2. ASSUME NEW i \in 1 .. P, i - 1 \in A PROVE i \in A
    <3>1. i \in 0 .. P /\ v[i - 1] \in Nat
      BY <2>2, <1>1
    <3>2. v[i] = v[i - 1] \div 256
      BY <1>10
    <3> QED BY <3>1, <3>2
  <2>3. 0 .. P \subseteq A
    <3> HIDE DEF A
    <3> QED BY <2>1, <2>2, <1>1, ClosedUpTo
  <2> QED BY <2>3
<1>12. v \in [0 .. P -> Nat]
  BY <1>10, <1>11
<1> QED BY <1>8, <1>10, <1>12 DEF P

(* The equation of the number that the first bytes make.                   *)
IsUpTo(f, bytes) ==
  f = [n \in 0 .. PrependLength |->
         IF n = 0 THEN 0 ELSE 256 * f[n - 1] + bytes[n]]

(* readHostu32 makes its number of the bytes, one after the other.         *)
LEMMA UpToAre ==
  ASSUME NEW bytes \in [1 .. PrependLength -> Nat]
  PROVE  \E f \in [0 .. PrependLength -> Nat] :
           /\ f[0] = 0
           /\ \A n \in 1 .. PrependLength : f[n] = 256 * f[n - 1] + bytes[n]
           /\ ReadHostu32(bytes) = f[PrependLength]
<1> DEFINE P == PrependLength
           byte(i) == IF i \in 1 .. P THEN bytes[i] ELSE 0
           G == [x \in Nat \X Nat |-> 256 * x[2] + byte(x[1])]
           v == CHOOSE f : IsUpTo(f, bytes)
<1>1. P \in Nat
  BY SerDesAssumption
<1>2. G \in [Nat \X Nat -> Nat]
  <2>1. \A i, x \in Nat : 256 * x + byte(i) \in Nat
    OBVIOUS
  <2> HIDE DEF byte
  <2> QED BY <2>1
<1>3. \A i, x \in Nat : i \in 1 .. P => G[<<i, x>>] = 256 * x + bytes[i]
  OBVIOUS
<1> HIDE DEF P, G
<1>4. PICK f \in [0 .. P -> Nat] :
        f[0] = 0 /\ \A i \in 1 .. P : f[i] = G[<<i, f[i - 1]>>]
  <2>1. \A base \in Nat, g \in [Nat \X Nat -> Nat] :
          \E f \in [0 .. P -> Nat] :
            f[0] = base /\ \A i \in 1 .. P : f[i] = g[<<i, f[i - 1]>>]
    BY <1>1, DefinedUpTo
  <2>2. \A base \in Nat :
          \E f \in [0 .. P -> Nat] :
            f[0] = base /\ \A i \in 1 .. P : f[i] = G[<<i, f[i - 1]>>]
    BY <2>1, <1>2, Zenon
  <2> QED BY <2>2
<1>5. ASSUME NEW i \in 0 .. P
      PROVE  f[i] = IF i = 0 THEN 0 ELSE 256 * f[i - 1] + bytes[i]
  <2>1. CASE i = 0
    BY <2>1, <1>4
  <2>2. CASE i # 0
    <3>1. i \in 1 .. P /\ i \in Nat /\ i - 1 \in 0 .. P
      BY <2>2, <1>1
    <3>2. f[i] = G[<<i, f[i - 1]>>] /\ f[i - 1] \in Nat
      BY <3>1, <1>4
    <3> QED BY <3>1, <3>2, <2>2, <1>3
  <2> QED BY <2>1, <2>2
<1>6. IsUpTo(f, bytes)
  BY <1>5 DEF IsUpTo, P
<1>7. IsUpTo(v, bytes)
  BY <1>6, Zenon
<1>8. ReadHostu32(bytes) = v[P]
  BY DEF ReadHostu32, IsUpTo, P
<1> HIDE DEF v
<1>9. v = [n \in 0 .. P |-> IF n = 0 THEN 0 ELSE 256 * v[n - 1] + bytes[n]]
  BY <1>7 DEF IsUpTo, P
<1>10. /\ v[0] = 0
       /\ \A n \in 1 .. P : v[n] = 256 * v[n - 1] + bytes[n]
       /\ v = [n \in 0 .. P |-> v[n]]
  <2>1. \A n \in 0 .. P : v[n] = IF n = 0 THEN 0 ELSE 256 * v[n - 1] + bytes[n]
    BY <1>9
  <2>2. \A n \in 1 .. P : n \in 0 .. P /\ n # 0
    OBVIOUS
  <2>3. 0 \in 0 .. P
    BY <1>1
  <2>4. DOMAIN v = 0 .. P /\ v = [n \in DOMAIN v |-> v[n]]
    BY <1>9
  <2> QED BY <2>1, <2>2, <2>3, <2>4
<1>11. \A n \in 0 .. P : v[n] \in Nat
  <2> DEFINE A == {n \in 0 .. P : v[n] \in Nat}
  <2>1. 0 \in A
    BY <1>1, <1>10
  <2>2. ASSUME NEW i \in 1 .. P, i - 1 \in A PROVE i \in A
    <3>1. i \in 0 .. P /\ v[i - 1] \in Nat
      BY <2>2, <1>1
    <3>2. v[i] = 256 * v[i - 1] + bytes[i]
      BY <1>10
    <3>3. bytes[i] \in Nat
      BY DEF P
    <3> QED BY <3>1, <3>2, <3>3
  <2>3. 0 .. P \subseteq A
    <3> HIDE DEF A
    <3> QED BY <2>1, <2>2, <1>1, ClosedUpTo
  <2> QED BY <2>3
<1>12. v \in [0 .. P -> Nat]
  BY <1>10, <1>11
<1> QED BY <1>8, <1>10, <1>12 DEF P

(* storeHostu32 writes bytes, so many as a number has.                     *)
LEMMA StoredBytes ==
  ASSUME NEW value \in Nat
  PROVE  StoreHostu32(value) \in [1 .. PrependLength -> Byte]
<1> DEFINE P == PrependLength
           b == StoreHostu32(value)
<1>1. P \in Nat
  BY SerDesAssumption
<1>2. PICK f \in [0 .. P -> Nat] :
        /\ f[0] = value
        /\ \A n \in 1 .. P : f[n] = f[n - 1] \div 256
        /\ b = [k \in 1 .. P |-> f[P - k] % 256]
  BY ShiftedAre
<1> HIDE DEF P, b
<1>3. ASSUME NEW k \in 1 .. P PROVE f[P - k] % 256 \in Byte
  <2>1. P - k \in 0 .. P
    BY <1>1
  <2>2. PICK m \in Nat : m = f[P - k]
    BY <2>1
  <2>3. m % 256 \in Byte
    BY DEF Byte
  <2> QED BY <2>2, <2>3
<1>4. b \in [1 .. P -> Byte]
  BY <1>2, <1>3
<1> QED BY <1>4 DEF P, b

(* wsa_common.h:84-103: readHostu32 gives back what storeHostu32 has       *)
(* stored, if it was a number of so many bytes.                            *)
LEMMA NumbersReadBack ==
  ASSUME NEW value \in Number
  PROVE  /\ StoreHostu32(value) \in [1 .. PrependLength -> Byte]
         /\ ReadHostu32(StoreHostu32(value)) = value
<1> DEFINE P == PrependLength
           b == StoreHostu32(value)
<1>1. /\ P \in Nat /\ Values \in [0 .. P -> Nat] /\ Values[0] = 1
      /\ \A n \in 1 .. P : Values[n] = 256 * Values[n - 1]
  BY SerDesAssumption, ValuesAre
<1>2. value \in Nat /\ value < Values[P]
  BY <1>1 DEF Number
<1>3. PICK f \in [0 .. P -> Nat] :
        /\ f[0] = value
        /\ \A n \in 1 .. P : f[n] = f[n - 1] \div 256
        /\ b = [k \in 1 .. P |-> f[P - k] % 256]
  BY <1>2, ShiftedAre
<1> HIDE DEF P, b
<1>4. \A k \in 1 .. P : b[k] = f[P - k] % 256
  BY <1>3
<1>5. b \in [1 .. P -> Byte]
  BY <1>2, StoredBytes DEF P, b
<1>6. b \in [1 .. P -> Nat]
  <2>1. Byte \subseteq Nat
    BY DEF Byte
  <2> QED BY <1>5, <2>1
<1>7. PICK g \in [0 .. P -> Nat] :
        /\ g[0] = 0
        /\ \A n \in 1 .. P : g[n] = 256 * g[n - 1] + b[n]
        /\ ReadHostu32(b) = g[P]
  BY <1>6, UpToAre DEF P
<1>8. f[P] = 0
  <2> DEFINE A == {n \in 0 .. P : f[n] < Values[P - n]}
  <2>1. 0 \in A
    BY <1>1, <1>2, <1>3
  <2>2. ASSUME NEW i \in 1 .. P, i - 1 \in A PROVE i \in A
    <3>1. /\ i \in 0 .. P /\ i - 1 \in 0 .. P /\ P - i \in 0 .. P
          /\ P - (i - 1) \in 1 .. P /\ P - (i - 1) - 1 = P - i
      BY <1>1
    <3>2. f[i - 1] < Values[P - (i - 1)]
      BY <2>2
    <3>3. Values[P - (i - 1)] = 256 * Values[P - i]
      BY <3>1, <1>1
    <3>4. f[i - 1] \in Nat /\ f[i] = f[i - 1] \div 256
      BY <3>1, <1>3
    <3>6. Values[P - i] \in Nat
      BY <3>1, <1>1
    <3>5. f[i] < Values[P - i]
      BY <3>2, <3>3, <3>4, <3>6
    <3> QED BY <3>1, <3>5
  <2>3. 0 .. P \subseteq A
    <3> HIDE DEF A
    <3> QED BY <2>1, <2>2, <1>1, ClosedUpTo
  <2>4. P \in 0 .. P /\ P - P = 0
    BY <1>1
  <2>5. f[P] < Values[0] /\ f[P] \in Nat
    BY <2>3, <2>4
  <2> QED BY <2>5, <1>1
<1>9. g[P] = f[0]
  <2> DEFINE A == {n \in 0 .. P : g[n] = f[P - n]}
  <2>1. 0 \in A
    BY <1>1, <1>7, <1>8
  <2>2. ASSUME NEW i \in 1 .. P, i - 1 \in A PROVE i \in A
    <3>1. /\ i \in 0 .. P /\ P - i \in 0 .. P
          /\ P - (i - 1) \in 1 .. P /\ P - (i - 1) - 1 = P - i
      BY <1>1
    <3>2. g[i - 1] = f[P - (i - 1)]
      BY <2>2
    <3>3. f[P - (i - 1)] = f[P - i] \div 256 /\ f[P - i] \in Nat
      BY <3>1, <1>3
    <3>4. g[i] = 256 * g[i - 1] + b[i] /\ b[i] = f[P - i] % 256
      BY <1>4, <1>7
    <3>5. g[i] = f[P - i]
      BY <3>2, <3>3, <3>4
    <3> QED BY <3>1, <3>5
  <2>3. 0 .. P \subseteq A
    <3> HIDE DEF A
    <3> QED BY <2>1, <2>2, <1>1, ClosedUpTo
  <2>4. P \in 0 .. P /\ P - P = 0
    BY <1>1
  <2> QED BY <2>3, <2>4
<1> QED BY <1>3, <1>5, <1>7, <1>9 DEF P, b

-----------------------------------------------------------------------------
(* A message and its bytes.                                                *)

(* Where the bytes of two rows are in the longer one.                      *)
LEMMA Joined ==
  ASSUME NEW a \in Seq(Byte), NEW b \in Seq(Byte), NEW m, NEW n,
         Len(a) = m, Len(b) = n
  PROVE  /\ a \o b \in Seq(Byte) /\ Len(a \o b) = m + n
         /\ \A i \in 1 .. m : (a \o b)[i] = a[i]
         /\ \A i \in 1 .. n : (a \o b)[m + i] = b[i]
OBVIOUS

(* A read of bytes that are all there.                                     *)
LEMMA ReadIs ==
  ASSUME NEW bytes, NEW from, NEW n, NEW part, part = [i \in 1 .. n |-> part[i]],
         \A i \in 1 .. n : from + i <= Len(bytes) /\ bytes[from + i] = part[i]
  PROVE  Read(bytes, from, n) = part
BY DEF Read

(* A function on 1 .. n is a sequence.                                     *)
LEMMA RowOf ==
  ASSUME NEW S, NEW n \in Nat, NEW row \in [1 .. n -> S]
  PROVE  row \in Seq(S) /\ Len(row) = n
OBVIOUS

(* What a message is written as.                                           *)
Written(m) == Numbers(m) \o m.source \o m.payload

(* Its lengths are numbers too.                                            *)
Short(m) == Len(m.source) \in Number /\ Len(m.payload) \in Number

(* Where its parts are.                                                    *)
LEMMA WrittenParts ==
  ASSUME NEW m \in Messages, Short(m)
  PROVE  LET P == PrependLength
             l == Len(m.source)
         IN  /\ Written(m) \in Seq(Byte) /\ Len(Written(m)) = GetSerializedSize(m)
             /\ \A i \in 1 .. P :
                  /\ Written(m)[i] = StoreHostu32(m.topicId)[i]
                  /\ Written(m)[P + i] = StoreHostu32(m.userData)[i]
                  /\ Written(m)[2 * P + i] = StoreHostu32(l)[i]
                  /\ Written(m)[3 * P + i] = StoreHostu32(Len(m.payload))[i]
             /\ \A i \in 1 .. l : Written(m)[4 * P + i] = m.source[i]
             /\ \A i \in 1 .. Len(m.payload) :
                  Written(m)[4 * P + l + i] = m.payload[i]
<1> DEFINE P  == PrependLength
           l  == Len(m.source)
           h  == Len(m.payload)
           s  == m.source
           t  == m.payload
           s1 == StoreHostu32(m.topicId)
           s2 == StoreHostu32(m.userData)
           s3 == StoreHostu32(l)
           s4 == StoreHostu32(h)
           w1 == s1 \o s2
           w2 == w1 \o s3
           w3 == w2 \o s4
           w4 == w3 \o s
           w5 == w4 \o t
<1>1. /\ P \in Nat /\ s \in Seq(Byte) /\ t \in Seq(Byte)
      /\ m.topicId \in Number /\ m.userData \in Number
  BY SerDesAssumption DEF Messages
<1>2. l \in Nat /\ h \in Nat /\ l = Len(s) /\ h = Len(t) /\ l \in Number /\ h \in Number
  BY <1>1 DEF Short
<1>3. /\ s1 \in [1 .. P -> Byte] /\ s2 \in [1 .. P -> Byte]
      /\ s3 \in [1 .. P -> Byte] /\ s4 \in [1 .. P -> Byte]
  BY <1>1, <1>2, NumbersReadBack
<1>4. /\ Written(m) = w5
      /\ GetSerializedSize(m) = 4 * P + l + h
  BY DEF Written, Numbers, GetSerializedSize
<1> HIDE DEF P, l, h, s, t, s1, s2, s3, s4
<1>5. /\ s1 \in Seq(Byte) /\ s2 \in Seq(Byte) /\ s3 \in Seq(Byte) /\ s4 \in Seq(Byte)
      /\ Len(s1) = P /\ Len(s2) = P /\ Len(s3) = P /\ Len(s4) = P
  BY <1>1, <1>3, RowOf
<1>6. /\ w1 \in Seq(Byte) /\ Len(w1) = 2 * P
      /\ \A i \in 1 .. P : w1[i] = s1[i] /\ w1[P + i] = s2[i]
  <2>1. P + P = 2 * P
    BY <1>1
  <2>2. /\ w1 \in Seq(Byte) /\ Len(w1) = P + P
        /\ \A i \in 1 .. P : w1[i] = s1[i]
        /\ \A i \in 1 .. P : w1[P + i] = s2[i]
    <3>1. s1 \in Seq(Byte) /\ s2 \in Seq(Byte) /\ Len(s1) = P /\ Len(s2) = P
      BY <1>5
    <3> QED BY <3>1, Joined
  <2> QED BY <2>1, <2>2
<1> HIDE DEF w1
<1>7. /\ w2 \in Seq(Byte) /\ Len(w2) = 3 * P
      /\ \A i \in 1 .. 2 * P : w2[i] = w1[i]
      /\ \A i \in 1 .. P : w2[2 * P + i] = s3[i]
  <2> DEFINE n == 2 * P
  <2>1. /\ w1 \in Seq(Byte) /\ Len(w1) = n /\ s3 \in Seq(Byte) /\ Len(s3) = P
        /\ n + P = 3 * P
    BY <1>1, <1>5, <1>6
  <2> HIDE DEF n
  <2>2. /\ w2 \in Seq(Byte) /\ Len(w2) = n + P
        /\ \A i \in 1 .. n : w2[i] = w1[i]
        /\ \A i \in 1 .. P : w2[n + i] = s3[i]
    BY <2>1, Joined
  <2> QED BY <2>1, <2>2 DEF n
<1> HIDE DEF w2
<1>8. /\ w3 \in Seq(Byte) /\ Len(w3) = 4 * P
      /\ \A i \in 1 .. 3 * P : w3[i] = w2[i]
      /\ \A i \in 1 .. P : w3[3 * P + i] = s4[i]
  <2> DEFINE n == 3 * P
  <2>1. /\ w2 \in Seq(Byte) /\ Len(w2) = n /\ s4 \in Seq(Byte) /\ Len(s4) = P
        /\ n + P = 4 * P
    BY <1>1, <1>5, <1>7
  <2> HIDE DEF n
  <2>2. /\ w3 \in Seq(Byte) /\ Len(w3) = n + P
        /\ \A i \in 1 .. n : w3[i] = w2[i]
        /\ \A i \in 1 .. P : w3[n + i] = s4[i]
    BY <2>1, Joined
  <2> QED BY <2>1, <2>2 DEF n
<1> HIDE DEF w3
<1>9. /\ w4 \in Seq(Byte) /\ Len(w4) = 4 * P + l
      /\ \A i \in 1 .. 4 * P : w4[i] = w3[i]
      /\ \A i \in 1 .. l : w4[4 * P + i] = s[i]
  <2>1. s \in Seq(Byte) /\ Len(s) = l /\ Len(w3) = 4 * P
    BY <1>1, <1>2, <1>8
  <2> QED BY <2>1, <1>8, Joined
<1> HIDE DEF w4
<1>10. /\ w5 \in Seq(Byte) /\ Len(w5) = 4 * P + l + h
       /\ \A i \in 1 .. 4 * P + l : w5[i] = w4[i]
       /\ \A i \in 1 .. h : w5[4 * P + l + i] = t[i]
  <2>1. t \in Seq(Byte) /\ Len(t) = h /\ Len(w4) = 4 * P + l
    BY <1>1, <1>2, <1>9
  <2> QED BY <2>1, <1>9, Joined
<1> HIDE DEF w5
<1>11. ASSUME NEW i \in 1 .. P
       PROVE  /\ w5[i] = s1[i] /\ w5[P + i] = s2[i]
              /\ w5[2 * P + i] = s3[i] /\ w5[3 * P + i] = s4[i]
  <2>1. /\ {i, P + i, 2 * P + i, 3 * P + i} \subseteq 1 .. 4 * P
        /\ {i, P + i, 2 * P + i} \subseteq 1 .. 3 * P
        /\ {i, P + i} \subseteq 1 .. 2 * P
    BY <1>1
  <2>2. \A j \in 1 .. 4 * P : j \in 1 .. 4 * P + l
    BY <1>1, <1>2
  <2>3. \A j \in 1 .. 4 * P : w5[j] = w3[j]
    BY <2>2, <1>9, <1>10
  <2>4. \A j \in 1 .. 3 * P : w3[j] = w2[j]
    BY <1>8
  <2>5. \A j \in 1 .. 2 * P : w2[j] = w1[j]
    BY <1>7
  <2>6. w5[i] = s1[i]
    BY <2>1, <2>3, <2>4, <2>5, <1>6
  <2>7. w5[P + i] = s2[i]
    BY <2>1, <2>3, <2>4, <2>5, <1>6
  <2>8. w5[2 * P + i] = s3[i]
    BY <2>1, <2>3, <2>4, <1>7
  <2>9. w5[3 * P + i] = s4[i]
    BY <2>1, <2>3, <1>8
  <2> QED BY <2>6, <2>7, <2>8, <2>9
<1>12. ASSUME NEW i \in 1 .. l PROVE w5[4 * P + i] = s[i]
  <2>1. 4 * P + i \in 1 .. 4 * P + l
    BY <1>1, <1>2
  <2> QED BY <2>1, <1>9, <1>10
<1>13. \A i \in 1 .. h : w5[4 * P + l + i] = t[i]
  BY <1>10
<1> QED BY <1>4, <1>10, <1>11, <1>12, <1>13 DEF P, l, h, s, t, s1, s2, s3, s4

(* serdes.cpp:28-94: whatever begins with the bytes of a message is read   *)
(* as that message.                                                        *)
LEMMA MessagesReadBack ==
  ASSUME NEW m \in Messages, Short(m), NEW r, Len(r) \in Nat,
         GetSerializedSize(m) <= Len(r),
         \A i \in 1 .. GetSerializedSize(m) : r[i] = Written(m)[i]
  PROVE  Deserialized(r) = m
<1> DEFINE P == PrependLength
           l == Len(m.source)
           h == Len(m.payload)
           w == Written(m)
           number == [k \in 1 .. 4 |-> ReadHostu32(Read(r, (k - 1) * P, P))]
<1>1. /\ P \in Nat /\ m.source \in Seq(Byte) /\ m.payload \in Seq(Byte)
      /\ m.topicId \in Number /\ m.userData \in Number
      /\ m = [topicId |-> m.topicId, userData |-> m.userData,
              source |-> m.source, payload |-> m.payload]
  BY SerDesAssumption DEF Messages
<1>2. l \in Nat /\ h \in Nat /\ l \in Number /\ h \in Number
  BY <1>1 DEF Short
<1>3. GetSerializedSize(m) = 4 * P + l + h
  BY DEF GetSerializedSize
<1>4. /\ \A i \in 1 .. P : /\ w[i] = StoreHostu32(m.topicId)[i]
                           /\ w[P + i] = StoreHostu32(m.userData)[i]
                           /\ w[2 * P + i] = StoreHostu32(l)[i]
                           /\ w[3 * P + i] = StoreHostu32(h)[i]
      /\ \A i \in 1 .. l : w[4 * P + i] = m.source[i]
      /\ \A i \in 1 .. h : w[4 * P + l + i] = m.payload[i]
  BY WrittenParts
<1> HIDE DEF P, l, h, w
<1>5. ASSUME NEW j \in Nat, j \in 1 .. 4 * P + l + h
      PROVE  j <= Len(r) /\ r[j] = w[j]
  BY <1>3, <1>5, <1>1, <1>2 DEF w
<1>6. ASSUME NEW value \in Number, NEW from \in Nat, from + P <= 4 * P,
             \A i \in 1 .. P : w[from + i] = StoreHostu32(value)[i]
      PROVE  ReadHostu32(Read(r, from, P)) = value
  <2>1. /\ StoreHostu32(value) \in [1 .. P -> Byte]
        /\ ReadHostu32(StoreHostu32(value)) = value
    BY NumbersReadBack DEF P
  <2>2. ASSUME NEW i \in 1 .. P
        PROVE  from + i <= Len(r) /\ r[from + i] = StoreHostu32(value)[i]
    <3>1. from + i \in Nat /\ from + i \in 1 .. 4 * P + l + h
      BY <1>1, <1>2, <1>6
    <3> QED BY <3>1, <1>5, <1>6
  <2>3. Read(r, from, P) = StoreHostu32(value)
    <3>1. Read(r, from, P) = [i \in 1 .. P |-> StoreHostu32(value)[i]]
      BY <2>2 DEF Read
    <3> QED BY <3>1, <2>1
  <2> QED BY <2>1, <2>3
<1>7. number[1] = m.topicId
  <2>1. 0 \in Nat /\ 0 + P <= 4 * P /\ (1 - 1) * P = 0 /\ 1 \in 1 .. 4
    BY <1>1
  <2>2. \A i \in 1 .. P : w[0 + i] = StoreHostu32(m.topicId)[i]
    BY <1>4
  <2>3. ReadHostu32(Read(r, 0, P)) = m.topicId
    BY <2>1, <2>2, <1>1, <1>4, <1>6
  <2> QED BY <2>1, <2>3
<1>8. number[2] = m.userData
  <2>1. P + P <= 4 * P /\ (2 - 1) * P = P /\ 2 \in 1 .. 4
    BY <1>1
  <2>2. ReadHostu32(Read(r, P, P)) = m.userData
    BY <2>1, <1>1, <1>4, <1>6
  <2> QED BY <2>1, <2>2
<1>9. number[3] = l
  <2>1. 2 * P \in Nat /\ 2 * P + P <= 4 * P /\ (3 - 1) * P = 2 * P /\ 3 \in 1 .. 4
    BY <1>1
  <2>2. ReadHostu32(Read(r, 2 * P, P)) = l
    BY <2>1, <1>2, <1>4, <1>6
  <2> QED BY <2>1, <2>2
<1>10. number[4] = h
  <2>1. 3 * P \in Nat /\ 3 * P + P <= 4 * P /\ (4 - 1) * P = 3 * P /\ 4 \in 1 .. 4
    BY <1>1
  <2>2. ReadHostu32(Read(r, 3 * P, P)) = h
    BY <2>1, <1>2, <1>4, <1>6
  <2> QED BY <2>1, <2>2
<1>11. Read(r, 4 * P, l) = m.source
  <2>1. m.source = [i \in 1 .. l |-> m.source[i]]
    BY <1>1 DEF l
  <2>2. ASSUME NEW i \in 1 .. l
        PROVE  4 * P + i <= Len(r) /\ r[4 * P + i] = m.source[i]
    <3>1. 4 * P + i \in Nat /\ 4 * P + i \in 1 .. 4 * P + l + h
      BY <1>1, <1>2
    <3> QED BY <3>1, <1>4, <1>5
  <2> QED BY <2>1, <2>2, ReadIs
<1>12. Read(r, 4 * P + l, h) = m.payload
  <2>1. m.payload = [i \in 1 .. h |-> m.payload[i]]
    BY <1>1 DEF h
  <2>2. ASSUME NEW i \in 1 .. h
        PROVE  4 * P + l + i <= Len(r) /\ r[4 * P + l + i] = m.payload[i]
    <3>1. 4 * P + l + i \in Nat /\ 4 * P + l + i \in 1 .. 4 * P + l + h
      BY <1>1, <1>2
    <3> QED BY <3>1, <1>4, <1>5
  <2> QED BY <2>1, <2>2, ReadIs
<1>13. Deserialized(r) =
         [topicId |-> number[1], userData |-> number[2],
          source |-> Read(r, 4 * P, number[3]),
          payload |-> Read(r, 4 * P + number[3], number[4])]
  BY DEF Deserialized, P
<1> HIDE DEF number
<1> QED BY <1>1, <1>7, <1>8, <1>9, <1>10, <1>11, <1>12, <1>13

(* What is in memory: bytes, written or not.                               *)
Cells == Byte \cup {Unset}

(* The same of what is in memory.                                          *)
LEMMA JoinedBytes ==
  ASSUME NEW a \in Seq(Cells), NEW b \in Seq(Cells), NEW m, NEW n,
         Len(a) = m, Len(b) = n
  PROVE  /\ a \o b \in Seq(Cells) /\ Len(a \o b) = m + n
         /\ \A i \in 1 .. m : (a \o b)[i] = a[i]
         /\ \A i \in 1 .. n : (a \o b)[m + i] = b[i]
OBVIOUS

(* The payload of a frame is what the frame was made of.                   *)
LEMMA FramedHolds ==
  ASSUME NEW bytes \in Seq(Cells), NEW size \in Nat
  PROVE  /\ Framed(bytes, size) \in Seq(Cells)
         /\ Len(Framed(bytes, size)) = PrependLength + size + 1
         /\ \A i \in 1 .. size : i <= Len(bytes)
              => Framed(bytes, size)[PrependLength + i] = bytes[i]
<1> DEFINE P == PrependLength
           s == StoreHostu32(size + 1)
           r == Read(bytes, 0, size)
           z == <<Terminator>>
           sr == s \o r
           srz == sr \o z
<1>1. P \in Nat
  BY SerDesAssumption
<1>2. s \in Seq(Cells) /\ Len(s) = P
  <2>1. size + 1 \in Nat
    OBVIOUS
  <2>2. s \in [1 .. P -> Byte]
    BY <2>1, StoredBytes
  <2>3. Byte \subseteq Cells
    BY DEF Cells
  <2> HIDE DEF s, P
  <2>4. s \in [1 .. P -> Cells]
    BY <2>2, <2>3
  <2> QED BY <2>4, <1>1, RowOf
<1>3. /\ r \in Seq(Cells) /\ Len(r) = size
      /\ \A i \in 1 .. size : i <= Len(bytes) => r[i] = bytes[i]
  <2>1. r = [i \in 1 .. size |-> IF 0 + i <= Len(bytes) THEN bytes[0 + i] ELSE Unset]
    BY DEF Read
  <2> HIDE DEF r
  <2>2. \A i \in 1 .. size : 0 + i = i
    OBVIOUS
  <2>3. ASSUME NEW i \in 1 .. size PROVE r[i] \in Cells
    <3>1. i <= Len(bytes) => bytes[i] \in Cells
      OBVIOUS
    <3> QED BY <3>1, <2>1, <2>2 DEF Cells
  <2>4. r \in [1 .. size -> Cells]
    BY <2>1, <2>3
  <2>5. r \in Seq(Cells) /\ Len(r) = size
    BY <2>4, RowOf
  <2> QED BY <2>1, <2>2, <2>5
<1>4. z \in Seq(Cells) /\ Len(z) = 1
  BY DEF Terminator, Cells, Byte
<1>5. Framed(bytes, size) = srz
  BY DEF Framed
<1> HIDE DEF P, s, r, z
<1>6. /\ sr \in Seq(Cells) /\ Len(sr) = P + size
      /\ \A i \in 1 .. size : sr[P + i] = r[i]
  <2>1. /\ s \in Seq(Cells) /\ Len(s) = P
        /\ r \in Seq(Cells) /\ Len(r) = size
    BY <1>2, <1>3
  <2>2. /\ sr \in Seq(Cells) /\ Len(sr) = P + size
        /\ \A i \in 1 .. size : sr[P + i] = r[i]
    BY <2>1, JoinedBytes
  <2> QED BY <2>2
<1> HIDE DEF sr
<1>7. /\ srz \in Seq(Cells) /\ Len(srz) = P + size + 1
      /\ \A i \in 1 .. P + size : srz[i] = sr[i]
  <2> DEFINE n == P + size
  <2>1. sr \in Seq(Cells) /\ Len(sr) = n
    BY <1>6
  <2> HIDE DEF n
  <2>2. /\ srz \in Seq(Cells) /\ Len(srz) = n + 1
        /\ \A i \in 1 .. n : srz[i] = sr[i]
    <3>1. PICK one : one = 1
      OBVIOUS
    <3>2. z \in Seq(Cells) /\ Len(z) = one
      BY <1>4, <3>1
    <3>3. /\ srz \in Seq(Cells) /\ Len(srz) = n + one
          /\ \A i \in 1 .. n : srz[i] = sr[i]
      BY <2>1, <3>2, JoinedBytes
    <3> QED BY <3>1, <3>3
  <2> QED BY <2>2 DEF n
<1> HIDE DEF srz
<1>8. \A i \in 1 .. size : P + i \in 1 .. P + size
  BY <1>1
<1> QED BY <1>3, <1>5, <1>6, <1>7, <1>8 DEF P

(* A message that fits is written before the terminator, though the        *)
(* terminator is not at its end.                                           *)
LEMMA SerializedHolds ==
  ASSUME NEW m \in Messages, Fits(m)
  PROVE  /\ Short(m)
         /\ GetSerializedSize(m) \in Nat /\ SerializedSize(m) = GetSerializedSize(m) + 1
         /\ Serialized(m) \in Seq(Cells) /\ Len(Serialized(m)) = BufferLength
         /\ BufferLength \in Nat /\ SerializedSize(m) <= BufferLength
         /\ \A i \in 1 .. GetSerializedSize(m) : Serialized(m)[i] = Written(m)[i]
<1> DEFINE P == PrependLength
           l == Len(m.source)
           h == Len(m.payload)
           at == TerminatorAt(m)
           w == Written(m)
           row == Read(w, 0, BufferLength)
<1>1. P \in Nat /\ P > 0 /\ BufferLength \in Number /\ l \in Nat /\ h \in Nat
  BY SerDesAssumption DEF Messages
<1>2. /\ GetSerializedSize(m) = 4 * P + l + h
      /\ SerializedSize(m) = 4 * P + l + h + 1
      /\ at = 4 * P + l + (4 * P + l + h + 1)
  BY DEF GetSerializedSize, SerializedSize, TerminatorAt
<1> HIDE DEF P, l, h, at
<1>3. at <= BufferLength
  BY DEF Fits, at
<1>4. Values[PrependLength] \in Nat
  BY ValuesAre, SerDesAssumption
<1>5. /\ BufferLength \in Nat
      /\ l \in Number /\ h \in Number
  BY <1>1, <1>2, <1>3, <1>4 DEF Number
<1>6. Short(m)
  BY <1>5 DEF Short, l, h
<1>7. w \in Seq(Byte) /\ Len(w) = 4 * P + l + h
  BY <1>2, <1>6, WrittenParts
<1>8. Serialized(m) = [row EXCEPT ![at] = Terminator]
  BY DEF Serialized, Written, at
<1> HIDE DEF w
<1>9. row = [i \in 1 .. BufferLength |-> IF 0 + i <= Len(w) THEN w[0 + i] ELSE Unset]
  BY DEF Read
<1> HIDE DEF row
<1>10. \A i \in 1 .. BufferLength :
         Serialized(m)[i] = IF i = at THEN 0 ELSE IF i <= Len(w) THEN w[i] ELSE Unset
  <2>1. ASSUME NEW i \in 1 .. BufferLength
        PROVE  Serialized(m)[i] =
                 IF i = at THEN 0 ELSE IF i <= Len(w) THEN w[i] ELSE Unset
    <3>1. 0 + i = i
      OBVIOUS
    <3>2. row[i] = IF i <= Len(w) THEN w[i] ELSE Unset
      BY <1>9, <3>1
    <3>3. DOMAIN row = 1 .. BufferLength
      BY <1>9
    <3>4. Serialized(m)[i] = IF i = at THEN Terminator ELSE row[i]
      BY <1>8, <3>3
    <3> QED BY <3>2, <3>4 DEF Terminator
  <2> QED BY <2>1
<1>11. \A i \in 1 .. Len(w) : w[i] \in Cells
  BY <1>7 DEF Cells
<1>12. Serialized(m) \in [1 .. BufferLength -> Cells]
  <2>1. Serialized(m) = [i \in 1 .. BufferLength |-> Serialized(m)[i]]
    BY <1>8, <1>9
  <2>2. ASSUME NEW i \in 1 .. BufferLength PROVE Serialized(m)[i] \in Cells
    <3>1. i <= Len(w) => w[i] \in Cells
      BY <1>11, <1>7
    <3>2. 0 \in Cells /\ Unset \in Cells
      BY DEF Cells, Byte
    <3> QED BY <3>1, <3>2, <1>10
  <2> QED BY <2>1, <2>2
<1>13. Serialized(m) \in Seq(Cells) /\ Len(Serialized(m)) = BufferLength
  BY <1>5, <1>12, RowOf
<1>14. ASSUME NEW i \in 1 .. 4 * P + l + h PROVE Serialized(m)[i] = w[i]
  <2>1. i \in 1 .. BufferLength /\ i # at /\ i <= Len(w)
    BY <1>1, <1>2, <1>3, <1>5, <1>7
  <2> QED BY <2>1, <1>10
<1>15. GetSerializedSize(m) \in Nat /\ SerializedSize(m) = GetSerializedSize(m) + 1
  BY <1>1, <1>2
<1>16. SerializedSize(m) <= BufferLength
  BY <1>1, <1>2, <1>3, <1>5
<1> QED BY <1>2, <1>5, <1>6, <1>13, <1>14, <1>15, <1>16 DEF w

(* What the handler is given of a frame: the message, and a terminator.    *)
LEMMA ContentHolds ==
  ASSUME NEW f \in Frames, Fits(Message(f))
  PROVE  LET m        == Message(f)
             arrived == Content(Payload(f))
         IN  /\ m \in Messages
             /\ SerializedSize(m) <= BroadcastLength
             /\ arrived \in Seq(Cells)
             /\ Len(arrived) = GetSerializedSize(m) + 2
             /\ \A i \in 1 .. GetSerializedSize(m) : arrived[i] = Written(m)[i]
<1> DEFINE P == PrependLength
           m == Message(f)
           size == SerializedSize(m)
           all == GetSerializedSize(m)
           whole == Framed(Serialized(m), size)
           arrived == Content(Payload(f))
<1>1. m \in Messages /\ Fits(m) /\ size <= BroadcastLength
  BY FramingAssumption
<1>2. /\ all \in Nat /\ size = all + 1 /\ size <= BufferLength /\ BufferLength \in Nat
      /\ Serialized(m) \in Seq(Cells) /\ Len(Serialized(m)) = BufferLength
      /\ \A i \in 1 .. all : Serialized(m)[i] = Written(m)[i]
  BY <1>1, SerializedHolds
<1>3. PayloadSize(f) = size + 1 /\ P \in Nat
  BY SerDesAssumption DEF PayloadSize
<1>4. /\ whole \in Seq(Cells) /\ Len(whole) = P + size + 1
      /\ \A i \in 1 .. size : i <= Len(Serialized(m)) => whole[P + i] = Serialized(m)[i]
  <2>1. size \in Nat
    BY <1>2
  <2> QED BY <1>2, <2>1, FramedHolds
<1>5. arrived = [i \in 1 .. size + 1 |-> whole[P + i]]
  <2>1. Payload(f) = [i \in 1 .. size + 1 |-> [frame |-> f, pos |-> P + i]]
    BY <1>3 DEF Payload, Slice
  <2>2. DOMAIN Payload(f) = 1 .. size + 1
    BY <2>1
  <2>3. \A i \in 1 .. size + 1 : Payload(f)[i].frame = f /\ Payload(f)[i].pos = P + i
    BY <2>1
  <2>4. arrived = [i \in DOMAIN Payload(f) |->
                      LET n == Message(Payload(f)[i].frame)
                      IN  Framed(Serialized(n), SerializedSize(n))[Payload(f)[i].pos]]
    BY DEF Content
  <2> QED BY <2>2, <2>3, <2>4
<1> HIDE DEF P, m, size, all, whole, arrived
<1>6. arrived \in Seq(Cells) /\ Len(arrived) = size + 1
  <2>1. \A i \in 1 .. size + 1 : P + i \in 1 .. Len(whole)
    BY <1>2, <1>3, <1>4
  <2>2. \A i \in 1 .. Len(whole) : whole[i] \in Cells
    BY <1>4
  <2>3. arrived \in [1 .. size + 1 -> Cells]
    BY <1>5, <2>1, <2>2
  <2>4. size + 1 \in Nat
    BY <1>2
  <2> QED BY <2>3, <2>4, RowOf
<1>7. ASSUME NEW i \in 1 .. all PROVE arrived[i] = Written(m)[i]
  <2>1. i \in 1 .. size + 1 /\ i \in 1 .. size /\ i <= Len(Serialized(m))
    BY <1>2
  <2>2. arrived[i] = whole[P + i]
    BY <2>1, <1>5
  <2>3. whole[P + i] = Serialized(m)[i]
    BY <2>1, <1>4
  <2> QED BY <2>2, <2>3, <1>2
<1>8. size + 1 = all + 2
  BY <1>2
<1> QED BY <1>1, <1>6, <1>7, <1>8 DEF m, size, all, arrived

(* What the server sends on of it begins with the message too.             *)
LEMMA BroadcastedHolds ==
  ASSUME NEW r \in Seq(Cells), NEW n \in Nat, n <= Len(r), n <= BroadcastLength
  PROVE  /\ Len(Broadcasted(r)) \in Nat /\ n <= Len(Broadcasted(r))
         /\ \A i \in 1 .. n : Broadcasted(r)[i] = r[i]
<1> DEFINE P == PrependLength
           L == BroadcastLength
           whole == Framed(r, L)
           b == Broadcasted(r)
<1>1. P \in Nat /\ L \in Nat
  BY SerDesAssumption, FramingAssumption
<1>2. /\ whole \in Seq(Cells) /\ Len(whole) = P + L + 1
      /\ \A i \in 1 .. L : i <= Len(r) => whole[P + i] = r[i]
  BY <1>1, FramedHolds
<1>3. b = [i \in 1 .. L + 1 |->
             IF P + i <= Len(whole) THEN whole[P + i] ELSE Unset]
  BY DEF Broadcasted, Read
<1> HIDE DEF P, L, whole, b
<1>4. Len(b) = L + 1
  BY <1>1, <1>3
<1>5. ASSUME NEW i \in 1 .. n PROVE b[i] = r[i]
  <2>1. i \in 1 .. L /\ i <= Len(r) /\ i \in 1 .. L + 1 /\ P + i <= Len(whole)
    <3>1. Len(r) \in Nat /\ n <= L
      BY DEF L
    <3> QED BY <3>1, <1>1, <1>2
  <2> QED BY <2>1, <1>2, <1>3
<1>6. n <= L + 1 /\ L + 1 \in Nat
  BY <1>1 DEF L
<1> QED BY <1>4, <1>5, <1>6 DEF b

(* serdes.cpp with wsa_common.h and the server's handler: every message    *)
(* that the server receives, and every client from it, is the one that was *)
(* sent, for any messages, of which those arrive that fit into the array   *)
(* of the sender, any length of numbers and of what the server sends on;   *)
(* as long as the processes survive the bytes they read beyond arrays.     *)
THEOREM MessagesReceivedAsSent == FramingSpec => []MessagesArrive
<1> DEFINE Inv == FramingTypes /\ FitInv
<1>1. FramingInit => Inv
  <2>1. FramingInit => FitInv
    BY DEF FramingInit, FitInv
  <2> QED BY <2>1, TypesInit
<1>2. Inv /\ [FramingNext]_framingVars => Inv'
  BY FitNext, FramingTypesNext
<1>3. FramesIntact /\ Inv => MessagesArrive
  <2> SUFFICES ASSUME FramesIntact, FitInv, interrupts = 0, NEW k \in 1 .. Len(delivered)
               PROVE  LET arrived == Content(delivered[k])
                          m        == Message(delivered[k][1].frame)
                      IN  /\ Deserialized(arrived) = m
                          /\ Deserialized(Broadcasted(arrived)) = m
    BY DEF MessagesArrive
  <2>1. PICK f \in Frames : delivered[k] = Payload(f)
    BY DEF FramesIntact
  <2> DEFINE m == Message(f)
             arrived == Content(Payload(f))
             all == GetSerializedSize(m)
  <2>2. delivered[k][1].frame = f
    <3>1. PayloadSize(f) \in Nat /\ PayloadSize(f) > 0
      BY Sizes
    <3>2. 1 \in 1 .. PayloadSize(f)
      BY <3>1
    <3> QED BY <2>1, <3>2 DEF Payload, Slice
  <2>11. Fits(m)
    <3>1. PayloadSize(f) \in Nat /\ PayloadSize(f) > 0
      BY Sizes
    <3>2. Len(delivered[k]) > 0
      BY <2>1, <3>1 DEF Payload, Slice
    <3>3. delivered[k] \in Seq(Fitting)
      BY DEF FitInv
    <3>4. delivered[k][1] \in Fitting
      BY <3>2, <3>3
    <3> QED BY <3>4, <2>2 DEF Fitting
  <2>3. /\ m \in Messages /\ Fits(m) /\ SerializedSize(m) <= BroadcastLength
        /\ arrived \in Seq(Cells) /\ Len(arrived) = all + 2
        /\ \A i \in 1 .. all : arrived[i] = Written(m)[i]
    BY <2>11, ContentHolds
  <2>4. /\ Short(m) /\ all \in Nat /\ SerializedSize(m) = all + 1
    BY <2>3, SerializedHolds
  <2>5. BroadcastLength \in Nat
    BY FramingAssumption
  <2> HIDE DEF m, arrived, all
  <2>6. all <= Len(arrived) /\ all <= BroadcastLength /\ Len(arrived) \in Nat
    BY <2>3, <2>4, <2>5
  <2>7. Deserialized(arrived) = m
    BY <2>3, <2>4, <2>6, MessagesReadBack DEF all
  <2>8. /\ Len(Broadcasted(arrived)) \in Nat /\ all <= Len(Broadcasted(arrived))
        /\ \A i \in 1 .. all : Broadcasted(arrived)[i] = arrived[i]
    BY <2>3, <2>4, <2>6, BroadcastedHolds
  <2>9. \A i \in 1 .. all : Broadcasted(arrived)[i] = Written(m)[i]
    BY <2>3, <2>8
  <2>10. Deserialized(Broadcasted(arrived)) = m
    BY <2>3, <2>4, <2>8, <2>9, MessagesReadBack DEF all
  <2> QED BY <2>1, <2>2, <2>7, <2>10 DEF m, arrived
<1> QED BY <1>1, <1>2, <1>3, PayloadsArriveWhole, PTL DEF FramingSpec
=============================================================================
