------------------------------ MODULE IpcClient ------------------------------
(***************************************************************************)
(* A process with network nodes (tests/test_dataflow_ipc_node): the one    *)
(* WsaClient of the process (wsanet/wsa_client.h, wsa_client.cpp), which   *)
(* NetworkFactory starts for the first relay, its receive thread, and the  *)
(* nodes that send their results and wait for the flag that says so.       *)
(*                                                                         *)
(* The owner is the main thread: it constructs the relay and the nodes,    *)
(* destroys the nodes, and at exit the statics in reverse order: the       *)
(* handler, then the client.  Frames succeed or fail as a whole; what      *)
(* happens below them is in WsaFraming.  A send to a server that does not  *)
(* read blocks, and keeps the client's mutex.  A node that relays without  *)
(* having its relay crashes the process, and the model stops there, as it  *)
(* does when the handler is used after its destruction; a destroyed mutex  *)
(* that is locked is such a fault, or locks as it did.                     *)
(***************************************************************************)
EXTENDS Integers, Sequences, FiniteSets, Functions

CONSTANTS
  Program,   (* the nodes, which send, in the order of their construction  *)
  Legacy,    (* those that get their relay before their thread starts      *)
  MaxRelays, (* how many relays the program constructs                     *)
  MaxSends,  (* bound: messages each node sends                            *)
  MaxReceived (* bound: messages the server sends to this client           *)

Nodes == Range(Program)
Owner == "owner"
Recv  == "recv"
Stoppers == Nodes \cup {Owner, Recv}  (* the threads that call stopClient  *)

ASSUME ClientAssumption ==
  /\ {MaxSends, MaxReceived} \subseteq Nat
  /\ MaxRelays \in Nat \ {0}
  /\ {Owner, Recv} \cap Nodes = {}
  /\ Legacy \subseteq Nodes
  /\ Program \in Seq(Nodes)
  /\ IsInjective(Program)

VARIABLES
  isClientInitialized,
  relays,        (* the relays constructed                                 *)
  built,         (* the nodes constructed and not destroyed                *)
  hasRelay,      (* the nodes whose relay is set and not destroyed         *)
  handler,       (* the handler with its bus: "none", "alive", "destroyed" *)
  socket,        (* m_clientSocket: "invalid", "created", "connected"      *)
  link,          (* the server's side: "up", "stalled" when it does not    *)
                 (* read and the buffers are full, "closed" or "reset"     *)
  startups,      (* successful calls of WSAStartup                         *)
  cleanups,      (* calls of WSACleanup                                    *)
  threadSet,     (* m_serverConnectionThread has been assigned             *)
  stopRequested, (* its stop token                                         *)
  pc,            (* where each thread is                                   *)
  queuedFlag,    (* m_isLastMessageFullyQueued of each node's call         *)
  sends,         (* messages each node has sent (for the bound)            *)
  received,      (* history: messages received                             *)
  published,     (* history: messages published on the process' bus        *)
  fault          (* what was used after it was destroyed: "none", the      *)
                 (* "handler" or the client's "mutex"                      *)

nodeVars    == <<built, hasRelay>>
factoryVars == <<isClientInitialized, relays, nodeVars, handler>>
socketVars  == <<socket, startups, cleanups>>
threadVars  == <<threadSet, stopRequested>>
sendVars    == <<queuedFlag, sends>>
recvVars    == <<received, published, fault>>
vars == <<factoryVars, socketVars, link, threadVars, pc, sendVars, recvVars>>

Init ==
  /\ isClientInitialized = FALSE
  /\ relays = 0
  /\ built = 0
  /\ hasRelay = {}
  /\ handler = "none"
  /\ socket = "invalid"
  /\ link = "up"
  /\ startups = 0
  /\ cleanups = 0
  /\ threadSet = FALSE
  /\ stopRequested = FALSE
  /\ pc = [th \in Stoppers |-> IF th = Owner THEN "relay" ELSE "none"]
  /\ queuedFlag = [n \in Nodes |-> FALSE]
  /\ sends = [n \in Nodes |-> 0]
  /\ received = 0
  /\ published = 0
  /\ fault = "none"

Goto(th, from, to) ==
  /\ pc[th] = from
  /\ pc' = [pc EXCEPT ![th] = to]

(* sendMessage holds the client's mutex while send blocks.                 *)
Locked == \E n \in Nodes : pc[n] = "sending"

-----------------------------------------------------------------------------
(* stopClient, by any thread.                                              *)

(* A thread that is not assigned yet is not stopped by its stop token.     *)
RequestStop(th) ==
  /\ Goto(th, "stop", "close")
  /\ stopRequested' = (stopRequested \/ threadSet)
  /\ UNCHANGED <<factoryVars, socketVars, link, threadSet, sendVars, recvVars>>

(* Mutant: the socket stays open.                                          *)
CloseNothing(th) ==
  /\ ~Locked
  /\ Goto(th, "close", "cleanup")
  /\ UNCHANGED <<factoryVars, socketVars, link, threadVars, sendVars, recvVars>>

CloseSocket(th) ==
  /\ ~Locked
  /\ Goto(th, "close", "cleanup")
  /\ socket' = "invalid"
  /\ UNCHANGED <<factoryVars, startups, cleanups, link, threadVars, sendVars,
                 recvVars>>

(* ... and what the caller does then: a node waits for a flag that nobody  *)
(* will set, the receive thread ends, the owner goes on.                   *)
Cleanup(th) ==
  /\ Goto(th, "cleanup",
          IF th \in Nodes THEN "spin"
          ELSE IF th = Recv THEN "ended"
          ELSE IF handler = "destroyed" THEN "joinRecv" ELSE "open")
  /\ cleanups' = cleanups + 1
  /\ UNCHANGED <<factoryVars, socket, startups, link, threadVars, sendVars,
                 recvVars>>

StopClient(th) == RequestStop(th) \/ CloseSocket(th) \/ Cleanup(th)

-----------------------------------------------------------------------------
(* The owner: ClientBusRelay's constructor, initializeClient.              *)

(* Mutant: the handler gets its bus when the client has been started.      *)
InitializeWithoutBus ==
  /\ pc[Owner] = "relay"
  /\ relays < MaxRelays
  /\ relays' = relays + 1
  /\ isClientInitialized' = TRUE
  /\ pc' = [pc EXCEPT ![Owner] = IF isClientInitialized THEN "relay" ELSE "startup"]
  /\ UNCHANGED <<nodeVars, handler, socketVars, link, threadVars, sendVars, recvVars>>

InitializeClient ==
  /\ pc[Owner] = "relay"
  /\ relays < MaxRelays
  /\ relays' = relays + 1
  /\ isClientInitialized' = TRUE
  /\ IF isClientInitialized
     THEN UNCHANGED <<handler, pc>>
     ELSE /\ handler' = "alive"
          /\ pc' = [pc EXCEPT ![Owner] = "startup"]
  /\ UNCHANGED <<nodeVars, socketVars, link, threadVars, sendVars, recvVars>>

(* start: each step may fail, and the caller does not look at the result.  *)
InitializeWSA ==
  /\ \/ Goto(Owner, "startup", "socket") /\ startups' = startups + 1
     \/ Goto(Owner, "startup", "open") /\ UNCHANGED startups
  /\ UNCHANGED <<factoryVars, socket, cleanups, link, threadVars, sendVars,
                 recvVars>>

CreateSocket ==
  /\ \/ Goto(Owner, "socket", "connect") /\ socket' = "created"
     \/ Goto(Owner, "socket", "open") /\ UNCHANGED socket
  /\ UNCHANGED <<factoryVars, startups, cleanups, link, threadVars, sendVars,
                 recvVars>>

ConnectToServer ==
  /\ \/ Goto(Owner, "connect", "open") /\ socket' = "connected"
     \/ Goto(Owner, "connect", "stop") /\ UNCHANGED socket
  /\ UNCHANGED <<factoryVars, startups, cleanups, link, threadVars, sendVars,
                 recvVars>>

(* openServerRecvThread: the thread runs before it is assigned.            *)
OpenServerRecvThread ==
  /\ pc[Owner] = "open"
  /\ pc' = [pc EXCEPT ![Owner] = "assign", ![Recv] = "top"]
  /\ UNCHANGED <<factoryVars, socketVars, link, threadVars, sendVars, recvVars>>

AssignThread ==
  /\ Goto(Owner, "assign", "relay")
  /\ threadSet' = TRUE
  /\ UNCHANGED <<factoryVars, socketVars, link, stopRequested, sendVars, recvVars>>

(* The nodes are constructed: a thread starts, before setClientBusRelay,   *)
(* unless the node is a legacy one.                                        *)
StartNode ==
  LET n == Program[built + 1]
  IN  /\ pc[Owner] = "relay"
      /\ relays = MaxRelays
      /\ built < Len(Program)
      /\ built' = built + 1
      /\ hasRelay' = hasRelay \cup ({n} \cap Legacy)
      /\ pc' = [pc EXCEPT ![n] = "idle", ![Owner] = "setRelay"]
      /\ UNCHANGED <<isClientInitialized, relays, handler, socketVars, link,
                     threadVars, sendVars, recvVars>>

(* Mutant: always the first node.                                          *)
SetFirstRelay ==
  /\ Goto(Owner, "setRelay", IF built = Len(Program) THEN "run" ELSE "relay")
  /\ hasRelay' = hasRelay \cup {Program[1]}
  /\ UNCHANGED <<isClientInitialized, relays, built, handler, socketVars, link,
                 threadVars, sendVars, recvVars>>

SetClientBusRelay ==
  /\ Goto(Owner, "setRelay", IF built = Len(Program) THEN "run" ELSE "relay")
  /\ hasRelay' = hasRelay \cup {Program[built]}
  /\ UNCHANGED <<isClientInitialized, relays, built, handler, socketVars, link,
                 threadVars, sendVars, recvVars>>

(* The program runs until it is told to end.                               *)
EndProgram ==
  /\ Goto(Owner, "run", "stopNode")
  /\ UNCHANGED <<factoryVars, socketVars, link, threadVars, sendVars, recvVars>>

(* ~BaseNode: its process goes with the relay before its thread is joined. *)
DestroyProcess ==
  /\ Goto(Owner, "stopNode", "joinNode")
  /\ hasRelay' = hasRelay \ ({Program[built]} \ Legacy)
  /\ UNCHANGED <<isClientInitialized, relays, built, handler, socketVars, link,
                 threadVars, sendVars, recvVars>>

JoinNode ==
  /\ pc[Owner] = "joinNode"
  /\ pc[Program[built]] = "ended"
  /\ built' = built - 1
  /\ pc' = [pc EXCEPT ![Owner] = IF built = 1 THEN "stop" ELSE "stopNode"]
  /\ handler' = IF built = 1 THEN "destroyed" ELSE handler
  /\ UNCHANGED <<isClientInitialized, relays, hasRelay, socketVars, link,
                 threadVars, sendVars, recvVars>>

(* ~WsaClient, after its stopClient: the mutex goes, then the thread is    *)
(* joined.                                                                 *)
JoinRecv ==
  /\ pc[Recv] = "ended"
  /\ Goto(Owner, "joinRecv", "done")
  /\ UNCHANGED <<factoryVars, socketVars, link, threadVars, sendVars, recvVars>>

OwnerStep ==
  \/ InitializeClient \/ InitializeWSA \/ CreateSocket \/ ConnectToServer
  \/ OpenServerRecvThread \/ AssignThread \/ StartNode \/ SetClientBusRelay
  \/ DestroyProcess \/ JoinNode \/ JoinRecv \/ StopClient(Owner)

-----------------------------------------------------------------------------
(* The receive thread.                                                     *)

RecvTop ==
  /\ Goto(Recv, "top", IF stopRequested THEN "ended" ELSE "check")
  /\ UNCHANGED <<factoryVars, socketVars, link, threadVars, sendVars, recvVars>>

CheckSocket ==
  /\ ~Locked
  /\ Goto(Recv, "check", IF socket = "invalid" THEN "ended" ELSE "receive")
  /\ UNCHANGED <<factoryVars, socketVars, link, threadVars, sendVars, recvVars>>

(* A frame has arrived.                                                    *)
ReceiveFrame ==
  /\ received < MaxReceived
  /\ socket = "connected" /\ link \in {"up", "stalled"}
  /\ Goto(Recv, "receive", "deliver")
  /\ received' = received + 1
  /\ UNCHANGED <<factoryVars, socketVars, link, threadVars, sendVars,
                 published, fault>>

(* The connection was reset, or the socket closed by another thread: a     *)
(* fatal error, or one that is not and ends the frame as if it had been    *)
(* received.  When the server closes in order recv() returns zero for ever.*)
ReceiveFails ==
  /\ socket = "invalid" \/ link = "reset"
  /\ Goto(Recv, "receive", "stop")
  /\ UNCHANGED <<factoryVars, socketVars, link, threadVars, sendVars, recvVars>>

ReceiveInterrupted ==
  /\ socket = "invalid"
  /\ Goto(Recv, "receive", "deliver")
  /\ received' = received + 1
  /\ UNCHANGED <<factoryVars, socketVars, link, threadVars, sendVars,
                 published, fault>>

(* onMessageReceived: published if the handler has its bus.                *)
Deliver ==
  /\ handler # "destroyed"
  /\ Goto(Recv, "deliver", "top")
  /\ published' = IF handler = "alive" THEN published + 1 ELSE published
  /\ UNCHANGED <<factoryVars, socketVars, link, threadVars, sendVars, received,
                 fault>>

DeliverToDestroyed ==
  /\ pc[Recv] = "deliver" /\ handler = "destroyed"
  /\ fault' = "handler"
  /\ UNCHANGED <<factoryVars, socketVars, link, threadVars, pc, sendVars,
                 received, published>>

RecvStep ==
  \/ RecvTop \/ CheckSocket \/ ReceiveFails \/ ReceiveInterrupted \/ Deliver
  \/ DeliverToDestroyed \/ StopClient(Recv)

(* The loop's test and stopClient lock a mutex that is destroyed while the *)
(* thread is being joined, and do not find it as it was left.              *)
LockDestroyed ==
  /\ pc[Owner] = "joinRecv" /\ pc[Recv] \in {"check", "close"}
  /\ fault' = "mutex"
  /\ UNCHANGED <<factoryVars, socketVars, link, threadVars, pc, sendVars,
                 received, published>>

-----------------------------------------------------------------------------
(* A node's thread: NetworkProcess::fire, sendFromClient.                  *)

Stopping(n) == pc[Owner] = "joinNode" /\ n = Program[built]

NodeFire(n) ==
  /\ ~Stopping(n)
  /\ sends[n] < MaxSends
  /\ Goto(n, "idle", "fire")
  /\ UNCHANGED <<factoryVars, socketVars, link, threadVars, sendVars, recvVars>>

(* The message goes through m_relay to sendFromClient.                     *)
Relay(n) ==
  /\ Goto(n, "fire", IF n \in hasRelay THEN "send" ELSE "crashed")
  /\ sends' = [sends EXCEPT ![n] = @ + 1]
  /\ queuedFlag' = [queuedFlag EXCEPT ![n] = FALSE]
  /\ UNCHANGED <<factoryVars, socketVars, link, threadVars, recvVars>>

NodeEnd(n) ==
  /\ Stopping(n)
  /\ Goto(n, "idle", "ended")
  /\ UNCHANGED <<factoryVars, socketVars, link, threadVars, sendVars, recvVars>>

(* send is called under the mutex, or has been all along and blocks.       *)
InSend(n) == (pc[n] = "send" /\ ~Locked) \/ pc[n] = "sending"

(* Mutant: onMessageSent is not called.                                    *)
SendUnreported(n) ==
  /\ InSend(n)
  /\ socket = "connected" /\ link \in {"up", "closed"}
  /\ pc' = [pc EXCEPT ![n] = "spin"]
  /\ UNCHANGED <<factoryVars, socketVars, link, threadVars, sendVars, recvVars>>

(* sendServerMessage reports the frame to the handler ...                  *)
SendOk(n) ==
  /\ InSend(n)
  /\ socket = "connected" /\ link \in {"up", "closed"}
  /\ pc' = [pc EXCEPT ![n] = "spin"]
  /\ queuedFlag' = [queuedFlag EXCEPT ![n] = TRUE]
  /\ UNCHANGED <<factoryVars, socketVars, link, threadVars, sends, recvVars>>

(* ... or blocks, ...                                                      *)
SendBlocks(n) ==
  /\ ~Locked
  /\ socket = "connected" /\ link = "stalled"
  /\ Goto(n, "send", "sending")
  /\ UNCHANGED <<factoryVars, socketVars, link, threadVars, sendVars, recvVars>>

(* ... or fails and stops the client, for all nodes.                       *)
SendFails(n) ==
  /\ InSend(n)
  /\ socket # "connected" \/ link \in {"closed", "reset"}
  /\ pc' = [pc EXCEPT ![n] = "stop"]
  /\ UNCHANGED <<factoryVars, socketVars, link, threadVars, sendVars, recvVars>>

ConsumeMessageQueuedFlag(n) ==
  /\ queuedFlag[n]
  /\ Goto(n, "spin", "idle")
  /\ queuedFlag' = [queuedFlag EXCEPT ![n] = FALSE]
  /\ UNCHANGED <<factoryVars, socketVars, link, threadVars, sends, recvVars>>

NodeStep(n) ==
  \/ Relay(n) \/ NodeEnd(n) \/ SendOk(n) \/ SendBlocks(n) \/ SendFails(n)
  \/ ConsumeMessageQueuedFlag(n) \/ StopClient(n)

-----------------------------------------------------------------------------
(* External: the server stops reading for good; one that pauses delays     *)
(* what is sent to it, as the schedule may.                                *)
StallLink ==
  /\ socket = "connected" /\ link = "up"
  /\ link' = "stalled"
  /\ UNCHANGED <<factoryVars, socketVars, threadVars, pc, sendVars, recvVars>>

(* The server or the network ends the connection.                          *)
LoseLink ==
  /\ socket = "connected" /\ link \in {"up", "stalled"}
  /\ link' \in {"closed", "reset"}
  /\ UNCHANGED <<factoryVars, socketVars, threadVars, pc, sendVars, recvVars>>

Crashed == \E n \in Nodes : pc[n] = "crashed"

Stopped == Crashed \/ fault # "none"

Next ==
  /\ ~Stopped
  /\ \/ OwnerStep \/ EndProgram
     \/ RecvStep \/ ReceiveFrame \/ LockDestroyed
     \/ \E n \in Nodes : NodeStep(n) \/ NodeFire(n)
     \/ StallLink \/ LoseLink

(* Every thread runs; when messages come, nodes fire, connections stall or *)
(* are lost and the program is told to end is up to the environment.       *)
Running(A) == ~Stopped /\ A

Fairness ==
  /\ WF_vars(Running(OwnerStep))
  /\ WF_vars(Running(RecvStep))
  /\ \A n \in Nodes : WF_vars(Running(NodeStep(n)))

Spec == Init /\ [][Next]_vars /\ Fairness

-----------------------------------------------------------------------------
(* Types.                                                                  *)
TypeOK ==
  /\ isClientInitialized \in BOOLEAN
  /\ relays \in 0 .. MaxRelays
  /\ built \in 0 .. Len(Program)
  /\ hasRelay \subseteq Nodes
  /\ handler \in {"none", "alive", "destroyed"}
  /\ socket \in {"invalid", "created", "connected"}
  /\ link \in {"up", "stalled", "closed", "reset"}
  /\ startups \in 0 .. 1
  /\ cleanups \in Nat
  /\ threadSet \in BOOLEAN /\ stopRequested \in BOOLEAN
  /\ queuedFlag \in [Nodes -> BOOLEAN]
  /\ sends \in [Nodes -> 0 .. MaxSends]
  /\ received \in Nat /\ published \in Nat
  /\ fault \in {"none", "handler", "mutex"}

(* The socket library is not shut down under an open socket, though every  *)
(* thread that fails calls WSACleanup and nobody counts.                   *)
OpenMeansStartedUp ==
  /\ TypeOK
  /\ socket # "invalid" => startups > cleanups

(* What is received is published: the handler has its bus before the first *)
(* message can arrive.  Only at exit a message may find the handler gone,  *)
(* or the receive thread the mutex, while the owner waits for it.          *)
AllPublished ==
  /\ received = published + (IF pc[Recv] = "deliver" THEN 1 ELSE 0)
  /\ fault = "handler" => handler = "destroyed" /\ pc[Recv] = "deliver"
  /\ fault = "mutex" =>
       handler = "destroyed" /\ pc[Owner] = "joinRecv" /\ pc[Recv] \in {"check", "close"}

(* A node has its relay whenever it sends, and may lack it only while it   *)
(* is being constructed or destroyed around its running thread; legacy     *)
(* nodes never, and so nothing crashes while the program runs.             *)
RelayFound ==
  \A n \in Nodes : pc[n] = "crashed" =>
    n \notin Legacy /\ n = Program[built] /\ pc[Owner] \in {"setRelay", "joinNode"}

(* The destructor returns: its stopClient ends the receive thread wherever *)
(* it is, blocked in recv() or spinning on a connection that was closed,   *)
(* unless the thread has used the handler or the mutex that are gone.      *)
RecvThreadEnds ==
  handler = "destroyed" ~> pc[Owner] = "done" \/ fault # "none"

Stuck(n) == pc[n] = "spin" /\ ~queuedFlag[n] /\ socket = "invalid"

(* The program ends when it is told to, unless a node waits for the flag   *)
(* of a frame that was not sent, fires as its process is destroyed, or is  *)
(* kept in send for ever by a server that does not read: every other node  *)
(* comes back from its send.                                               *)
EndsUnlessStuck ==
  []<>~Locked =>
    (pc[Owner] = "stopNode" ~>
       pc[Owner] = "done" \/ Stopped \/ \E n \in Nodes : Stuck(n))
=============================================================================
