------------------------------ MODULE WsaServer ------------------------------
(***************************************************************************)
(* WsaNetworking::WsaServer (wsanet/wsa_server.h, wsa_server.cpp): the     *)
(* client slots, shared by the accept thread, the receive thread of every  *)
(* connection, which broadcasts what it receives (ServerHandler of         *)
(* tests/test_dataflow_server), and the owner who stops the server.        *)
(*                                                                         *)
(* Every access to an atomic, and every critical section of a slot's mutex *)
(* up to the next atomic, is a step.  A send to a client that does not     *)
(* read blocks, and keeps the mutex of the slot.  The owner's program ends *)
(* with the destruction of the handler, then of the server around its      *)
(* threads.  A destroyed mutex or handler that is used is a fault, where   *)
(* the model stops, or does what it did before: both lie in the frame of a *)
(* function that has not returned.  A destroyed jthread is a fault.        *)
(***************************************************************************)
EXTENDS Integers, FiniteSets

CONSTANTS
  MaxClientCount,  (* m_maxClientCount: 10 in the code                     *)
  MaxConnections,  (* bound: connections that are ever made                *)
  Failing,         (* bound: those whose client may break                  *)
  Stalling         (* bound: those whose client may stop reading           *)

Slots   == 0 .. MaxClientCount - 1
Conns   == 1 .. MaxConnections     (* a connection and its receive thread  *)

ASSUME ServerAssumption ==
  /\ MaxClientCount \in Nat \ {0}
  /\ MaxConnections \in Nat
  /\ Failing \subseteq Conns /\ Stalling \subseteq Conns

Invalid == 0                       (* INVALID_SOCKET, or no thread         *)
Owner   == 0                       (* the thread that calls stopServer     *)
Stoppers == Conns \cup {Owner}     (* the threads that call stopClient     *)

VARIABLES
  clientSockets,         (* m_clientSockets                                *)
  connectedClientCount,  (* m_connectedClientCount                         *)
  maxClientIdx,          (* m_maxClientIdx                                 *)
  nextClientIdx,         (* m_nextClientIdx                                *)
  threadAt,              (* m_clientConnectionThreads: whose jthread       *)
  stopRequested,         (* the stop token of each receive thread          *)
  serverOpen,            (* m_serverSocket # INVALID_SOCKET                *)
  acceptStop,            (* the stop token of m_acceptClientThread         *)
  accept,                (* the accept thread: [pc, conn, idx]             *)
  pc,                    (* where each receive thread and the owner are    *)
  slotOf,                (* clientConnectionIdx each thread was given      *)
  on,                    (* the connection a recv in progress reads        *)
  target,                (* the slot a send or stopClient works on         *)
  last,                  (* activeClients of a broadcast, or NoBroadcast   *)
  peer,                  (* each connection: "none", "up", "full" when the *)
                         (* client does not read and the buffers are full, *)
                         (* "down"; "closed" when the server has closed it *)
  fault                  (* something destroyed has been used              *)

acceptVars == <<accept, acceptStop, serverOpen>>
countVars  == <<connectedClientCount, maxClientIdx, nextClientIdx>>
slotVars   == <<clientSockets, threadAt, stopRequested>>
callVars   == <<slotOf, on, target, last>>
worldVars  == <<peer, fault>>
vars == <<acceptVars, countVars, slotVars, callVars, pc, worldVars>>

NoBroadcast == -1

Init ==
  /\ clientSockets = [i \in Slots |-> Invalid]
  /\ connectedClientCount = 0 /\ maxClientIdx = 0 /\ nextClientIdx = 0
  /\ threadAt = [i \in Slots |-> Invalid]
  /\ stopRequested = [c \in Conns |-> FALSE]
  /\ serverOpen = FALSE /\ acceptStop = FALSE
  /\ accept = [pc |-> "none", conn |-> Invalid, idx |-> 0]
  /\ pc = [t \in Stoppers |-> IF t = Owner THEN "start" ELSE "none"]
  /\ slotOf = [c \in Conns |-> 0]
  /\ on = [c \in Conns |-> Invalid]
  /\ target = [t \in Stoppers |-> 0]
  /\ last = [t \in Stoppers |-> NoBroadcast]
  /\ peer = [c \in Conns |-> "none"]
  /\ fault = FALSE

(* What is destroyed when the owner has come so far; the threads of the    *)
(* slots go one by one, from the last slot.                                *)
HandlerGone == pc[Owner] \notin {"start", "idle"}
CleanedUp   == pc[Owner] \in {"mutexes", "joinSlots", "joinAccept", "gone"}
MutexesGone == pc[Owner] \in {"joinSlots", "joinAccept", "gone"}
ThreadGone(i) == MutexesGone /\ (pc[Owner] = "joinSlots" => i > target[Owner])

(* stopClient holds the slot's mutex from its test to its last store, and  *)
(* sendMessage while send blocks.                                          *)
Locked(i) ==
  \E t \in Stoppers : pc[t] \in {"uncount", "free", "sending"} /\ target[t] = i

CanLock(i) == ~Locked(i)

(* The handler's mutex is held for a whole broadcast.                      *)
HandlerLocked == \E c \in Conns : last[c] # NoBroadcast

Live(i) == clientSockets[i] # Invalid

-----------------------------------------------------------------------------
(* The accept thread.                                                      *)

AcceptGoto(to) == accept' = [accept EXCEPT !.pc = to]

(* The loop tests its stop token, then blocks in accept.                   *)
AcceptTop ==
  /\ accept.pc = "top"
  /\ AcceptGoto(IF acceptStop THEN "ended" ELSE "accept")
  /\ UNCHANGED <<acceptStop, serverOpen, countVars, slotVars, callVars, pc,
                 worldVars>>

(* accept() returns: a new connection, or none once the socket is closed.  *)
Accept ==
  /\ accept.pc = "accept"
  /\ serverOpen
  /\ \E c \in Conns :
       /\ peer[c] = "none" /\ \A d \in Conns : d < c => peer[d] # "none"
       /\ accept' = [accept EXCEPT !.pc = "limit", !.conn = c]
       /\ peer' = [peer EXCEPT ![c] = "up"]
  /\ UNCHANGED <<acceptStop, serverOpen, countVars, slotVars, callVars, pc,
                 fault>>

AcceptFails ==
  /\ accept.pc = "accept"
  /\ ~serverOpen
  /\ AcceptGoto("ended")
  /\ UNCHANGED <<acceptStop, serverOpen, countVars, slotVars, callVars, pc,
                 worldVars>>

(* isClientLimitReached: a connection too many is dropped, still open.     *)
CheckLimit ==
  /\ accept.pc = "limit"
  /\ AcceptGoto(IF connectedClientCount >= MaxClientCount THEN "top" ELSE "load")
  /\ UNCHANGED <<acceptStop, serverOpen, countVars, slotVars, callVars, pc,
                 worldVars>>

(* The load of m_nextClientIdx; only this thread writes m_maxClientIdx.    *)
(* What a slot that is not in the arrays leads to is undefined.            *)
LoadNext ==
  /\ accept.pc = "load"
  /\ accept' = [accept EXCEPT
       !.pc = IF nextClientIdx \in Slots THEN "store" ELSE "undefined",
       !.idx = nextClientIdx]
  /\ UNCHANGED <<acceptStop, serverOpen, countVars, slotVars, callVars, pc,
                 worldVars>>

StoreSocket ==
  /\ accept.pc = "store"
  /\ CanLock(accept.idx)
  /\ clientSockets' = [clientSockets EXCEPT ![accept.idx] = accept.conn]
  /\ AcceptGoto("count")
  /\ UNCHANGED <<acceptStop, serverOpen, countVars, threadAt, stopRequested,
                 callVars, pc, worldVars>>

CountClient ==
  /\ accept.pc = "count"
  /\ connectedClientCount' = connectedClientCount + 1
  /\ AcceptGoto("max")
  /\ UNCHANGED <<acceptStop, serverOpen, maxClientIdx, nextClientIdx, slotVars,
                 callVars, pc, worldVars>>

Larger(a, b) == IF a > b THEN a ELSE b

(* Mutant: the largest index is the one accepted last.                     *)
StoreMaxLatest ==
  /\ accept.pc = "max"
  /\ maxClientIdx' = accept.idx
  /\ AcceptGoto("next")
  /\ UNCHANGED <<acceptStop, serverOpen, connectedClientCount, nextClientIdx,
                 slotVars, callVars, pc, worldVars>>

StoreMax ==
  /\ accept.pc = "max"
  /\ maxClientIdx' = Larger(maxClientIdx, accept.idx)
  /\ AcceptGoto("next")
  /\ UNCHANGED <<acceptStop, serverOpen, connectedClientCount, nextClientIdx,
                 slotVars, callVars, pc, worldVars>>

StoreNext ==
  /\ accept.pc = "next"
  /\ nextClientIdx' = maxClientIdx + 1
  /\ AcceptGoto("open")
  /\ UNCHANGED <<acceptStop, serverOpen, connectedClientCount, maxClientIdx,
                 slotVars, callVars, pc, worldVars>>

(* openClientRecvThread: the new thread runs while the assignment asks the *)
(* old thread of the slot to stop, and joins it.                           *)
OpenThread ==
  LET old == threadAt[accept.idx]
  IN  /\ accept.pc = "open" /\ ~ThreadGone(accept.idx)
      /\ pc' = [pc EXCEPT ![accept.conn] = "check"]
      /\ slotOf' = [slotOf EXCEPT ![accept.conn] = accept.idx]
      /\ stopRequested' = [c \in Conns |-> stopRequested[c] \/ c = old]
      /\ AcceptGoto("join")
      /\ UNCHANGED <<acceptStop, serverOpen, countVars, clientSockets, threadAt,
                     on, target, last, worldVars>>

JoinOld ==
  LET old == threadAt[accept.idx]
  IN  /\ accept.pc = "join" /\ ~ThreadGone(accept.idx)
      /\ old # Invalid => pc[old] = "done"
      /\ threadAt' = [threadAt EXCEPT ![accept.idx] = accept.conn]
      /\ AcceptGoto("top")
      /\ UNCHANGED <<acceptStop, serverOpen, countVars, clientSockets,
                     stopRequested, callVars, pc, worldVars>>

(* The slot's jthread is destroyed by then.                                *)
OpenGone ==
  /\ accept.pc \in {"open", "join"} /\ ThreadGone(accept.idx)
  /\ fault' = TRUE
  /\ UNCHANGED <<acceptVars, countVars, slotVars, callVars, pc, peer>>

AcceptThread ==
  \/ AcceptTop \/ AcceptFails \/ CheckLimit \/ LoadNext
  \/ StoreSocket \/ CountClient \/ StoreMax \/ StoreNext
  \/ OpenThread \/ JoinOld \/ OpenGone

-----------------------------------------------------------------------------
(* stopClient(target[t]) by thread t; AfterStop is what t does next.       *)

(* A broadcast goes on with the next slot, or ends the handler.            *)
NextTarget(c) ==
  IF target[c] < last[c]
  THEN /\ pc' = [pc EXCEPT ![c] = "send"]
       /\ target' = [target EXCEPT ![c] = @ + 1]
       /\ UNCHANGED last
  ELSE /\ pc' = [pc EXCEPT ![c] = "check"]
       /\ last' = [last EXCEPT ![c] = NoBroadcast]
       /\ target' = [target EXCEPT ![c] = 0]

(* The owner goes on with the next slot, then closes the server socket; a  *)
(* receive thread whose own client is stopped ends.                        *)
AfterStop(t) ==
  IF t = Owner
  THEN /\ pc' = [pc EXCEPT ![t] = IF target[t] + 1 \in Slots THEN "stop" ELSE "close"]
       /\ target' = [target EXCEPT ![t] = @ + 1]
       /\ UNCHANGED last
  ELSE IF last[t] # NoBroadcast THEN NextTarget(t)
  ELSE /\ pc' = [pc EXCEPT ![t] = "done"]
       /\ target' = [target EXCEPT ![t] = 0]
       /\ UNCHANGED last

(* Mutant: the count is taken down without the test of the socket.         *)
StopNothingUncounts(t) ==
  /\ pc[t] = "stop"
  /\ CanLock(target[t])
  /\ ~Live(target[t])
  /\ AfterStop(t)
  /\ connectedClientCount' = connectedClientCount - 1
  /\ UNCHANGED <<acceptVars, maxClientIdx, nextClientIdx, slotVars, slotOf, on,
                 worldVars>>

StopNothing(t) ==
  /\ pc[t] = "stop"
  /\ CanLock(target[t])
  /\ ~Live(target[t])
  /\ AfterStop(t)
  /\ UNCHANGED <<acceptVars, countVars, slotVars, slotOf, on, worldVars>>

CloseSocket(t) ==
  LET i == target[t]
  IN  /\ pc[t] = "stop"
      /\ CanLock(i)
      /\ Live(i)
      /\ stopRequested' = [c \in Conns |-> stopRequested[c] \/ c = threadAt[i]]
      /\ peer' = [peer EXCEPT ![clientSockets[i]] = "closed"]
      /\ clientSockets' = [clientSockets EXCEPT ![i] = Invalid]
      /\ pc' = [pc EXCEPT ![t] = "uncount"]
      /\ UNCHANGED <<acceptVars, countVars, threadAt, callVars, fault>>

UncountClient(t) ==
  /\ pc[t] = "uncount"
  /\ connectedClientCount' = connectedClientCount - 1
  /\ pc' = [pc EXCEPT ![t] = "free"]
  /\ UNCHANGED <<acceptVars, maxClientIdx, nextClientIdx, slotVars, callVars,
                 worldVars>>

(* Mutant: the slot after as many as there are clients left.               *)
FreeSlotByCount(t) ==
  /\ pc[t] = "free"
  /\ nextClientIdx' = connectedClientCount
  /\ AfterStop(t)
  /\ UNCHANGED <<acceptVars, connectedClientCount, maxClientIdx, slotVars,
                 slotOf, on, worldVars>>

FreeSlot(t) ==
  /\ pc[t] = "free"
  /\ nextClientIdx' = target[t]
  /\ AfterStop(t)
  /\ UNCHANGED <<acceptVars, connectedClientCount, maxClientIdx, slotVars,
                 slotOf, on, worldVars>>

StopClient(t) ==
  StopNothing(t) \/ CloseSocket(t) \/ UncountClient(t) \/ FreeSlot(t)

-----------------------------------------------------------------------------
(* The receive thread of connection c.                                     *)

(* A socket on which send and recv fail; after WSACleanup, any.            *)
Broken(s) == s # Invalid /\ ~CleanedUp => peer[s] \in {"down", "closed"}

(* The loop's tests: the stop token, then the slot's socket.               *)
CheckSocket(c) ==
  /\ pc[c] = "check"
  /\ stopRequested[c] \/ CanLock(slotOf[c])
  /\ pc' = [pc EXCEPT ![c] =
       IF stopRequested[c] \/ ~Live(slotOf[c]) THEN "done" ELSE "call"]
  /\ UNCHANGED <<acceptVars, countVars, slotVars, callVars, worldVars>>

(* recv is called with the socket that is in the slot by now.              *)
CallRecv(c) ==
  /\ pc[c] = "call"
  /\ on' = [on EXCEPT ![c] = clientSockets[slotOf[c]]]
  /\ pc' = [pc EXCEPT ![c] = "recv"]
  /\ UNCHANGED <<acceptVars, countVars, slotVars, slotOf, target, last,
                 worldVars>>

RecvReturns(c) == on' = [on EXCEPT ![c] = Invalid]

(* recv returns: part of a frame, or nothing with an error that is not     *)
(* fatal (closesocket may interrupt a recv with one); another recv follows.*)
RecvMore(c) ==
  /\ pc[c] = "recv"
  /\ on[c] # Invalid /\ ~CleanedUp
  /\ pc' = [pc EXCEPT ![c] = "call"]
  /\ RecvReturns(c)
  /\ UNCHANGED <<acceptVars, countVars, slotVars, slotOf, target, last,
                 worldVars>>

(* ... the last part of a frame, or such an error, which ends the loop of  *)
(* readMessage as if it were: the handler broadcasts what is there.        *)
RecvFrame(c) ==
  /\ pc[c] = "recv"
  /\ on[c] # Invalid /\ ~CleanedUp
  /\ pc' = [pc EXCEPT ![c] = "handle"]
  /\ RecvReturns(c)
  /\ UNCHANGED <<acceptVars, countVars, slotVars, slotOf, target, last,
                 worldVars>>

(* ... a fatal error.                                                      *)
RecvFails(c) ==
  /\ pc[c] = "recv"
  /\ Broken(on[c])
  /\ pc' = [pc EXCEPT ![c] = "stop"]
  /\ target' = [target EXCEPT ![c] = slotOf[c]]
  /\ RecvReturns(c)
  /\ UNCHANGED <<acceptVars, countVars, slotVars, slotOf, last, worldVars>>

(* ServerHandler::onMessageReceived: broadcastClientMessage.               *)
Broadcast(c) ==
  /\ pc[c] = "handle"
  /\ ~HandlerLocked
  /\ last' = [last EXCEPT ![c] = maxClientIdx]
  /\ target' = [target EXCEPT ![c] = 0]
  /\ pc' = [pc EXCEPT ![c] = "send"]
  /\ UNCHANGED <<acceptVars, countVars, slotVars, slotOf, on, worldVars>>

Full(i) == Live(i) /\ peer[clientSockets[i]] = "full"

(* sendClientMessage: sent, ...                                            *)
SendOk(c) ==
  /\ pc[c] = "send"
  /\ CanLock(target[c])
  /\ Live(target[c]) /\ ~Full(target[c])
  /\ NextTarget(c)
  /\ UNCHANGED <<acceptVars, countVars, slotVars, slotOf, on, worldVars>>

(* ... or send blocks, ...                                                 *)
SendBlocks(c) ==
  /\ pc[c] = "send"
  /\ CanLock(target[c])
  /\ Full(target[c])
  /\ pc' = [pc EXCEPT ![c] = "sending"]
  /\ UNCHANGED <<acceptVars, countVars, slotVars, callVars, worldVars>>

(* Mutant: every error of send is fatal.                                   *)
SendFailsAlways(c) ==
  /\ pc[c] = "send"
  /\ CanLock(target[c])
  /\ pc' = [pc EXCEPT ![c] = "stop"]
  /\ UNCHANGED <<acceptVars, countVars, slotVars, callVars, worldVars>>

(* ... or there is a fatal error, at once or while it blocks, and the      *)
(* client is stopped.                                                      *)
SendFails(c) ==
  /\ pc[c] = "sending" \/ (pc[c] = "send" /\ CanLock(target[c]))
  /\ Broken(clientSockets[target[c]])
  /\ pc' = [pc EXCEPT ![c] = "stop"]
  /\ UNCHANGED <<acceptVars, countVars, slotVars, callVars, worldVars>>

ReceiveThread(c) ==
  \/ CheckSocket(c) \/ CallRecv(c) \/ RecvMore(c) \/ RecvFrame(c) \/ RecvFails(c)
  \/ Broadcast(c) \/ SendOk(c) \/ SendBlocks(c) \/ SendFails(c)

-----------------------------------------------------------------------------
(* The owner's program.                                                    *)

(* start and acceptNewClients; the program does not look at the result of  *)
(* start, which without success leaves no socket to accept from.           *)
Start ==
  /\ pc[Owner] = "start"
  /\ serverOpen' \in BOOLEAN
  /\ AcceptGoto("top")
  /\ pc' = [pc EXCEPT ![Owner] = "idle"]
  /\ UNCHANGED <<acceptStop, countVars, slotVars, callVars, worldVars>>

OwnerGoto(from, to) ==
  /\ pc[Owner] = from
  /\ pc' = [pc EXCEPT ![Owner] = to]

(* The handler goes first, with its mutex, which somebody may hold.  Then  *)
(* ~WsaServer: stopServer asks the accept thread to stop; nothing but the  *)
(* test of its loop could come between.                                    *)
EndProgram ==
  /\ OwnerGoto("idle", "stop")
  /\ acceptStop' = TRUE
  /\ fault' \in {FALSE, HandlerLocked}
  /\ UNCHANGED <<accept, serverOpen, countVars, slotVars, callVars, peer>>

(* Mutant: the server socket stays open.                                   *)
CloseServerNot ==
  /\ OwnerGoto("close", "mutexes")
  /\ UNCHANGED <<acceptVars, countVars, slotVars, callVars, worldVars>>

(* ... and in the end closes the socket and shuts the library down.        *)
CloseServer ==
  /\ OwnerGoto("close", "mutexes")
  /\ serverOpen' = FALSE
  /\ UNCHANGED <<accept, acceptStop, countVars, slotVars, callVars, worldVars>>

(* ... then the members: the mutexes, which somebody may hold, the slots'  *)
(* threads, which are asked to stop and joined, and the accept thread.     *)
DestroyMutexes ==
  /\ OwnerGoto("mutexes", "joinSlots")
  /\ target' = [target EXCEPT ![Owner] = MaxClientCount - 1]
  /\ fault' \in {FALSE, \E i \in Slots : Locked(i)}
  /\ UNCHANGED <<acceptVars, countVars, slotVars, slotOf, on, last, peer>>

StopThread ==
  LET c == threadAt[target[Owner]]
  IN  /\ pc[Owner] = "joinSlots"
      /\ c # Invalid /\ ~stopRequested[c]
      /\ stopRequested' = [stopRequested EXCEPT ![c] = TRUE]
      /\ UNCHANGED <<acceptVars, countVars, clientSockets, threadAt,
                     callVars, pc,
                     worldVars>>

JoinThread ==
  LET i == target[Owner]
  IN  /\ pc[Owner] = "joinSlots"
      /\ threadAt[i] # Invalid => pc[threadAt[i]] = "done"
      /\ IF i > 0
         THEN target' = [target EXCEPT ![Owner] = i - 1] /\ UNCHANGED pc
         ELSE pc' = [pc EXCEPT ![Owner] = "joinAccept"] /\ UNCHANGED target
      /\ UNCHANGED <<acceptVars, countVars, slotVars, slotOf, on, last,
                     worldVars>>

JoinAccept ==
  /\ OwnerGoto("joinAccept", "gone")
  /\ accept.pc = "ended"
  /\ UNCHANGED <<acceptVars, countVars, slotVars, callVars, worldVars>>

DestroyServer ==
  \/ StopClient(Owner) \/ CloseServer
  \/ DestroyMutexes \/ StopThread \/ JoinThread \/ JoinAccept

(* A thread goes into the handler, or to a slot's mutex, when it is gone,  *)
(* and what it finds there is not what was left.                           *)
UseDestroyed ==
  /\ \/ HandlerGone /\ \E c \in Conns : pc[c] = "handle"
     \/ MutexesGone /\ \E c \in Conns :
          pc[c] \in {"send", "stop"} \/ (pc[c] = "check" /\ ~stopRequested[c])
     \/ MutexesGone /\ accept.pc = "store"
  /\ fault' = TRUE
  /\ UNCHANGED <<acceptVars, countVars, slotVars, callVars, pc, peer>>

(* External: a client stops reading for good; one that pauses delays what  *)
(* is sent to it, as the schedule may.                                     *)
PeerStalls(c) ==
  /\ c \in Stalling
  /\ peer[c] = "up"
  /\ peer' = [peer EXCEPT ![c] = "full"]
  /\ UNCHANGED <<acceptVars, countVars, slotVars, callVars, pc, fault>>

(* External: the other end of a connection breaks.                         *)
PeerFails(c) ==
  /\ c \in Failing
  /\ peer[c] \in {"up", "full"}
  /\ peer' = [peer EXCEPT ![c] = "down"]
  /\ UNCHANGED <<acceptVars, countVars, slotVars, callVars, pc, fault>>

Stopped == fault \/ accept.pc = "undefined"

Next ==
  /\ ~Stopped
  /\ \/ Start \/ EndProgram \/ DestroyServer \/ UseDestroyed
     \/ AcceptThread \/ Accept
     \/ \E c \in Conns : StopClient(c) \/ ReceiveThread(c)
     \/ \E c \in Conns : PeerStalls(c) \/ PeerFails(c)

(* The threads run, and the owner once the program ends; recv and accept   *)
(* on what is closed come back, but clients and their data need not come,  *)
(* and clients need not read.                                              *)
Running(A) == ~Stopped /\ A

Fairness ==
  /\ WF_vars(Running(DestroyServer))
  /\ WF_vars(Running(AcceptThread))
  /\ \A c \in Conns : WF_vars(Running(StopClient(c) \/ ReceiveThread(c)))

Spec == Init /\ [][Next]_vars /\ Fairness

-----------------------------------------------------------------------------
(* Types; m_nextClientIdx may point one past the last slot.                *)
TypeOK ==
  /\ clientSockets \in [Slots -> Conns \cup {Invalid}]
  /\ connectedClientCount \in Int
  /\ maxClientIdx \in Slots
  /\ nextClientIdx \in 0 .. MaxClientCount
  /\ threadAt \in [Slots -> Conns \cup {Invalid}]
  /\ slotOf \in [Conns -> Slots]
  /\ \A t \in Stoppers :
       pc[t] \in {"send", "sending", "stop", "uncount", "free", "joinSlots"} =>
         target[t] \in Slots
  /\ \A c \in Conns : peer[c] = "none" => pc[c] = "none"

(* The accept thread never takes the slot of a client that is connected,   *)
(* though stopClient moves m_nextClientIdx between its load and its store. *)
NoClientOverwritten == accept.pc = "store" => ~Live(accept.idx)

(* m_connectedClientCount counts the connected clients, but for the one    *)
(* being accepted and those being stopped at the moment.                   *)
CountMatchesSockets ==
  /\ TypeOK
  /\ connectedClientCount =
       Cardinality({i \in Slots : Live(i)})
         + Cardinality({t \in Stoppers : pc[t] = "uncount"})
         - (IF accept.pc = "count" THEN 1 ELSE 0)

(* A broadcast that starts now reaches every client whose acceptance is    *)
(* complete: none sits above m_maxClientIdx.                               *)
BroadcastReachesAll ==
  \A i \in Slots :
    Live(i) /\ i > maxClientIdx =>
      accept.pc \in {"count", "max"} /\ accept.idx = i

(* A client whose connection is sound is only cut off by the owner, or in  *)
(* a slot that had another client before: a thread that still serves the   *)
(* old client may stop the new one.                                        *)
SoundClientKept ==
  [][\A i \in Slots :
       LET c == clientSockets[i]
       IN  Live(i) /\ ~Live(i)' /\ peer[c] \in {"up", "full"} =>
             \/ acceptStop
             \/ \E d \in Conns \ {c} : pc[d] # "none" /\ slotOf[d] = i]_vars

(* The destructor of the server comes back, with no thread left running,   *)
(* also with threads that use the handler and the mutexes when they are    *)
(* destroyed, if these still do what they did: a client that is accepted   *)
(* while the slots are being stopped does not keep its thread in recv.     *)
(* But a send that a client does not let end keeps the mutex stopServer    *)
(* waits for.                                                              *)
StopEnds ==
  []<>(\A c \in Conns : pc[c] # "sending") =>
    (pc[Owner] = "stop" ~>
       \/ Stopped
       \/ /\ pc[Owner] = "gone" /\ accept.pc = "ended"
          /\ \A c \in Conns : pc[c] \in {"none", "done"})

(* The accept thread refuses a client only when the "client limit" is      *)
(* "reached" (wsa_server.h:157): below the limit, and with nobody busy     *)
(* stopping a client, m_nextClientIdx is a slot.                           *)
SlotBelowLimit ==
  /\ accept.pc = "accept"
  /\ \A t \in Stoppers : pc[t] \notin {"uncount", "free"}
  /\ connectedClientCount < MaxClientCount
  => nextClientIdx \in Slots
=============================================================================
