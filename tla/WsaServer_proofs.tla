-------------------------- MODULE WsaServer_proofs --------------------------
(***************************************************************************)
(* Proofs about WsaServer for any number of slots and of connections.      *)
(***************************************************************************)
EXTENDS WsaServer, FiniteSetTheorems, TLAPS

(* The parts of the inductive invariant; SoundInv, further down, is about  *)
(* why a client is stopped.                                                *)

Shapes ==
  /\ pc = [t \in Stoppers |-> pc[t]]
  /\ peer = [c \in Conns |-> peer[c]]
  /\ target \in [Stoppers -> Int]
  /\ last \in [Stoppers -> Slots \cup {NoBroadcast}]
  /\ accept = [pc |-> accept.pc, conn |-> accept.conn, idx |-> accept.idx]

(* What the accept thread has in hand, and where the owner begins.         *)
InHand ==
  /\ accept.pc \in {"limit", "load", "undefined", "store", "count", "max",
                    "next", "open", "join"} =>
       accept.conn \in Conns /\ peer[accept.conn] # "none"
  /\ accept.pc \in {"limit", "load", "undefined", "store", "count", "max",
                    "next", "open"} => pc[accept.conn] = "none"
  /\ accept.pc \in {"store", "count", "max", "next", "open", "join"} =>
       accept.idx \in Slots
  /\ pc[Owner] = "start" => accept.pc = "none"
  /\ pc[Owner] \in {"start", "idle"} => target[Owner] = 0

(* A slot whose mutex stopClient holds has no client any more.             *)
LockedIsFree ==
  \A t \in Stoppers : pc[t] \in {"uncount", "free"} => ~Live(target[t])

(* The next slot is free, unless it is the one just taken.                 *)
NextIsFree ==
  nextClientIdx \in Slots /\ Live(nextClientIdx) =>
    accept.pc \in {"count", "max", "next"} /\ accept.idx = nextClientIdx

Connected == {i \in Slots : Live(i)}
Uncounted == {t \in Stoppers : pc[t] = "uncount"}

Counted ==
  connectedClientCount =
    Cardinality(Connected) + Cardinality(Uncounted)
      - (IF accept.pc = "count" THEN 1 ELSE 0)

IInv ==
  /\ TypeOK /\ Shapes /\ InHand /\ LockedIsFree /\ NextIsFree
  /\ NoClientOverwritten /\ BroadcastReachesAll /\ Counted

-----------------------------------------------------------------------------
(* The slots, the connections and the threads.                             *)
LEMMA Names ==
  /\ \A i : i \in Slots <=> i \in Int /\ 0 <= i /\ i < MaxClientCount
  /\ MaxClientCount \in Nat \ {0}
  /\ Stoppers = Conns \cup {Owner} /\ Owner \notin Conns
  /\ Invalid \notin Conns
  /\ NoBroadcast \notin Slots /\ NoBroadcast \in Int
  /\ \A c \in Conns : c \in Int
BY ServerAssumption DEF Slots, Conns, Stoppers, Owner, Invalid, NoBroadcast

(* What a thread does after its stopClient, and after a message is sent.   *)
LEMMA Advances ==
  ASSUME TypeOK, Shapes, NEW t \in Stoppers,
         pc[t] \in {"send", "stop", "free"},
         AfterStop(t) \/ (t \in Conns /\ NextTarget(t))
  PROVE  /\ \A u \in Stoppers \ {t} : pc'[u] = pc[u] /\ target'[u] = target[u]
         /\ pc' = [u \in Stoppers |-> pc'[u]]
         /\ target' \in [Stoppers -> Int]
         /\ last' \in [Stoppers -> Slots \cup {NoBroadcast}]
         /\ pc'[t] \in {"stop", "close", "done", "send", "check"}
         /\ pc'[t] \in {"stop", "send"} => target'[t] \in Slots
<1> USE Names
<1>1. target[t] \in Slots /\ last[t] \in Slots \cup {NoBroadcast}
  BY DEF TypeOK, Shapes
<1>2. CASE AfterStop(t) /\ t = Owner
  BY <1>1, <1>2 DEF AfterStop, Shapes
<1>3. CASE NextTarget(t)
  <2>1. CASE target[t] < last[t]
    <3>1. target[t] + 1 \in Slots
      BY <1>1, <2>1 DEF NoBroadcast
    <3>2. /\ pc' = [pc EXCEPT ![t] = "send"] /\ last' = last
          /\ target' = [target EXCEPT ![t] = target[t] + 1]
      BY <1>3, <2>1 DEF NextTarget
    <3> QED BY <3>1, <3>2 DEF Shapes
  <2>2. CASE ~(target[t] < last[t])
    BY <1>1, <1>3, <2>2 DEF NextTarget, Shapes
  <2> QED BY <2>1, <2>2
<1>4. CASE AfterStop(t) /\ t # Owner /\ last[t] = NoBroadcast
  <2>1. /\ pc' = [pc EXCEPT ![t] = "done"]
        /\ target' = [target EXCEPT ![t] = 0] /\ last' = last
    BY <1>4 DEF AfterStop
  <2> QED BY <2>1, <1>1 DEF Shapes
<1> QED BY <1>2, <1>3, <1>4 DEF AfterStop

(* The two parts of the types.                                             *)
Tables ==
  /\ clientSockets \in [Slots -> Conns \cup {Invalid}]
  /\ connectedClientCount \in Int
  /\ maxClientIdx \in Slots
  /\ nextClientIdx \in 0 .. MaxClientCount
  /\ threadAt \in [Slots -> Conns \cup {Invalid}]
  /\ slotOf \in [Conns -> Slots]

Targets ==
  /\ \A t \in Stoppers :
       pc[t] \in {"send", "sending", "stop", "uncount", "free", "joinSlots"} =>
         target[t] \in Slots
  /\ \A c \in Conns : peer[c] = "none" => pc[c] = "none"

(* Together they are the types.                                            *)
LEMMA TypeParts == TypeOK <=> Tables /\ Targets
BY DEF TypeOK, Tables, Targets

(* The connected slots and the threads that are stopping a client are      *)
(* finitely many.                                                          *)
LEMMA Finite ==
  /\ IsFiniteSet(Connected) /\ IsFiniteSet(Connected')
  /\ IsFiniteSet(Uncounted) /\ IsFiniteSet(Uncounted')
<1>1. IsFiniteSet(Slots) /\ IsFiniteSet(Stoppers)
  <2>1. /\ IsFiniteSet(0 .. MaxClientCount - 1)
        /\ IsFiniteSet(1 .. MaxConnections)
    BY FS_Interval, ServerAssumption
  <2> QED BY <2>1, FS_AddElement DEF Slots, Stoppers, Conns
<1>2. /\ Connected \subseteq Slots /\ Connected' \subseteq Slots
      /\ Uncounted \subseteq Stoppers /\ Uncounted' \subseteq Stoppers
  BY DEF Connected, Uncounted
<1> QED BY <1>1, <1>2, FS_Subset

(* Their numbers are numbers.                                              *)
LEMMA Sizes == Cardinality(Connected) \in Nat /\ Cardinality(Uncounted) \in Nat
BY Finite, FS_CardinalityType

(* There is nobody at first.                                               *)
LEMMA InitIInv == Init => IInv
<1> SUFFICES ASSUME Init PROVE IInv
  OBVIOUS
<1> USE Names
<1>1. TypeOK
  BY DEF Init, TypeOK
<1>2. Shapes
  BY DEF Init, Shapes
<1>3. InHand /\ LockedIsFree /\ NextIsFree
  BY DEF Init, InHand, LockedIsFree, NextIsFree, Live
<1>4. NoClientOverwritten /\ BroadcastReachesAll
  BY DEF Init, NoClientOverwritten, BroadcastReachesAll, Live
<1>5. Counted
  <2>1. Connected = {} /\ Uncounted = {}
    BY DEF Init, Connected, Uncounted, Live
  <2> QED BY <2>1, FS_EmptySet DEF Init, Counted
<1> QED BY <1>1, <1>2, <1>3, <1>4, <1>5 DEF IInv

-----------------------------------------------------------------------------
(* One lemma per part of the invariant: what a step of Next preserves.     *)

(* Functions and the record stay such.                                     *)
LEMMA Shaping == IInv /\ Next => Shapes'
<1> SUFFICES ASSUME IInv, Next PROVE Shapes'
  OBVIOUS
<1> USE Names DEF IInv, AcceptGoto, OwnerGoto, acceptVars, countVars, slotVars,
                  callVars, worldVars
<1>1. CASE AcceptTop \/ Accept \/ AcceptFails \/ CheckLimit \/ LoadNext \/
           StoreSocket \/ CountClient \/ StoreMax \/ StoreNext \/ OpenThread
           \/ JoinOld
  BY <1>1 DEF AcceptTop, Accept, AcceptFails, CheckLimit, LoadNext,
           StoreSocket, CountClient, StoreMax, StoreNext, OpenThread, JoinOld,
           Shapes
<1>2. ASSUME NEW t \in Stoppers, StopNothing(t)
      PROVE  Shapes'
  BY <1>2, Advances DEF StopNothing, Shapes
<1>3. ASSUME NEW t \in Stoppers, FreeSlot(t)
      PROVE  Shapes'
  BY <1>3, Advances DEF FreeSlot, Shapes
<1>4. ASSUME NEW t \in Stoppers, CloseSocket(t) \/ UncountClient(t)
      PROVE  Shapes'
  BY <1>4 DEF CloseSocket, UncountClient, Shapes
<1>5. ASSUME NEW c \in Conns, SendOk(c)
      PROVE  Shapes'
  BY <1>5, Advances DEF SendOk, Shapes
<1>6. ASSUME NEW c \in Conns, RecvFails(c)
      PROVE  Shapes'
  BY <1>6 DEF RecvFails, Shapes, TypeOK
<1>7. ASSUME NEW c \in Conns, Broadcast(c)
      PROVE  Shapes'
  <2>1. 0 \in Int /\ maxClientIdx \in Slots
    BY DEF TypeOK
  <2> QED BY <1>7, <2>1 DEF Broadcast, Shapes
<1>8. ASSUME NEW c \in Conns, CheckSocket(c) \/ CallRecv(c) \/ RecvMore(c) \/
      RecvFrame(c) \/ SendBlocks(c) \/ SendFails(c)
      PROVE  Shapes'
  BY <1>8
  DEF CheckSocket, CallRecv, RecvMore, RecvFrame, SendBlocks, SendFails, Shapes
<1>9. CASE DestroyMutexes
  <2>1. MaxClientCount - 1 \in Int /\ Owner \in Stoppers
    OBVIOUS
  <2> QED BY <1>9, <2>1 DEF DestroyMutexes, Shapes
<1>10. CASE JoinThread
  BY <1>10 DEF JoinThread, Shapes, TypeOK
<1>11. CASE Start \/ EndProgram \/ CloseServer \/
           StopThread \/ JoinAccept \/ UseDestroyed \/ OpenGone
  BY <1>11 DEF Start, EndProgram, CloseServer,
           StopThread, JoinAccept, UseDestroyed, OpenGone, Shapes
<1>12. ASSUME NEW c \in Conns, PeerStalls(c) \/ PeerFails(c)
      PROVE  Shapes'
  BY <1>12 DEF PeerStalls, PeerFails, Shapes
<1> QED BY <1>1, <1>2, <1>3, <1>4, <1>5, <1>6, <1>7, <1>8, <1>9, <1>10, <1>11,
       <1>12 DEF Next, AcceptThread, StopClient, ReceiveThread, DestroyServer

(* m_nextClientIdx is one past m_maxClientIdx or a slot that was freed.    *)
LEMMA Tabling == IInv /\ Next => Tables'
<1> SUFFICES ASSUME IInv, Next PROVE Tables'
  OBVIOUS
<1> USE Names DEF IInv, AcceptGoto, OwnerGoto, acceptVars, countVars, slotVars,
                  callVars, worldVars
<1>1. CASE StoreSocket
  BY <1>1, TypeParts DEF StoreSocket, Tables, InHand
<1>2. CASE CountClient
  BY <1>2, TypeParts DEF CountClient, Tables
<1>3. CASE StoreMax
  BY <1>3, TypeParts DEF StoreMax, Tables, InHand, Larger
<1>4. CASE StoreNext
  BY <1>4, TypeParts DEF StoreNext, Tables
<1>5. CASE OpenThread
  BY <1>5, TypeParts DEF OpenThread, Tables, InHand
<1>6. CASE JoinOld
  BY <1>6, TypeParts DEF JoinOld, Tables, InHand
<1>7. CASE AcceptTop \/ Accept \/ AcceptFails \/ CheckLimit \/ LoadNext
  BY <1>7, TypeParts DEF AcceptTop, Accept, AcceptFails, CheckLimit, LoadNext,
           Tables
<1>8. ASSUME NEW t \in Stoppers, StopNothing(t)
      PROVE  Tables'
  BY <1>8, TypeParts DEF StopNothing, Tables
<1>9. ASSUME NEW t \in Stoppers, FreeSlot(t)
      PROVE  Tables'
  BY <1>9, TypeParts DEF FreeSlot, Tables, Targets
<1>10. ASSUME NEW t \in Stoppers, CloseSocket(t)
      PROVE  Tables'
  BY <1>10, TypeParts DEF CloseSocket, Tables
<1>11. ASSUME NEW t \in Stoppers, UncountClient(t)
      PROVE  Tables'
  BY <1>11, TypeParts DEF UncountClient, Tables
<1>12. ASSUME NEW c \in Conns, CheckSocket(c) \/ CallRecv(c) \/ RecvMore(c) \/
      RecvFrame(c) \/ RecvFails(c) \/ Broadcast(c) \/ SendOk(c) \/
      SendBlocks(c) \/ SendFails(c)
      PROVE  Tables'
  BY <1>12, TypeParts DEF CheckSocket, CallRecv, RecvMore, RecvFrame,
           RecvFails, Broadcast, SendOk, SendBlocks, SendFails, Tables
<1>13. CASE Start \/ EndProgram \/ CloseServer \/
           DestroyMutexes \/ StopThread \/ JoinThread \/ JoinAccept \/
           UseDestroyed \/ OpenGone
  BY <1>13, TypeParts
  DEF Start, EndProgram, CloseServer, DestroyMutexes, StopThread, JoinThread,
      JoinAccept, UseDestroyed, OpenGone, Tables
<1>14. ASSUME NEW c \in Conns, PeerStalls(c) \/ PeerFails(c)
      PROVE  Tables'
  BY <1>14, TypeParts DEF PeerStalls, PeerFails, Tables
<1> QED BY <1>1, <1>2, <1>3, <1>4, <1>5, <1>6, <1>7, <1>8, <1>9, <1>10, <1>11,
       <1>12, <1>13, <1>14 DEF Next, AcceptThread, StopClient, ReceiveThread,
       DestroyServer

(* A broadcast goes up to a slot, stopServer and the joins from the first  *)
(* slot to the last and back.                                              *)
LEMMA Targeting == IInv /\ Next => Targets'
<1> SUFFICES ASSUME IInv, Next PROVE Targets'
  OBVIOUS
<1> USE Names DEF IInv, AcceptGoto, OwnerGoto, acceptVars, countVars, slotVars,
                  callVars, worldVars
<1>1. CASE Accept
  BY <1>1, TypeParts DEF Accept, Targets, Shapes
<1>2. CASE OpenThread
  BY <1>2, TypeParts DEF OpenThread, Targets, Shapes, InHand
<1>3. CASE AcceptTop \/ AcceptFails \/ CheckLimit \/ LoadNext \/ StoreSocket
           \/ CountClient \/ StoreMax \/ StoreNext \/ JoinOld
  BY <1>3, TypeParts DEF AcceptTop, AcceptFails, CheckLimit, LoadNext,
           StoreSocket, CountClient, StoreMax, StoreNext, JoinOld, Targets,
           Shapes
<1>4. ASSUME NEW t \in Stoppers, StopNothing(t)
      PROVE  Targets'
  BY <1>4, TypeParts, Advances DEF StopNothing, Targets
<1>5. ASSUME NEW t \in Stoppers, FreeSlot(t)
      PROVE  Targets'
  BY <1>5, TypeParts, Advances DEF FreeSlot, Targets
<1>6. ASSUME NEW t \in Stoppers, CloseSocket(t) \/ UncountClient(t)
      PROVE  Targets'
  BY <1>6, TypeParts DEF CloseSocket, UncountClient, Targets, Shapes
<1>7. ASSUME NEW c \in Conns, SendOk(c)
      PROVE  Targets'
  BY <1>7, TypeParts, Advances DEF SendOk, Targets
<1>8. ASSUME NEW c \in Conns, RecvFails(c)
      PROVE  Targets'
  BY <1>8, TypeParts DEF RecvFails, Targets, Shapes, Tables
<1>9. ASSUME NEW c \in Conns, Broadcast(c)
      PROVE  Targets'
  <2>1. 0 \in Slots
    OBVIOUS
  <2> QED BY <1>9, <2>1, TypeParts DEF Broadcast, Targets, Shapes
<1>10. ASSUME NEW c \in Conns, CheckSocket(c) \/ CallRecv(c) \/ RecvMore(c) \/
      RecvFrame(c) \/ SendBlocks(c) \/ SendFails(c)
      PROVE  Targets'
  BY <1>10, TypeParts DEF CheckSocket, CallRecv, RecvMore, RecvFrame,
           SendBlocks, SendFails, Targets, Shapes
<1>11. CASE EndProgram
  <2>1. 0 \in Slots
    OBVIOUS
  <2>2. pc' = [pc EXCEPT ![Owner] = "stop"] /\ target[Owner] = 0
    BY <1>11 DEF EndProgram, InHand
  <2> QED BY <1>11, <2>1, <2>2, TypeParts DEF EndProgram, Targets, Shapes
<1>12. CASE DestroyMutexes
  <2>1. MaxClientCount - 1 \in Slots
    OBVIOUS
  <2> QED BY <1>12, <2>1, TypeParts DEF DestroyMutexes, Targets, Shapes
<1>13. CASE JoinThread
  <2>1. target[Owner] \in Slots
    BY <1>13, TypeParts DEF JoinThread, Targets
  <2>2. target[Owner] > 0 => target[Owner] - 1 \in Slots
    BY <2>1
  <2>3. CASE target[Owner] > 0
    BY <1>13, <2>2, <2>3, TypeParts DEF JoinThread, Targets, Shapes
  <2>4. CASE ~(target[Owner] > 0)
    BY <1>13, <2>4, TypeParts DEF JoinThread, Targets, Shapes
  <2> QED BY <2>3, <2>4
<1>14. CASE Start \/ CloseServer
  BY <1>14, TypeParts DEF Start, CloseServer,
           Targets, Shapes
<1>15. CASE StopThread \/ JoinAccept \/ UseDestroyed \/ OpenGone
  BY <1>15, TypeParts
  DEF StopThread, JoinAccept, UseDestroyed, OpenGone, Targets,
           Shapes
<1>16. ASSUME NEW c \in Conns, PeerStalls(c) \/ PeerFails(c)
      PROVE  Targets'
  BY <1>16, TypeParts DEF PeerStalls, PeerFails, Targets, Shapes
<1> QED BY <1>1, <1>2, <1>3, <1>4, <1>5, <1>6, <1>7, <1>8, <1>9, <1>10, <1>11,
       <1>12, <1>13, <1>14, <1>15, <1>16 DEF Next, AcceptThread, StopClient,
       ReceiveThread, DestroyServer

(* A connection in the accept thread's hands has no thread yet.            *)
LEMMA Holds == IInv /\ Next => InHand'
<1> SUFFICES ASSUME IInv, Next PROVE InHand'
  OBVIOUS
<1> USE Names DEF IInv, AcceptGoto, OwnerGoto, acceptVars, countVars, slotVars,
                  callVars, worldVars
<1>1. CASE Accept
  BY <1>1, TypeParts DEF Accept, InHand, Shapes, Targets
<1>2. CASE LoadNext
  BY <1>2 DEF LoadNext, InHand, Shapes
<1>3. CASE OpenThread
  BY <1>3 DEF OpenThread, InHand, Shapes
<1>4. CASE AcceptTop \/ AcceptFails \/ CheckLimit \/ StoreSocket \/
           CountClient \/ StoreMax \/ StoreNext \/ JoinOld
  BY <1>4 DEF AcceptTop, AcceptFails, CheckLimit, StoreSocket, CountClient,
           StoreMax, StoreNext, JoinOld, InHand, Shapes
<1>5. ASSUME NEW t \in Stoppers, StopNothing(t)
      PROVE  InHand'
  <2>1. \A u \in Stoppers :
          pc'[u] \in {"start", "idle", "none"} <=>
            pc[u] \in {"start", "idle", "none"}
    BY <1>5, Advances DEF StopNothing
  <2>2. \A u \in Stoppers : pc[u] \in {"start", "idle", "none"} =>
          pc'[u] = pc[u] /\ target'[u] = target[u]
    BY <1>5, Advances DEF StopNothing
  <2>3. accept' = accept /\ peer' = peer
    BY <1>5 DEF StopNothing
  <2> QED BY <2>1, <2>2, <2>3 DEF InHand
<1>6. ASSUME NEW t \in Stoppers, FreeSlot(t)
      PROVE  InHand'
  <2>1. \A u \in Stoppers :
          pc'[u] \in {"start", "idle", "none"} <=>
            pc[u] \in {"start", "idle", "none"}
    BY <1>6, Advances DEF FreeSlot
  <2>2. \A u \in Stoppers : pc[u] \in {"start", "idle", "none"} =>
          pc'[u] = pc[u] /\ target'[u] = target[u]
    BY <1>6, Advances DEF FreeSlot
  <2>3. accept' = accept /\ peer' = peer
    BY <1>6 DEF FreeSlot
  <2> QED BY <2>1, <2>2, <2>3 DEF InHand
<1>7. ASSUME NEW t \in Stoppers, CloseSocket(t)
      PROVE  InHand'
  BY <1>7 DEF CloseSocket, InHand, Shapes
<1>8. ASSUME NEW t \in Stoppers, UncountClient(t)
      PROVE  InHand'
  BY <1>8 DEF UncountClient, InHand, Shapes
<1>9. ASSUME NEW c \in Conns, SendOk(c)
      PROVE  InHand'
  <2>1. \A u \in Stoppers :
          pc'[u] \in {"start", "idle", "none"} <=>
            pc[u] \in {"start", "idle", "none"}
    BY <1>9, Advances DEF SendOk
  <2>2. \A u \in Stoppers : pc[u] \in {"start", "idle", "none"} =>
          pc'[u] = pc[u] /\ target'[u] = target[u]
    BY <1>9, Advances DEF SendOk
  <2>3. accept' = accept /\ peer' = peer
    BY <1>9 DEF SendOk
  <2> QED BY <2>1, <2>2, <2>3 DEF InHand
<1>10. ASSUME NEW c \in Conns, CheckSocket(c)
      PROVE  InHand'
  BY <1>10 DEF CheckSocket, InHand, Shapes
<1>11. ASSUME NEW c \in Conns, CallRecv(c)
      PROVE  InHand'
  BY <1>11 DEF CallRecv, InHand, Shapes
<1>12. ASSUME NEW c \in Conns, RecvMore(c)
      PROVE  InHand'
  BY <1>12 DEF RecvMore, InHand, Shapes
<1>13. ASSUME NEW c \in Conns, RecvFrame(c)
      PROVE  InHand'
  BY <1>13 DEF RecvFrame, InHand, Shapes
<1>14. ASSUME NEW c \in Conns, Broadcast(c)
      PROVE  InHand'
  BY <1>14 DEF Broadcast, InHand, Shapes
<1>15. ASSUME NEW c \in Conns, RecvFails(c)
      PROVE  InHand'
  BY <1>15 DEF RecvFails, InHand, Shapes
<1>16. ASSUME NEW c \in Conns, SendBlocks(c) \/ SendFails(c)
      PROVE  InHand'
  BY <1>16 DEF SendBlocks, SendFails, InHand, Shapes
<1>17. CASE JoinThread
  BY <1>17 DEF JoinThread, InHand, Shapes
<1>18. CASE Start \/ EndProgram \/ CloseServer
  <2>1. CASE Start \/ EndProgram
    BY <2>1 DEF Start, EndProgram, InHand, Shapes
  <2>2. CASE CloseServer
    BY <2>2 DEF CloseServer, InHand, Shapes
  <2> QED BY <1>18, <2>1, <2>2
<1>19. CASE DestroyMutexes \/ StopThread \/ JoinAccept \/ UseDestroyed
            \/ OpenGone
  BY <1>19
  DEF DestroyMutexes, StopThread, JoinAccept, UseDestroyed, OpenGone, InHand,
           Shapes
<1>20. ASSUME NEW c \in Conns, PeerStalls(c) \/ PeerFails(c)
      PROVE  InHand'
  BY <1>20 DEF PeerStalls, PeerFails, InHand, Shapes
<1> QED BY <1>1, <1>2, <1>3, <1>4, <1>5, <1>6, <1>7, <1>8, <1>9, <1>10, <1>11,
       <1>12, <1>13, <1>14, <1>15, <1>16, <1>17, <1>18, <1>19, <1>20 DEF Next,
       AcceptThread, StopClient, ReceiveThread, DestroyServer

(* stopClient invalidates the socket it locks; the mutex keeps the accept  *)
(* thread from storing another.                                            *)
LEMMA Locks == IInv /\ Next => LockedIsFree'
<1> SUFFICES ASSUME IInv, Next PROVE LockedIsFree'
  OBVIOUS
<1> USE Names DEF IInv, AcceptGoto, OwnerGoto, acceptVars, countVars, slotVars,
                  callVars, worldVars
<1>1. CASE StoreSocket
  BY <1>1 DEF StoreSocket, LockedIsFree, Shapes, Live, TypeOK, InHand,
           CanLock, Locked
<1>2. CASE OpenThread
  BY <1>2 DEF OpenThread, LockedIsFree, Shapes, Live
<1>3. CASE AcceptTop \/ Accept \/ AcceptFails \/ CheckLimit \/ LoadNext \/
           CountClient \/ StoreMax \/ StoreNext \/ JoinOld
  BY <1>3 DEF AcceptTop, Accept, AcceptFails, CheckLimit, LoadNext,
           CountClient, StoreMax, StoreNext, JoinOld, LockedIsFree, Shapes,
           Live
<1>4. ASSUME NEW t \in Stoppers, StopNothing(t)
      PROVE  LockedIsFree'
  <2>1. clientSockets' = clientSockets
    BY <1>4 DEF StopNothing
  <2>2. \A u \in Stoppers : pc'[u] \in {"uncount", "free"} =>
          pc'[u] = pc[u] /\ target'[u] = target[u]
    BY <1>4, Advances DEF StopNothing
  <2> QED BY <2>1, <2>2 DEF LockedIsFree, Live
<1>5. ASSUME NEW t \in Stoppers, FreeSlot(t)
      PROVE  LockedIsFree'
  <2>1. clientSockets' = clientSockets
    BY <1>5 DEF FreeSlot
  <2>2. \A u \in Stoppers : pc'[u] \in {"uncount", "free"} =>
          pc'[u] = pc[u] /\ target'[u] = target[u]
    BY <1>5, Advances DEF FreeSlot
  <2> QED BY <2>1, <2>2 DEF LockedIsFree, Live
<1>6. ASSUME NEW t \in Stoppers, CloseSocket(t)
      PROVE  LockedIsFree'
  BY <1>6 DEF CloseSocket, LockedIsFree, Shapes, Live, TypeOK
<1>7. ASSUME NEW t \in Stoppers, UncountClient(t)
      PROVE  LockedIsFree'
  BY <1>7 DEF UncountClient, LockedIsFree, Shapes, Live
<1>8. ASSUME NEW c \in Conns, SendOk(c)
      PROVE  LockedIsFree'
  <2>1. clientSockets' = clientSockets
    BY <1>8 DEF SendOk
  <2>2. \A u \in Stoppers : pc'[u] \in {"uncount", "free"} =>
          pc'[u] = pc[u] /\ target'[u] = target[u]
    BY <1>8, Advances DEF SendOk
  <2> QED BY <2>1, <2>2 DEF LockedIsFree, Live
<1>9. ASSUME NEW c \in Conns, RecvFails(c)
      PROVE  LockedIsFree'
  BY <1>9 DEF RecvFails, LockedIsFree, Shapes, Live
<1>10. ASSUME NEW c \in Conns, Broadcast(c)
      PROVE  LockedIsFree'
  BY <1>10 DEF Broadcast, LockedIsFree, Shapes, Live
<1>11. ASSUME NEW c \in Conns, CheckSocket(c) \/ CallRecv(c) \/ RecvMore(c) \/
      RecvFrame(c) \/ SendBlocks(c) \/ SendFails(c)
      PROVE  LockedIsFree'
  BY <1>11
  DEF CheckSocket, CallRecv, RecvMore, RecvFrame, SendBlocks, SendFails,
           LockedIsFree, Shapes, Live
<1>12. CASE JoinThread
  BY <1>12 DEF JoinThread, LockedIsFree, Shapes, Live
<1>13. CASE DestroyMutexes
  BY <1>13 DEF DestroyMutexes, LockedIsFree, Shapes, Live
<1>14. CASE Start \/ EndProgram \/ CloseServer \/
           StopThread \/ JoinAccept \/ UseDestroyed \/ OpenGone
  BY <1>14 DEF Start, EndProgram, CloseServer,
           StopThread, JoinAccept, UseDestroyed, OpenGone, LockedIsFree,
           Shapes, Live
<1>15. ASSUME NEW c \in Conns, PeerStalls(c) \/ PeerFails(c)
      PROVE  LockedIsFree'
  BY <1>15 DEF PeerStalls, PeerFails, LockedIsFree, Shapes, Live
<1> QED BY <1>1, <1>2, <1>3, <1>4, <1>5, <1>6, <1>7, <1>8, <1>9, <1>10, <1>11,
       <1>12, <1>13, <1>14, <1>15 DEF Next, AcceptThread, StopClient,
       ReceiveThread, DestroyServer

(* What stopClient stores is the slot it has just freed, what the accept   *)
(* thread stores is above every client.                                    *)
LEMMA NextFree == IInv /\ Next => NextIsFree'
<1> SUFFICES ASSUME IInv, Next PROVE NextIsFree'
  OBVIOUS
<1> USE Names DEF IInv, AcceptGoto, OwnerGoto, acceptVars, countVars, slotVars,
                  callVars, worldVars
<1>1. CASE LoadNext
  BY <1>1 DEF LoadNext, NextIsFree, Shapes, Live, InHand, TypeOK
<1>2. CASE StoreSocket
  BY <1>2 DEF StoreSocket, NextIsFree, Shapes, Live, InHand, TypeOK
<1>3. CASE StoreMax
  BY <1>3 DEF StoreMax, NextIsFree, Shapes, Live, InHand, TypeOK
<1>4. CASE StoreNext
  BY <1>4 DEF StoreNext, NextIsFree, Shapes, Live, TypeOK, BroadcastReachesAll
<1>5. CASE AcceptTop \/ Accept \/ AcceptFails \/ CheckLimit \/ CountClient \/
           OpenThread \/ JoinOld
  BY <1>5 DEF AcceptTop, Accept, AcceptFails, CheckLimit, CountClient,
           OpenThread, JoinOld, NextIsFree, Shapes, Live, InHand, TypeOK
<1>6. ASSUME NEW t \in Stoppers, FreeSlot(t)
      PROVE  NextIsFree'
  BY <1>6 DEF FreeSlot, NextIsFree, LockedIsFree, Shapes, Live, TypeOK
<1>7. ASSUME NEW t \in Stoppers, CloseSocket(t)
      PROVE  NextIsFree'
  BY <1>7 DEF CloseSocket, NextIsFree, Shapes, Live, TypeOK
<1>8. ASSUME NEW t \in Stoppers, StopNothing(t) \/ UncountClient(t)
      PROVE  NextIsFree'
  BY <1>8 DEF StopNothing, UncountClient, NextIsFree, Shapes, Live
<1>9. ASSUME NEW c \in Conns, CheckSocket(c) \/ CallRecv(c) \/ RecvMore(c) \/
      RecvFrame(c) \/ RecvFails(c) \/ Broadcast(c) \/ SendOk(c) \/
      SendBlocks(c) \/ SendFails(c)
      PROVE  NextIsFree'
  BY <1>9 DEF CheckSocket, CallRecv, RecvMore, RecvFrame, RecvFails,
           Broadcast, SendOk, SendBlocks, SendFails, NextIsFree, Shapes, Live
<1>10. CASE Start
  BY <1>10 DEF Start, NextIsFree, Shapes, Live, InHand
<1>11. CASE EndProgram \/ CloseServer \/
           DestroyMutexes
  BY <1>11 DEF EndProgram, CloseServer,
           DestroyMutexes, NextIsFree, Shapes, Live
<1>12. CASE StopThread \/ JoinThread \/ JoinAccept \/ UseDestroyed \/ OpenGone
  BY <1>12
  DEF StopThread, JoinThread, JoinAccept, UseDestroyed, OpenGone, NextIsFree,
           Shapes, Live
<1>13. ASSUME NEW c \in Conns, PeerStalls(c) \/ PeerFails(c)
      PROVE  NextIsFree'
  BY <1>13 DEF PeerStalls, PeerFails, NextIsFree, Shapes, Live
<1> QED BY <1>1, <1>2, <1>3, <1>4, <1>5, <1>6, <1>7, <1>8, <1>9, <1>10, <1>11,
       <1>12, <1>13 DEF Next, AcceptThread, StopClient, ReceiveThread,
       DestroyServer

(* The slot that is loaded is free, and only the accept thread takes one.  *)
LEMMA Overwrites == IInv /\ Next => NoClientOverwritten'
<1> SUFFICES ASSUME IInv, Next PROVE NoClientOverwritten'
  OBVIOUS
<1> USE Names DEF IInv, AcceptGoto, OwnerGoto, acceptVars, countVars, slotVars,
                  callVars, worldVars
<1>1. CASE LoadNext
  BY <1>1 DEF LoadNext, NoClientOverwritten, NextIsFree, Shapes, Live
<1>2. CASE StoreSocket
  BY <1>2 DEF StoreSocket, NoClientOverwritten, Shapes, Live
<1>3. CASE AcceptTop \/ Accept \/ AcceptFails \/ CheckLimit \/ CountClient \/
           StoreMax \/ StoreNext \/ OpenThread \/ JoinOld
  BY <1>3 DEF AcceptTop, Accept, AcceptFails, CheckLimit, CountClient,
           StoreMax, StoreNext, OpenThread, JoinOld, NoClientOverwritten,
           Shapes, Live
<1>4. ASSUME NEW t \in Stoppers, CloseSocket(t)
      PROVE  NoClientOverwritten'
  BY <1>4 DEF CloseSocket, NoClientOverwritten, Shapes, Live, TypeOK
<1>5. ASSUME NEW t \in Stoppers, StopNothing(t) \/ UncountClient(t) \/
      FreeSlot(t)
      PROVE  NoClientOverwritten'
  BY <1>5 DEF StopNothing, UncountClient, FreeSlot, NoClientOverwritten,
           Shapes, Live
<1>6. ASSUME NEW c \in Conns, CheckSocket(c) \/ CallRecv(c) \/ RecvMore(c) \/
      RecvFrame(c) \/ RecvFails(c) \/ Broadcast(c) \/ SendOk(c) \/
      SendBlocks(c) \/ SendFails(c)
      PROVE  NoClientOverwritten'
  BY <1>6 DEF CheckSocket, CallRecv, RecvMore, RecvFrame, RecvFails,
           Broadcast, SendOk, SendBlocks, SendFails, NoClientOverwritten,
           Shapes, Live
<1>7. CASE Start
  BY <1>7 DEF Start, NoClientOverwritten, Shapes, Live
<1>8. CASE EndProgram \/ CloseServer \/
           DestroyMutexes
  BY <1>8 DEF EndProgram, CloseServer,
           DestroyMutexes, NoClientOverwritten, Shapes, Live
<1>9. CASE StopThread \/ JoinThread \/ JoinAccept \/ UseDestroyed \/ OpenGone
  BY <1>9 DEF StopThread, JoinThread, JoinAccept, UseDestroyed, OpenGone,
           NoClientOverwritten, Shapes, Live
<1>10. ASSUME NEW c \in Conns, PeerStalls(c) \/ PeerFails(c)
      PROVE  NoClientOverwritten'
  BY <1>10 DEF PeerStalls, PeerFails, NoClientOverwritten, Shapes, Live
<1> QED BY <1>1, <1>2, <1>3, <1>4, <1>5, <1>6, <1>7, <1>8, <1>9, <1>10 DEF
       Next, AcceptThread, StopClient, ReceiveThread, DestroyServer

(* The accept thread raises m_maxClientIdx before it goes on.              *)
LEMMA Reaches == IInv /\ Next => BroadcastReachesAll'
<1> SUFFICES ASSUME IInv, Next PROVE BroadcastReachesAll'
  OBVIOUS
<1> USE Names DEF IInv, AcceptGoto, OwnerGoto, acceptVars, countVars, slotVars,
                  callVars, worldVars
<1>1. CASE StoreSocket
  BY <1>1 DEF StoreSocket, BroadcastReachesAll, Shapes, Live, TypeOK, InHand
<1>2. CASE CountClient
  BY <1>2 DEF CountClient, BroadcastReachesAll, Shapes, Live
<1>3. CASE StoreMax
  BY <1>3 DEF StoreMax, BroadcastReachesAll, Shapes, Live, TypeOK, InHand,
           Larger
<1>4. CASE StoreNext
  BY <1>4 DEF StoreNext, BroadcastReachesAll, Shapes, Live
<1>5. CASE AcceptTop \/ Accept \/ AcceptFails \/ CheckLimit
  BY <1>5 DEF AcceptTop, Accept, AcceptFails, CheckLimit, BroadcastReachesAll,
           Shapes, Live
<1>6. CASE LoadNext \/ OpenThread \/ JoinOld
  BY <1>6 DEF LoadNext, OpenThread, JoinOld, BroadcastReachesAll, Shapes, Live
<1>7. ASSUME NEW t \in Stoppers, CloseSocket(t)
      PROVE  BroadcastReachesAll'
  BY <1>7 DEF CloseSocket, BroadcastReachesAll, Shapes, Live, TypeOK
<1>8. ASSUME NEW t \in Stoppers, StopNothing(t) \/ UncountClient(t) \/
      FreeSlot(t)
      PROVE  BroadcastReachesAll'
  BY <1>8 DEF StopNothing, UncountClient, FreeSlot, BroadcastReachesAll,
           Shapes, Live
<1>9. ASSUME NEW c \in Conns, CheckSocket(c) \/ CallRecv(c) \/ RecvMore(c) \/
      RecvFrame(c) \/ RecvFails(c) \/ Broadcast(c) \/ SendOk(c) \/
      SendBlocks(c) \/ SendFails(c)
      PROVE  BroadcastReachesAll'
  BY <1>9 DEF CheckSocket, CallRecv, RecvMore, RecvFrame, RecvFails,
           Broadcast, SendOk, SendBlocks, SendFails, BroadcastReachesAll,
           Shapes, Live
<1>10. CASE Start
  BY <1>10 DEF Start, BroadcastReachesAll, Shapes, Live, InHand
<1>11. CASE EndProgram \/ CloseServer \/
           DestroyMutexes
  BY <1>11 DEF EndProgram, CloseServer,
           DestroyMutexes, BroadcastReachesAll, Shapes, Live
<1>12. CASE StopThread \/ JoinThread \/ JoinAccept \/ UseDestroyed \/ OpenGone
  BY <1>12 DEF StopThread, JoinThread, JoinAccept, UseDestroyed, OpenGone,
           BroadcastReachesAll, Shapes, Live
<1>13. ASSUME NEW c \in Conns, PeerStalls(c) \/ PeerFails(c)
      PROVE  BroadcastReachesAll'
  BY <1>13 DEF PeerStalls, PeerFails, BroadcastReachesAll, Shapes, Live
<1> QED BY <1>1, <1>2, <1>3, <1>4, <1>5, <1>6, <1>7, <1>8, <1>9, <1>10, <1>11,
       <1>12, <1>13 DEF Next, AcceptThread, StopClient, ReceiveThread,
       DestroyServer

(* A step that moves a socket moves a thread in or out of its count.       *)
LEMMA Counts == IInv /\ Next => Counted'
<1> SUFFICES ASSUME IInv, Next PROVE Counted'
  OBVIOUS
<1> USE Names DEF IInv, AcceptGoto, OwnerGoto, acceptVars, countVars, slotVars,
                  callVars, worldVars
<1>0. ASSUME connectedClientCount' = connectedClientCount,
             clientSockets' = clientSockets,
             \A u \in Stoppers : pc'[u] = "uncount" <=> pc[u] = "uncount",
             accept'.pc = "count" <=> accept.pc = "count"
      PROVE  Counted'
  <2>1. Connected' = Connected /\ Uncounted' = Uncounted
    BY <1>0 DEF Connected, Uncounted, Live
  <2> QED BY <1>0, <2>1 DEF Counted
<1>1. CASE StoreSocket
  <2>1. Uncounted' = Uncounted
    BY <1>1 DEF StoreSocket, Uncounted
  <2>2. accept.idx \in Slots /\ accept.idx \notin Connected
    BY <1>1 DEF StoreSocket, InHand, NoClientOverwritten, Connected
  <2>3. Connected' = Connected \cup {accept.idx}
    BY <1>1, <2>2 DEF StoreSocket, Connected, Live, TypeOK, InHand
  <2>4. /\ connectedClientCount' = connectedClientCount
        /\ accept.pc = "store" /\ accept'.pc = "count"
    BY <1>1 DEF StoreSocket, Shapes
  <2>5. Cardinality(Connected') = Cardinality(Connected) + 1
    BY <2>2, <2>3, Finite, FS_AddElement
  <2> QED BY <2>1, <2>4, <2>5, Sizes DEF Counted
<1>2. CASE CountClient
  <2>1. Uncounted' = Uncounted /\ Connected' = Connected
    BY <1>2 DEF CountClient, Uncounted, Connected, Live
  <2>2. /\ connectedClientCount' = connectedClientCount + 1
        /\ accept.pc = "count" /\ accept'.pc # "count"
    BY <1>2 DEF CountClient, Shapes
  <2> QED BY <2>1, <2>2, Sizes DEF Counted
<1>3. CASE OpenThread
  BY <1>3, <1>0 DEF OpenThread, Shapes, InHand
<1>4. CASE AcceptTop \/ Accept \/ AcceptFails \/ CheckLimit
  BY <1>4, <1>0 DEF AcceptTop, Accept, AcceptFails, CheckLimit, Shapes
<1>5. CASE LoadNext \/ StoreMax \/ StoreNext \/ JoinOld
  BY <1>5, <1>0 DEF LoadNext, StoreMax, StoreNext, JoinOld, Shapes
<1>6. ASSUME NEW t \in Stoppers, CloseSocket(t)
      PROVE  Counted'
  <2>1. Uncounted' = Uncounted \cup {t} /\ t \notin Uncounted
    BY <1>6 DEF CloseSocket, Uncounted, Shapes
  <2>2. Connected' = Connected \ {target[t]} /\ target[t] \in Connected
    BY <1>6 DEF CloseSocket, Connected, Live, TypeOK
  <2>3. connectedClientCount' = connectedClientCount /\ accept' = accept
    BY <1>6 DEF CloseSocket
  <2>4. /\ Cardinality(Uncounted') = Cardinality(Uncounted) + 1
        /\ Cardinality(Connected') = Cardinality(Connected) - 1
    BY <2>1, <2>2, Finite, FS_AddElement, FS_RemoveElement
  <2> QED BY <2>3, <2>4, Sizes DEF Counted
<1>7. ASSUME NEW t \in Stoppers, UncountClient(t)
      PROVE  Counted'
  <2>1. Uncounted' = Uncounted \ {t} /\ t \in Uncounted
    BY <1>7 DEF UncountClient, Uncounted, Shapes
  <2>2. Connected' = Connected /\ accept' = accept
    BY <1>7 DEF UncountClient, Connected, Live
  <2>3. connectedClientCount' = connectedClientCount - 1
    BY <1>7 DEF UncountClient
  <2>4. Cardinality(Uncounted') = Cardinality(Uncounted) - 1
    BY <2>1, Finite, FS_RemoveElement
  <2> QED BY <2>2, <2>3, <2>4, Sizes DEF Counted
<1>8. ASSUME NEW t \in Stoppers, StopNothing(t)
      PROVE  Counted'
  BY <1>8, <1>0, Advances DEF StopNothing, Shapes
<1>9. ASSUME NEW t \in Stoppers, FreeSlot(t)
      PROVE  Counted'
  BY <1>9, <1>0, Advances DEF FreeSlot, Shapes
<1>10. ASSUME NEW c \in Conns, SendOk(c)
      PROVE  Counted'
  BY <1>10, <1>0, Advances DEF SendOk, Shapes
<1>11. ASSUME NEW c \in Conns, CheckSocket(c) \/ CallRecv(c) \/ RecvMore(c) \/
      RecvFrame(c)
      PROVE  Counted'
  BY <1>11, <1>0 DEF CheckSocket, CallRecv, RecvMore, RecvFrame, Shapes
<1>12. ASSUME NEW c \in Conns,
              RecvFails(c) \/ Broadcast(c) \/ SendBlocks(c) \/ SendFails(c)
      PROVE  Counted'
  BY <1>12, <1>0 DEF RecvFails, Broadcast, SendBlocks, SendFails, Shapes
<1>13. CASE Start
  BY <1>13, <1>0 DEF Start, Shapes, InHand
<1>14. CASE EndProgram \/ CloseServer \/
           DestroyMutexes
  BY <1>14, <1>0 DEF EndProgram, CloseServer,
           DestroyMutexes, Shapes
<1>15. CASE StopThread \/ JoinThread \/ JoinAccept \/ UseDestroyed \/ OpenGone
  BY <1>15, <1>0
  DEF StopThread, JoinThread, JoinAccept, UseDestroyed, OpenGone, Shapes
<1>16. ASSUME NEW c \in Conns, PeerStalls(c) \/ PeerFails(c)
      PROVE  Counted'
  BY <1>16, <1>0 DEF PeerStalls, PeerFails, Shapes
<1> QED BY <1>1, <1>2, <1>3, <1>4, <1>5, <1>6, <1>7, <1>8, <1>9, <1>10, <1>11,
       <1>12, <1>13, <1>14, <1>15, <1>16 DEF Next, AcceptThread, StopClient,
       ReceiveThread, DestroyServer

-----------------------------------------------------------------------------
(* The parts hold together in every behaviour.                             *)
THEOREM InductiveInvariant == Spec => []IInv
<1>1. IInv /\ [Next]_vars => IInv'
  <2> SUFFICES ASSUME IInv, [Next]_vars PROVE IInv'
    OBVIOUS
  <2>1. CASE Next
    <3>1. TypeOK' /\ Shapes' /\ InHand'
      <4>1. Tables' /\ Targets'
        BY <2>1, Tabling, Targeting
      <4>2. TypeOK'
        BY <4>1 DEF TypeOK, Tables, Targets
      <4> QED BY <4>2, <2>1, Shaping, Holds
    <3> QED BY <2>1, <3>1, Locks, NextFree, Overwrites, Reaches, Counts
            DEF IInv
  <2>2. CASE UNCHANGED vars
    <3> USE <2>2 DEF vars, acceptVars, countVars, slotVars, callVars, worldVars
    <3>1. TypeOK' /\ Shapes'
      <4>1. TypeOK'
        BY DEF IInv, TypeOK
      <4>2. Shapes'
        BY DEF IInv, Shapes
      <4> QED BY <4>1, <4>2
    <3>2. InHand' /\ LockedIsFree'
      BY DEF IInv, InHand, LockedIsFree, Live
    <3>3. NextIsFree' /\ NoClientOverwritten' /\ BroadcastReachesAll'
      BY DEF IInv, NextIsFree, NoClientOverwritten, BroadcastReachesAll, Live
    <3>4. Counted'
      <4>1. Connected' = Connected /\ Uncounted' = Uncounted
        BY DEF Connected, Uncounted, Live
      <4> QED BY <4>1 DEF IInv, Counted
    <3> QED BY <3>1, <3>2, <3>3, <3>4 DEF IInv
  <2> QED BY <2>1, <2>2
<1> QED BY InitIInv, <1>1, PTL DEF Spec

(* wsa_server.h:137-152: the accept thread's slot is free, though the load *)
(* of m_nextClientIdx and the store of the socket are not one step.        *)
THEOREM ClientsAreKept == Spec => []NoClientOverwritten
<1>1. IInv => NoClientOverwritten
  BY DEF IInv
<1> QED BY <1>1, InductiveInvariant, PTL

(* wsa_server.cpp, stopClient, and wsa_server.h, acceptNewClients: the      *)
(* count is exact but for the steps in progress, however many threads stop *)
(* the same client.                                                        *)
THEOREM CountIsRight == Spec => []CountMatchesSockets
<1>1. IInv => CountMatchesSockets
  BY DEF IInv, Counted, Connected, Uncounted, CountMatchesSockets
<1> QED BY <1>1, InductiveInvariant, PTL

(* wsa_server.cpp, broadcastClientMessage: m_maxClientIdx, which it reads  *)
(* without a lock, is never below a client that has been accepted.         *)
THEOREM BroadcastsReachAll == Spec => []BroadcastReachesAll
<1>1. IInv => BroadcastReachesAll
  BY DEF IInv
<1> QED BY <1>1, InductiveInvariant, PTL

-----------------------------------------------------------------------------
(* Why a sound client may be cut off: its slot had another client before,  *)
(* and some thread still serves that one.  The accept thread has a client  *)
(* in its slot before the thread that serves it begins.                    *)
Pending(i) ==
  accept.pc \in {"count", "max", "next", "open"} /\ accept.idx = i

Serves(c, i) == pc[c] # "none" /\ slotOf[c] = i
HadOther(i)  == \E d \in Conns \ {clientSockets[i]} : Serves(d, i)

(* stopServer first asks the accept thread to stop.                        *)
OwnerAsks == pc[Owner] \notin {"start", "idle"} => acceptStop

(* A client has its thread or will have; what its thread receives from is  *)
(* the client, unless the slot has lost it.                                *)
SocketsServed ==
  /\ on = [c \in Conns |-> on[c]]
  /\ \A i \in Slots : Live(i) =>
       \/ Serves(clientSockets[i], i)
       \/ Pending(i) /\ accept.conn = clientSockets[i]
  /\ \A c \in Conns :
       pc[c] = "recv" /\ clientSockets[slotOf[c]] = c => on[c] = c

(* Nobody uses a slot above m_maxClientIdx.                                *)
BelowMax ==
  ~acceptStop =>
    /\ nextClientIdx <= maxClientIdx + 1
    /\ accept.pc \in {"store", "count", "max"} =>
         accept.idx <= maxClientIdx + 1
    /\ accept.pc \in {"next", "open"} => accept.idx <= maxClientIdx
    /\ \A c \in Conns :
         /\ pc[c] # "none" => slotOf[c] <= maxClientIdx
         /\ pc[c] \in {"send", "sending", "stop", "uncount", "free"} =>
              target[c] <= maxClientIdx
         /\ last[c] <= maxClientIdx

(* Every slot up to m_maxClientIdx has had a client, but for the first one *)
(* at the beginning.                                                       *)
Fresh == \A c \in Conns : pc[c] = "none"

SlotsUsed ==
  ~acceptStop =>
    /\ \A i \in Slots : i <= maxClientIdx =>
         Pending(i) \/ (\E d \in Conns : Serves(d, i)) \/ (i = 0 /\ Fresh)
    /\ Fresh => /\ accept.pc \in {"store", "count", "max", "next", "open"} =>
                     accept.idx = 0
                /\ accept.pc # "open" => nextClientIdx = 0

(* Whoever is about to stop a client has met one that is broken, or the    *)
(* slot has changed hands or will.                                         *)
StopsJustified ==
  ~acceptStop =>
    \A t \in Conns : pc[t] = "stop" =>
      LET i == target[t]
      IN  \/ HadOther(i)
          \/ Live(i) /\ peer[clientSockets[i]] \notin {"up", "full"}
          \/ ~Live(i) /\ Pending(i)

SoundInv ==
  OwnerAsks /\ SocketsServed /\ BelowMax /\ SlotsUsed /\ StopsJustified

(* What never goes back: a request to stop, a thread's slot, and a         *)
(* connection that has failed.                                             *)
LEMMA Onward ==
  ASSUME IInv, Next
  PROVE  /\ acceptStop => acceptStop'
         /\ \A c \in Conns : pc[c] # "none" =>
              pc'[c] # "none" /\ slotOf'[c] = slotOf[c]
         /\ \A c \in Conns : peer[c] \notin {"none", "up", "full"} =>
              peer'[c] \notin {"none", "up", "full"}
<1> DEFINE Goal == /\ acceptStop => acceptStop'
                   /\ \A c \in Conns : pc[c] # "none" =>
                        pc'[c] # "none" /\ slotOf'[c] = slotOf[c]
                   /\ \A c \in Conns : peer[c] \notin {"none", "up", "full"} =>
                        peer'[c] \notin {"none", "up", "full"}
<1> USE Names DEF IInv, AcceptGoto, OwnerGoto, acceptVars, countVars, slotVars,
                  callVars, worldVars
<1>1. CASE Accept
  BY <1>1 DEF Accept, Shapes
<1>2. CASE OpenThread
  BY <1>2 DEF OpenThread, Shapes, InHand
<1>3. CASE AcceptTop \/ AcceptFails \/ CheckLimit \/ LoadNext \/ StoreSocket
           \/ CountClient \/ StoreMax \/ StoreNext \/ JoinOld
  BY <1>3 DEF AcceptTop, AcceptFails, CheckLimit, LoadNext, StoreSocket,
           CountClient, StoreMax, StoreNext, JoinOld
<1>4. ASSUME NEW t \in Stoppers, StopNothing(t)
      PROVE  Goal
  BY <1>4, Advances DEF StopNothing
<1>5. ASSUME NEW t \in Stoppers, FreeSlot(t)
      PROVE  Goal
  BY <1>5, Advances DEF FreeSlot
<1>6. ASSUME NEW t \in Stoppers, CloseSocket(t)
      PROVE  Goal
  <2>1. /\ pc' = [pc EXCEPT ![t] = "uncount"] /\ pc[t] = "stop"
        /\ peer' = [peer EXCEPT ![clientSockets[target[t]]] = "closed"]
        /\ slotOf' = slotOf /\ acceptStop' = acceptStop
    BY <1>6 DEF CloseSocket
  <2> QED BY <2>1 DEF Shapes
<1>7. ASSUME NEW t \in Stoppers, UncountClient(t)
      PROVE  Goal
  BY <1>7 DEF UncountClient, Shapes
<1>8. ASSUME NEW c \in Conns, SendOk(c)
      PROVE  Goal
  BY <1>8, Advances DEF SendOk
<1>9. ASSUME NEW c \in Conns, CheckSocket(c) \/ CallRecv(c) \/ RecvMore(c) \/
      RecvFrame(c)
      PROVE  Goal
  <2>1. /\ \E to \in {"done", "call", "recv", "handle"} :
             pc' = [pc EXCEPT ![c] = to]
        /\ UNCHANGED <<slotOf, acceptStop, peer>>
    BY <1>9 DEF CheckSocket, CallRecv, RecvMore, RecvFrame
  <2> QED BY <2>1 DEF Shapes
<1>10. ASSUME NEW c \in Conns,
              RecvFails(c) \/ Broadcast(c) \/ SendBlocks(c) \/ SendFails(c)
      PROVE  Goal
  <2>1. /\ \E to \in {"stop", "send", "sending"} : pc' = [pc EXCEPT ![c] = to]
        /\ UNCHANGED <<slotOf, acceptStop, peer>>
    BY <1>10 DEF RecvFails, Broadcast, SendBlocks, SendFails
  <2> QED BY <2>1 DEF Shapes
<1>11. CASE Start \/ EndProgram \/ CloseServer
  <2>1. /\ \E to \in {"idle", "stop", "mutexes"} :
             pc' = [pc EXCEPT ![Owner] = to]
        /\ acceptStop => acceptStop'
        /\ UNCHANGED <<slotOf, peer>>
    <3>1. CASE Start
      BY <3>1 DEF Start
    <3>2. CASE EndProgram
      BY <3>2 DEF EndProgram
    <3>3. CASE CloseServer
      BY <3>3 DEF CloseServer
    <3> QED BY <1>11, <3>1, <3>2, <3>3
  <2> QED BY <2>1 DEF Shapes
<1>12. CASE DestroyMutexes \/ StopThread \/ JoinThread \/ JoinAccept
            \/ UseDestroyed \/ OpenGone
  <2>1. /\ \/ pc' = pc
           \/ \E to \in {"joinSlots", "joinAccept", "gone"} :
                pc' = [pc EXCEPT ![Owner] = to]
        /\ UNCHANGED <<slotOf, acceptStop, peer>>
    BY <1>12
    DEF DestroyMutexes, StopThread, JoinThread, JoinAccept, UseDestroyed,
        OpenGone
  <2> QED BY <2>1 DEF Shapes
<1>13. ASSUME NEW c \in Conns, PeerStalls(c) \/ PeerFails(c)
      PROVE  Goal
  BY <1>13 DEF PeerStalls, PeerFails, Shapes
<1> QED BY <1>1, <1>2, <1>3, <1>4, <1>5, <1>6, <1>7, <1>8, <1>9, <1>10, <1>11,
       <1>12, <1>13 DEF Next, AcceptThread, StopClient, ReceiveThread,
       DestroyServer

(* A broadcast stays within the slots it has read; nobody but the owner    *)
(* goes from one stopClient to another.                                    *)
LEMMA ThreadAdvances ==
  ASSUME TypeOK, Shapes, NEW t \in Conns,
         pc[t] \in {"send", "stop", "free"}, AfterStop(t) \/ NextTarget(t)
  PROVE  /\ \A u \in Stoppers \ {t} :
              pc'[u] = pc[u] /\ target'[u] = target[u] /\ last'[u] = last[u]
         /\ pc'[t] \in {"done", "send", "check"}
         /\ pc'[t] = "send" => target'[t] <= last[t]
         /\ last'[t] = last[t] \/ last'[t] = NoBroadcast
<1> USE Names
<1>1. target[t] \in Slots /\ last[t] \in Slots \cup {NoBroadcast} /\ t # Owner
  BY DEF TypeOK, Shapes
<1>2. CASE NextTarget(t) /\ target[t] < last[t]
  <2>1. /\ pc' = [pc EXCEPT ![t] = "send"] /\ last' = last
        /\ target' = [target EXCEPT ![t] = target[t] + 1]
    BY <1>2 DEF NextTarget
  <2>2. target[t] + 1 <= last[t]
    BY <1>1, <1>2 DEF NoBroadcast
  <2> QED BY <2>1, <2>2 DEF Shapes
<1>3. CASE NextTarget(t) /\ ~(target[t] < last[t])
  <2>1. /\ pc' = [pc EXCEPT ![t] = "check"]
        /\ last' = [last EXCEPT ![t] = NoBroadcast]
        /\ target' = [target EXCEPT ![t] = 0]
    BY <1>3 DEF NextTarget
  <2> QED BY <2>1 DEF Shapes
<1>4. CASE ~NextTarget(t)
  <2>1. /\ pc' = [pc EXCEPT ![t] = "done"]
        /\ target' = [target EXCEPT ![t] = 0] /\ last' = last
    BY <1>1, <1>4 DEF AfterStop
  <2> QED BY <2>1 DEF Shapes
<1> QED BY <1>2, <1>3, <1>4

(* From stopServer on the owner is past its request to the accept thread.  *)
LEMMA Asks == IInv /\ SoundInv /\ Next => OwnerAsks'
<1> SUFFICES ASSUME IInv, SoundInv, Next PROVE OwnerAsks'
  OBVIOUS
<1> USE Names DEF IInv, SoundInv, AcceptGoto, OwnerGoto, acceptVars, countVars,
                  slotVars, callVars, worldVars
<1>1. CASE OpenThread
  BY <1>1 DEF OpenThread, OwnerAsks, Shapes, InHand
<1>2. CASE AcceptTop \/ Accept \/ AcceptFails \/ CheckLimit \/ LoadNext \/
           StoreSocket \/ CountClient \/ StoreMax \/ StoreNext \/ JoinOld
  BY <1>2 DEF AcceptTop, Accept, AcceptFails, CheckLimit, LoadNext,
           StoreSocket, CountClient, StoreMax, StoreNext, JoinOld, OwnerAsks
<1>3. ASSUME NEW t \in Stoppers, StopNothing(t)
      PROVE  OwnerAsks'
  BY <1>3, Advances DEF StopNothing, OwnerAsks
<1>4. ASSUME NEW t \in Stoppers, FreeSlot(t)
      PROVE  OwnerAsks'
  BY <1>4, Advances DEF FreeSlot, OwnerAsks
<1>5. ASSUME NEW t \in Stoppers, CloseSocket(t) \/ UncountClient(t)
      PROVE  OwnerAsks'
  BY <1>5 DEF CloseSocket, UncountClient, OwnerAsks, Shapes
<1>6. ASSUME NEW c \in Conns, SendOk(c)
      PROVE  OwnerAsks'
  BY <1>6, Advances DEF SendOk, OwnerAsks
<1>7. ASSUME NEW c \in Conns, CheckSocket(c) \/ CallRecv(c) \/ RecvMore(c) \/
      RecvFrame(c) \/ RecvFails(c) \/ Broadcast(c) \/
      SendBlocks(c) \/ SendFails(c)
      PROVE  OwnerAsks'
  BY <1>7 DEF CheckSocket, CallRecv, RecvMore, RecvFrame, RecvFails,
           Broadcast, SendBlocks, SendFails, OwnerAsks, Shapes
<1>8. CASE Start \/ EndProgram \/ CloseServer
  BY <1>8 DEF Start, EndProgram, CloseServer,
           OwnerAsks, Shapes
<1>9. CASE DestroyMutexes \/ StopThread \/ JoinThread \/ JoinAccept
           \/ UseDestroyed \/ OpenGone
  BY <1>9
  DEF DestroyMutexes, StopThread, JoinThread, JoinAccept, UseDestroyed,
      OpenGone, OwnerAsks, Shapes
<1>10. ASSUME NEW c \in Conns, PeerStalls(c) \/ PeerFails(c)
      PROVE  OwnerAsks'
  BY <1>10 DEF PeerStalls, PeerFails, OwnerAsks
<1> QED BY <1>1, <1>2, <1>3, <1>4, <1>5, <1>6, <1>7, <1>8, <1>9, <1>10 DEF
       Next, AcceptThread, StopClient, ReceiveThread, DestroyServer

(* A socket enters a slot with the accept thread still at work on it, and  *)
(* no thread has been given it before.                                     *)
LEMMA Serving == IInv /\ SoundInv /\ Next => SocketsServed'
<1> SUFFICES ASSUME IInv, SoundInv, Next PROVE SocketsServed'
  OBVIOUS
<1> USE Names DEF IInv, SoundInv, AcceptGoto, OwnerGoto, acceptVars, countVars,
                  slotVars, callVars, worldVars
<1>0. ASSUME clientSockets' = clientSockets, accept' = accept, on' = on,
             \A c \in Conns : pc'[c] = "recv" => pc[c] = "recv"
      PROVE  SocketsServed'
  BY <1>0, Onward DEF SocketsServed, Serves, Pending, Live, TypeOK
<1>1. CASE StoreSocket
  <2>1. \A c \in Conns : pc[c] = "recv" => c # accept.conn
    BY <1>1 DEF StoreSocket, InHand
  <2>2. /\ accept.idx \in Slots /\ accept.conn \in Conns
        /\ clientSockets' = [clientSockets EXCEPT ![accept.idx] = accept.conn]
        /\ accept.pc = "store" /\ accept'.pc = "count"
        /\ accept'.idx = accept.idx /\ accept'.conn = accept.conn
        /\ UNCHANGED <<pc, slotOf, on>>
    BY <1>1 DEF StoreSocket, InHand, Shapes
  <2>3. \A i \in Slots : Live(i)' =>
          \/ Serves(clientSockets[i], i)'
          \/ Pending(i)' /\ accept'.conn = clientSockets'[i]
    <3> SUFFICES ASSUME NEW i \in Slots, Live(i)'
                 PROVE  \/ Serves(clientSockets[i], i)'
                        \/ Pending(i)' /\ accept'.conn = clientSockets'[i]
      OBVIOUS
    <3>1. CASE i = accept.idx
      BY <3>1, <2>2 DEF Pending, TypeOK
    <3>2. CASE i # accept.idx
      <4>1. clientSockets'[i] = clientSockets[i] /\ Live(i)
        BY <3>2, <2>2 DEF Live, TypeOK
      <4>2. Serves(clientSockets[i], i)
        BY <4>1, <2>2, <3>2 DEF SocketsServed, Pending
      <4> QED BY <4>1, <4>2, <2>2 DEF Serves
    <3> QED BY <3>1, <3>2
  <2>4. \A c \in Conns : pc[c] = "recv" /\ clientSockets'[slotOf[c]] = c =>
          clientSockets[slotOf[c]] = c
    BY <2>1, <2>2 DEF TypeOK
  <2> QED BY <2>2, <2>3, <2>4 DEF SocketsServed
<1>2. CASE CountClient \/ StoreMax \/ StoreNext
  <2>1. /\ accept'.pc \in {"max", "next", "open"} /\ accept'.idx = accept.idx
        /\ accept'.conn = accept.conn
        /\ UNCHANGED <<clientSockets, pc, slotOf, on>>
    BY <1>2 DEF CountClient, StoreMax, StoreNext, Shapes
  <2> QED BY <2>1 DEF SocketsServed, Serves, Pending, Live
<1>3. CASE OpenThread
  <2>1. /\ accept.conn \in Conns /\ pc[accept.conn] = "none"
        /\ accept.idx \in Slots
    BY <1>3 DEF OpenThread, InHand
  <2>2. pc' = [pc EXCEPT ![accept.conn] = "check"]
        /\ slotOf' = [slotOf EXCEPT ![accept.conn] = accept.idx]
        /\ clientSockets' = clientSockets /\ on' = on
    BY <1>3 DEF OpenThread
  <2>3. \A i \in Slots : Live(i)' => Serves(clientSockets[i], i)'
    <3> SUFFICES ASSUME NEW i \in Slots, Live(i)'
                 PROVE  Serves(clientSockets[i], i)'
      OBVIOUS
    <3>1. Live(i) /\ clientSockets[i] \in Conns
      BY <2>2 DEF Live, TypeOK
    <3>2. CASE Serves(clientSockets[i], i)
      BY <3>1, <3>2, <2>2, Onward DEF Serves
    <3>3. CASE Pending(i) /\ accept.conn = clientSockets[i]
      BY <3>1, <3>3, <2>2 DEF Serves, Pending, Shapes, TypeOK
    <3> QED BY <3>1, <3>2, <3>3 DEF SocketsServed
  <2>4. \A c \in Conns : pc'[c] = "recv" =>
          pc[c] = "recv" /\ slotOf'[c] = slotOf[c]
    BY <2>1, <2>2 DEF Shapes, TypeOK
  <2> QED BY <2>2, <2>3, <2>4 DEF SocketsServed, Live
<1>4. CASE AcceptTop \/ Accept \/ AcceptFails \/ CheckLimit \/ LoadNext \/
           JoinOld
  BY <1>4 DEF AcceptTop, Accept, AcceptFails, CheckLimit, LoadNext, JoinOld,
          SocketsServed, Serves, Pending, Live, Shapes
<1>5. ASSUME NEW t \in Stoppers, StopNothing(t)
      PROVE  SocketsServed'
  BY <1>5, <1>0, Advances DEF StopNothing
<1>6. ASSUME NEW t \in Stoppers, FreeSlot(t)
      PROVE  SocketsServed'
  BY <1>6, <1>0, Advances DEF FreeSlot
<1>7. ASSUME NEW t \in Stoppers, CloseSocket(t)
      PROVE  SocketsServed'
  <2>1. /\ clientSockets' = [clientSockets EXCEPT ![target[t]] = Invalid]
        /\ pc' = [pc EXCEPT ![t] = "uncount"]
        /\ UNCHANGED <<slotOf, accept, on>>
    BY <1>7 DEF CloseSocket
  <2>2. \A i \in Slots : Live(i)' =>
          clientSockets'[i] = clientSockets[i] /\ clientSockets[i] \in Conns
    BY <2>1 DEF Live, TypeOK
  <2>3. \A c \in Conns : clientSockets'[slotOf[c]] = c =>
          clientSockets[slotOf[c]] = c
    BY <2>1 DEF TypeOK
  <2>4. \A c \in Conns : pc'[c] = "recv" => pc[c] = "recv"
    BY <2>1 DEF Shapes
  <2>5. \A i \in Slots : Live(i)' => Live(i)
    BY <2>2 DEF Live
  <2>6. \A i \in Slots : Live(i)' =>
          (Serves(clientSockets[i], i) => Serves(clientSockets[i], i)')
    BY <2>1, <2>2, Onward DEF Serves
  <2> QED BY <2>1, <2>2, <2>3, <2>4, <2>5, <2>6 DEF SocketsServed, Pending
<1>8. ASSUME NEW t \in Stoppers, UncountClient(t)
      PROVE  SocketsServed'
  BY <1>8, <1>0 DEF UncountClient, Shapes
<1>9. ASSUME NEW c \in Conns, SendOk(c)
      PROVE  SocketsServed'
  BY <1>9, <1>0, Advances DEF SendOk
<1>10. ASSUME NEW c \in Conns, CallRecv(c)
      PROVE  SocketsServed'
  <2>1. pc' = [pc EXCEPT ![c] = "recv"] /\ pc[c] = "call"
        /\ on' = [on EXCEPT ![c] = clientSockets[slotOf[c]]]
        /\ UNCHANGED <<clientSockets, slotOf, accept>>
    BY <1>10 DEF CallRecv
  <2>2. \A i \in Slots : Live(i)' =>
          Live(i) /\ clientSockets'[i] = clientSockets[i]
    BY <2>1 DEF Live
  <2>3. \A i \in Slots : Live(i) => clientSockets[i] \in Conns
    BY DEF Live, TypeOK
  <2>4. \A i \in Slots, d \in Conns : Serves(d, i) => Serves(d, i)'
    BY Onward DEF Serves
  <2>on. on = [d \in Conns |-> on[d]]
    BY DEF SocketsServed
  <2>6. on' = [d \in Conns |-> on'[d]]
    BY <2>1, <2>on
  <2>5. \A d \in Conns : pc'[d] = "recv" /\ clientSockets'[slotOf'[d]] = d =>
          on'[d] = d
    <3>1. \A d \in Conns : pc[d] = "recv" /\ clientSockets[slotOf[d]] = d =>
            on[d] = d
      BY DEF SocketsServed
    <3> QED BY <2>1, <2>on, <3>1 DEF Shapes
  <2> QED BY <2>1, <2>2, <2>3, <2>4, <2>5, <2>6 DEF SocketsServed, Serves,
          Pending
<1>11. ASSUME NEW c \in Conns, RecvMore(c) \/ RecvFrame(c) \/ RecvFails(c)
      PROVE  SocketsServed'
  <2>1. /\ \E to \in {"call", "handle", "stop"} : pc' = [pc EXCEPT ![c] = to]
        /\ on' = [on EXCEPT ![c] = Invalid]
        /\ UNCHANGED <<clientSockets, slotOf, accept>>
    BY <1>11 DEF RecvMore, RecvFrame, RecvFails, RecvReturns
  <2>2. \A i \in Slots : Live(i)' =>
          Live(i) /\ clientSockets'[i] = clientSockets[i]
    BY <2>1 DEF Live
  <2>3. \A i \in Slots : Live(i) => clientSockets[i] \in Conns
    BY DEF Live, TypeOK
  <2>4. \A i \in Slots, d \in Conns : Serves(d, i) => Serves(d, i)'
    BY Onward DEF Serves
  <2>on. on = [d \in Conns |-> on[d]]
    BY DEF SocketsServed
  <2>6. on' = [d \in Conns |-> on'[d]]
    BY <2>1, <2>on
  <2>5. \A d \in Conns : pc'[d] = "recv" =>
          d # c /\ pc[d] = "recv" /\ on'[d] = on[d]
    BY <2>1, <2>on DEF Shapes
  <2> QED BY <2>1, <2>2, <2>3, <2>4, <2>5, <2>6 DEF SocketsServed, Serves,
          Pending
<1>12. ASSUME NEW c \in Conns,
              CheckSocket(c) \/ Broadcast(c) \/ SendBlocks(c) \/ SendFails(c)
      PROVE  SocketsServed'
  BY <1>12, <1>0 DEF CheckSocket, Broadcast, SendBlocks, SendFails, Shapes
<1>13. CASE Start
  <2>1. /\ accept.pc = "none" /\ accept' = [accept EXCEPT !.pc = "top"]
        /\ pc' = [pc EXCEPT ![Owner] = "idle"]
        /\ UNCHANGED <<clientSockets, slotOf, on>>
    BY <1>13 DEF Start, InHand
  <2>2. \A i \in Slots : Live(i)' => Live(i) /\ ~Pending(i)
    BY <2>1 DEF Live, Pending
  <2>3. \A c \in Conns : pc'[c] = pc[c]
    BY <2>1 DEF Shapes
  <2> QED BY <2>1, <2>2, <2>3 DEF SocketsServed, Serves, Live, TypeOK
<1>14. CASE EndProgram \/ CloseServer \/
            DestroyMutexes
  BY <1>14, <1>0 DEF EndProgram, CloseServer,
          DestroyMutexes, Shapes
<1>15. CASE StopThread \/ JoinThread \/ JoinAccept \/ UseDestroyed \/ OpenGone
  BY <1>15, <1>0
  DEF StopThread, JoinThread, JoinAccept, UseDestroyed, OpenGone, Shapes
<1>16. ASSUME NEW c \in Conns, PeerStalls(c) \/ PeerFails(c)
      PROVE  SocketsServed'
  BY <1>16, <1>0 DEF PeerStalls, PeerFails
<1> QED BY <1>1, <1>2, <1>3, <1>4, <1>5, <1>6, <1>7, <1>8, <1>9, <1>10, <1>11,
       <1>12, <1>13, <1>14, <1>15, <1>16 DEF Next, AcceptThread, StopClient,
       ReceiveThread, DestroyServer

(* Only the accept thread goes above m_maxClientIdx, by one, and only the  *)
(* owner stops a client there.                                             *)
LEMMA Below == IInv /\ SoundInv /\ Next => BelowMax'
<1> SUFFICES ASSUME IInv, SoundInv, Next, ~acceptStop' PROVE BelowMax'
  BY DEF BelowMax
<1> USE Names DEF IInv, SoundInv, AcceptGoto, OwnerGoto, acceptVars, countVars,
                  slotVars, callVars, worldVars
<1>a. ~acceptStop /\ BelowMax
  BY Onward
<1>b. /\ maxClientIdx \in Int /\ nextClientIdx \in Int
      /\ \A c \in Conns :
           slotOf[c] \in Int /\ target[c] \in Int /\ last[c] \in Int
      /\ maxClientIdx >= 0
  BY DEF TypeOK, Shapes
<1>c. \A c \in Conns : target'[c] \in Int /\ last'[c] \in Int
  BY Shaping DEF Shapes
<1>0. ASSUME UNCHANGED <<maxClientIdx, nextClientIdx, accept, slotOf>>,
             \A c \in Conns :
               /\ pc'[c] # "none" => pc[c] # "none"
               /\ last'[c] = last[c] \/ last'[c] <= maxClientIdx
               /\ pc'[c] \in {"send", "sending", "stop", "uncount", "free"} =>
                    \/ target'[c] = slotOf[c]
                    \/ target'[c] <= last[c] \/ target'[c] = 0
                    \/ /\ target'[c] = target[c]
                       /\ pc[c] \in {"send", "sending", "stop", "uncount", "free"}
      PROVE  BelowMax'
  <2>1. ASSUME NEW c \in Conns
        PROVE  /\ pc'[c] # "none" => slotOf'[c] <= maxClientIdx'
               /\ pc'[c] \in {"send", "sending", "stop", "uncount", "free"} =>
                    target'[c] <= maxClientIdx'
               /\ last'[c] <= maxClientIdx'
    <3>1. /\ pc[c] # "none" => slotOf[c] <= maxClientIdx
          /\ pc[c] \in {"send", "sending", "stop", "uncount", "free"} =>
               target[c] <= maxClientIdx
          /\ last[c] <= maxClientIdx
      BY <1>a DEF BelowMax
    <3>2. slotOf[c] \in Int /\ target[c] \in Int /\ last[c] \in Int
      BY <1>b
    <3>3. target'[c] \in Int /\ last'[c] \in Int
      BY <1>c
    <3>4. pc'[c] # "none" => slotOf'[c] <= maxClientIdx'
      BY <3>1, <1>0
    <3>5. last'[c] <= maxClientIdx'
      BY <3>1, <1>0
    <3>6. pc'[c] \in {"send", "sending", "stop", "uncount", "free"} =>
            target'[c] <= maxClientIdx'
      BY <3>1, <3>2, <3>3, <1>b, <1>0
    <3> QED BY <3>4, <3>5, <3>6
  <2>2. /\ nextClientIdx' <= maxClientIdx' + 1
        /\ accept'.pc \in {"store", "count", "max"} =>
             accept'.idx <= maxClientIdx' + 1
        /\ accept'.pc \in {"next", "open"} => accept'.idx <= maxClientIdx'
    BY <1>a, <1>0 DEF BelowMax
  <2> QED BY <2>1, <2>2 DEF BelowMax
<1>1. CASE AcceptTop \/ Accept \/ AcceptFails \/ CheckLimit
  BY <1>1, <1>a DEF AcceptTop, Accept, AcceptFails, CheckLimit, BelowMax,
          Shapes
<1>2. CASE LoadNext \/ StoreSocket \/ CountClient
  BY <1>2, <1>a DEF LoadNext, StoreSocket, CountClient, BelowMax, Shapes
<1>3. CASE StoreMax
  <2>1. /\ maxClientIdx' = Larger(maxClientIdx, accept.idx)
        /\ accept.pc = "max" /\ accept' = [accept EXCEPT !.pc = "next"]
        /\ UNCHANGED <<nextClientIdx, slotOf, target, last, pc>>
    BY <1>3 DEF StoreMax
  <2>2. accept.idx \in Int
    BY <2>1 DEF InHand
  <2>3. /\ maxClientIdx' \in Int /\ maxClientIdx <= maxClientIdx'
        /\ accept.idx <= maxClientIdx'
    BY <2>1, <2>2, <1>b DEF Larger
  <2>4. accept'.pc = "next" /\ accept'.idx = accept.idx
    BY <2>1 DEF Shapes
  <2>5. nextClientIdx' <= maxClientIdx' + 1
    BY <2>1, <2>3, <1>a, <1>b DEF BelowMax
  <2>6. ASSUME NEW c \in Conns
        PROVE  /\ pc'[c] # "none" => slotOf'[c] <= maxClientIdx'
               /\ pc'[c] \in {"send", "sending", "stop", "uncount", "free"} =>
                    target'[c] <= maxClientIdx'
               /\ last'[c] <= maxClientIdx'
    <3>1. /\ pc[c] # "none" => slotOf[c] <= maxClientIdx
          /\ pc[c] \in {"send", "sending", "stop", "uncount", "free"} =>
               target[c] <= maxClientIdx
          /\ last[c] <= maxClientIdx
      BY <1>a DEF BelowMax
    <3>2. slotOf[c] \in Int /\ target[c] \in Int /\ last[c] \in Int
      BY <1>b
    <3> QED BY <3>1, <3>2, <2>1, <2>3, <1>b
  <2> QED BY <2>3, <2>4, <2>5, <2>6 DEF BelowMax
<1>4. CASE StoreNext
  BY <1>4, <1>a, <1>b DEF StoreNext, BelowMax, Shapes
<1>5. CASE OpenThread
  <2>1. /\ accept.pc = "open" /\ accept' = [accept EXCEPT !.pc = "join"]
        /\ pc' = [pc EXCEPT ![accept.conn] = "check"]
        /\ slotOf' = [slotOf EXCEPT ![accept.conn] = accept.idx]
        /\ UNCHANGED <<maxClientIdx, nextClientIdx, target, last>>
    BY <1>5 DEF OpenThread
  <2>2. accept.idx <= maxClientIdx
    BY <2>1, <1>a DEF BelowMax
  <2> QED BY <2>1, <2>2, <1>a DEF BelowMax, Shapes, TypeOK
<1>6. CASE JoinOld
  BY <1>6, <1>a DEF JoinOld, BelowMax, Shapes
<1>7. ASSUME NEW t \in Stoppers, StopNothing(t)
      PROVE  BelowMax'
  <2>1. t \in Conns /\ pc[t] = "stop" /\ AfterStop(t)
    BY <1>7, <1>a DEF StopNothing, OwnerAsks
  <2>2. /\ \A d \in Conns \ {t} :
             pc'[d] = pc[d] /\ target'[d] = target[d] /\ last'[d] = last[d]
        /\ pc'[t] \in {"done", "send", "check"}
        /\ pc'[t] = "send" => target'[t] <= last[t]
        /\ last'[t] = last[t] \/ last'[t] = NoBroadcast
    BY <2>1, ThreadAdvances
  <2>3. UNCHANGED <<maxClientIdx, nextClientIdx, accept, slotOf>>
    BY <1>7 DEF StopNothing
  <2>4. NoBroadcast <= maxClientIdx
    BY <1>b DEF NoBroadcast
  <2> QED BY <2>1, <2>2, <2>3, <2>4, <1>0
<1>8. ASSUME NEW t \in Stoppers, FreeSlot(t)
      PROVE  BelowMax'
  <2>1. t \in Conns /\ pc[t] = "free" /\ AfterStop(t)
    BY <1>8, <1>a DEF FreeSlot, OwnerAsks
  <2>2. /\ nextClientIdx' = target[t] /\ target[t] <= maxClientIdx
        /\ target[t] \in Int
    BY <1>8, <2>1, <1>a, <1>b DEF FreeSlot, BelowMax
  <2>3. UNCHANGED <<maxClientIdx, accept, slotOf>>
    BY <1>8 DEF FreeSlot
  <2>4. ASSUME NEW c \in Conns
        PROVE  /\ pc'[c] # "none" => slotOf'[c] <= maxClientIdx'
               /\ pc'[c] \in {"send", "sending", "stop", "uncount", "free"} =>
                    target'[c] <= maxClientIdx'
               /\ last'[c] <= maxClientIdx'
    <3>1. /\ pc[c] # "none" => slotOf[c] <= maxClientIdx
          /\ pc[c] \in {"send", "sending", "stop", "uncount", "free"} =>
               target[c] <= maxClientIdx
          /\ last[c] <= maxClientIdx
      BY <1>a DEF BelowMax
    <3>2. CASE c # t
      <4>1. pc'[c] = pc[c] /\ target'[c] = target[c] /\ last'[c] = last[c]
        BY <3>2, <2>1, ThreadAdvances
      <4> QED BY <3>1, <4>1, <2>3
    <3>3. CASE c = t
      <4>1. /\ pc'[c] \in {"done", "send", "check"}
            /\ pc'[c] = "send" => target'[c] <= last[c]
            /\ last'[c] = last[c] \/ last'[c] = NoBroadcast
        BY <3>3, <2>1, ThreadAdvances
      <4>2. target'[c] \in Int /\ last[c] \in Int
        BY <1>b, <1>c
      <4>3. last'[c] <= maxClientIdx'
        BY <3>1, <4>1, <2>3, <1>b DEF NoBroadcast
      <4>4. pc'[c] \in {"send", "sending", "stop", "uncount", "free"} =>
              target'[c] <= maxClientIdx'
        BY <3>1, <4>1, <4>2, <2>3, <1>b
      <4>5. slotOf'[c] <= maxClientIdx'
        BY <3>1, <3>3, <2>1, <2>3
      <4> QED BY <4>3, <4>4, <4>5
    <3> QED BY <3>2, <3>3
  <2>5. nextClientIdx' <= maxClientIdx' + 1
    BY <2>2, <2>3, <1>b
  <2>6. /\ accept'.pc \in {"store", "count", "max"} =>
             accept'.idx <= maxClientIdx' + 1
        /\ accept'.pc \in {"next", "open"} => accept'.idx <= maxClientIdx'
    BY <2>3, <1>a DEF BelowMax
  <2> QED BY <2>4, <2>5, <2>6 DEF BelowMax
<1>9. ASSUME NEW t \in Stoppers, CloseSocket(t) \/ UncountClient(t)
      PROVE  BelowMax'
  BY <1>9, <1>0, <1>a DEF CloseSocket, UncountClient, OwnerAsks, Shapes
<1>10. ASSUME NEW c \in Conns, SendOk(c)
      PROVE  BelowMax'
  <2>1. /\ pc[c] = "send" /\ NextTarget(c)
        /\ UNCHANGED <<maxClientIdx, nextClientIdx, accept, slotOf>>
    BY <1>10 DEF SendOk
  <2>2. /\ \A d \in Conns \ {c} :
             pc'[d] = pc[d] /\ target'[d] = target[d] /\ last'[d] = last[d]
        /\ pc'[c] \in {"done", "send", "check"}
        /\ pc'[c] = "send" => target'[c] <= last[c]
        /\ last'[c] = last[c] \/ last'[c] = NoBroadcast
    BY <2>1, ThreadAdvances
  <2>3. NoBroadcast <= maxClientIdx
    BY <1>b DEF NoBroadcast
  <2> QED BY <2>1, <2>2, <2>3, <1>0
<1>11. ASSUME NEW c \in Conns, RecvFails(c) \/ Broadcast(c)
      PROVE  BelowMax'
  <2>1. /\ \E to \in {"stop", "send"} : pc' = [pc EXCEPT ![c] = to]
        /\ pc[c] # "none"
        /\ UNCHANGED <<maxClientIdx, nextClientIdx, accept, slotOf>>
    BY <1>11 DEF RecvFails, Broadcast
  <2>2. /\ \A d \in Conns \ {c} : target'[d] = target[d] /\ last'[d] = last[d]
        /\ target'[c] = slotOf[c] \/ target'[c] = 0
        /\ last'[c] = last[c] \/ last'[c] = maxClientIdx
    BY <1>11 DEF RecvFails, Broadcast, Shapes
  <2>3. maxClientIdx <= maxClientIdx
    BY <1>b
  <2> QED BY <2>1, <2>2, <2>3, <1>0 DEF Shapes
<1>12. ASSUME NEW c \in Conns, CheckSocket(c) \/ CallRecv(c) \/ RecvMore(c) \/
      RecvFrame(c) \/ SendBlocks(c) \/ SendFails(c)
      PROVE  BelowMax'
  BY <1>12, <1>0
  DEF CheckSocket, CallRecv, RecvMore, RecvFrame, SendBlocks, SendFails,
          Shapes
<1>13. CASE Start
  BY <1>13, <1>a DEF Start, BelowMax, Shapes
<1>14. CASE EndProgram \/ CloseServer \/
            DestroyMutexes
  BY <1>14, <1>0 DEF EndProgram, CloseServer,
          DestroyMutexes, Shapes
<1>15. CASE StopThread \/ JoinThread \/ JoinAccept \/ UseDestroyed \/ OpenGone
  BY <1>15, <1>0
  DEF StopThread, JoinThread, JoinAccept, UseDestroyed, OpenGone, Shapes
<1>16. ASSUME NEW c \in Conns, PeerStalls(c) \/ PeerFails(c)
      PROVE  BelowMax'
  BY <1>16, <1>0 DEF PeerStalls, PeerFails
<1> QED BY <1>1, <1>2, <1>3, <1>4, <1>5, <1>6, <1>7, <1>8, <1>9, <1>10, <1>11,
       <1>12, <1>13, <1>14, <1>15, <1>16 DEF Next, AcceptThread, StopClient,
       ReceiveThread, DestroyServer

(* A slot is used for the first time by the accept thread, which goes one  *)
(* above m_maxClientIdx and begins with the first slot.                    *)
LEMMA Used == IInv /\ SoundInv /\ Next => SlotsUsed'
<1> SUFFICES ASSUME IInv, SoundInv, Next, ~acceptStop' PROVE SlotsUsed'
  BY DEF SlotsUsed
<1> USE Names DEF IInv, SoundInv, AcceptGoto, OwnerGoto, acceptVars, countVars,
                  slotVars, callVars, worldVars
<1>a. ~acceptStop /\ SlotsUsed
  BY Onward
<1>b. \A i \in Slots, d \in Conns : Serves(d, i) => Serves(d, i)'
  BY Onward DEF Serves
<1>c. Fresh' => Fresh
  BY Onward DEF Fresh
<1>0. ASSUME UNCHANGED <<maxClientIdx, nextClientIdx, accept>>,
             \A c \in Conns : pc[c] = "none" => pc'[c] = "none"
      PROVE  SlotsUsed'
  BY <1>a, <1>b, <1>c, <1>0 DEF SlotsUsed, Pending, Fresh
<1>1. CASE AcceptTop \/ Accept \/ AcceptFails \/ CheckLimit
  <2>1. UNCHANGED <<maxClientIdx, nextClientIdx, pc, slotOf>>
    BY <1>1 DEF AcceptTop, Accept, AcceptFails, CheckLimit
  <2>2. accept.pc \in {"top", "accept", "limit"}
        /\ accept'.pc \in {"top", "accept", "limit", "load", "ended"}
    BY <1>1 DEF AcceptTop, Accept, AcceptFails, CheckLimit, Shapes
  <2> QED BY <2>1, <2>2, <1>a DEF SlotsUsed, Pending, Fresh, Serves
<1>2. CASE LoadNext
  <2>1. UNCHANGED <<maxClientIdx, nextClientIdx, pc, slotOf>>
    BY <1>2 DEF LoadNext
  <2>2. /\ accept.pc = "load" /\ accept'.pc \in {"store", "undefined"}
        /\ accept'.idx = nextClientIdx
    BY <1>2 DEF LoadNext, Shapes
  <2> QED BY <2>1, <2>2, <1>a DEF SlotsUsed, Pending, Fresh, Serves
<1>3. CASE StoreSocket \/ CountClient
  <2>1. UNCHANGED <<maxClientIdx, nextClientIdx, pc, slotOf>>
    BY <1>3 DEF StoreSocket, CountClient
  <2>2. /\ accept.pc \in {"store", "count"} /\ accept'.pc \in {"count", "max"}
        /\ accept'.idx = accept.idx
    BY <1>3 DEF StoreSocket, CountClient, Shapes
  <2> QED BY <2>1, <2>2, <1>a DEF SlotsUsed, Pending, Fresh, Serves
<1>4. CASE StoreMax
  <2>1. /\ maxClientIdx' = Larger(maxClientIdx, accept.idx)
        /\ UNCHANGED <<nextClientIdx, pc, slotOf>>
    BY <1>4 DEF StoreMax
  <2>2. accept.pc = "max" /\ accept'.pc = "next" /\ accept'.idx = accept.idx
    BY <1>4 DEF StoreMax, Shapes
  <2>3. /\ accept.idx <= maxClientIdx + 1
        /\ accept.idx \in Int /\ maxClientIdx \in Int
    BY <2>2, <1>a DEF BelowMax, InHand, TypeOK
  <2>4. \A i \in Slots : i <= maxClientIdx' =>
          i <= maxClientIdx \/ i = accept.idx
    BY <2>1, <2>3 DEF Larger
  <2>5. \A i \in Slots : i = accept.idx => Pending(i)'
    BY <2>2 DEF Pending
  <2>6. Fresh' <=> Fresh
    BY <2>1 DEF Fresh
  <2>7. \A i \in Slots : Pending(i) => Pending(i)'
    BY <2>2 DEF Pending
  <2> QED BY <2>1, <2>2, <2>4, <2>5, <2>6, <2>7, <1>a, <1>b DEF SlotsUsed
<1>5. CASE StoreNext
  <2>1. UNCHANGED <<maxClientIdx, pc, slotOf>>
    BY <1>5 DEF StoreNext
  <2>2. accept.pc = "next" /\ accept'.pc = "open" /\ accept'.idx = accept.idx
    BY <1>5 DEF StoreNext, Shapes
  <2> QED BY <2>1, <2>2, <1>a DEF SlotsUsed, Pending, Fresh, Serves
<1>6. CASE OpenThread
  <2>1. /\ accept.pc = "open" /\ accept'.pc = "join" /\ accept.conn \in Conns
        /\ pc' = [pc EXCEPT ![accept.conn] = "check"]
        /\ slotOf' = [slotOf EXCEPT ![accept.conn] = accept.idx]
        /\ UNCHANGED maxClientIdx
    BY <1>6 DEF OpenThread, Shapes, InHand
  <2>2. pc'[accept.conn] # "none" /\ slotOf'[accept.conn] = accept.idx
    BY <2>1 DEF Shapes, TypeOK
  <2>3. ~Fresh'
    BY <2>1 DEF Fresh, Shapes
  <2>4. Fresh => accept.idx = 0
    BY <2>1, <1>a DEF SlotsUsed
  <2>5. ASSUME NEW i \in Slots, i <= maxClientIdx
        PROVE  \E d \in Conns : Serves(d, i)'
    <3>1. CASE i = accept.idx
      <4>1. PICK d \in Conns : d = accept.conn
        BY <2>1
      <4>2. Serves(d, i)'
        BY <3>1, <4>1, <2>2 DEF Serves
      <4> QED BY <4>2
    <3>2. CASE i # accept.idx
      <4>1. \E d \in Conns : Serves(d, i)
        BY <3>2, <2>4, <2>5, <1>a DEF SlotsUsed, Pending
      <4> QED BY <4>1, <1>b
    <3> QED BY <3>1, <3>2
  <2> QED BY <2>1, <2>3, <2>5 DEF SlotsUsed
<1>7. CASE JoinOld
  <2>1. UNCHANGED <<maxClientIdx, nextClientIdx, pc, slotOf>>
    BY <1>7 DEF JoinOld
  <2>2. accept.pc = "join" /\ accept'.pc = "top"
    BY <1>7 DEF JoinOld, Shapes
  <2> QED BY <2>1, <2>2, <1>a DEF SlotsUsed, Pending, Fresh, Serves
<1>8. ASSUME NEW t \in Stoppers, StopNothing(t)
      PROVE  SlotsUsed'
  BY <1>8, <1>0, Advances DEF StopNothing
<1>9. ASSUME NEW t \in Stoppers, FreeSlot(t)
      PROVE  SlotsUsed'
  <2>1. t \in Conns /\ pc[t] = "free" /\ AfterStop(t)
    BY <1>9, <1>a DEF FreeSlot, OwnerAsks
  <2>2. ~Fresh
    BY <2>1 DEF Fresh
  <2>3. ~Fresh'
    BY <2>2, <1>c
  <2>4. UNCHANGED <<maxClientIdx, accept>>
    BY <1>9 DEF FreeSlot
  <2> QED BY <2>2, <2>3, <2>4, <1>a, <1>b DEF SlotsUsed, Pending
<1>10. ASSUME NEW t \in Stoppers, CloseSocket(t) \/ UncountClient(t)
      PROVE  SlotsUsed'
  BY <1>10, <1>0 DEF CloseSocket, UncountClient, Shapes
<1>11. ASSUME NEW c \in Conns, SendOk(c)
      PROVE  SlotsUsed'
  BY <1>11, <1>0, Advances DEF SendOk
<1>12. ASSUME NEW c \in Conns, CheckSocket(c) \/ CallRecv(c) \/ RecvMore(c) \/
      RecvFrame(c)
      PROVE  SlotsUsed'
  BY <1>12, <1>0 DEF CheckSocket, CallRecv, RecvMore, RecvFrame, Shapes
<1>13. ASSUME NEW c \in Conns,
              RecvFails(c) \/ Broadcast(c) \/ SendBlocks(c) \/ SendFails(c)
      PROVE  SlotsUsed'
  BY <1>13, <1>0 DEF RecvFails, Broadcast, SendBlocks, SendFails, Shapes
<1>14. CASE Start
  <2>1. UNCHANGED <<maxClientIdx, nextClientIdx, slotOf>>
        /\ \A c \in Conns : pc'[c] = pc[c]
    BY <1>14 DEF Start, Shapes
  <2>2. accept.pc = "none" /\ accept'.pc = "top"
    BY <1>14 DEF Start, Shapes, InHand
  <2> QED BY <2>1, <2>2, <1>a DEF SlotsUsed, Pending, Fresh, Serves
<1>15. CASE EndProgram \/ CloseServer \/
            DestroyMutexes
  BY <1>15, <1>0 DEF EndProgram, CloseServer,
          DestroyMutexes, Shapes
<1>16. CASE StopThread \/ JoinThread \/ JoinAccept \/ UseDestroyed \/ OpenGone
  BY <1>16, <1>0
  DEF StopThread, JoinThread, JoinAccept, UseDestroyed, OpenGone, Shapes
<1>17. ASSUME NEW c \in Conns, PeerStalls(c) \/ PeerFails(c)
      PROVE  SlotsUsed'
  BY <1>17, <1>0 DEF PeerStalls, PeerFails
<1> QED BY <1>1, <1>2, <1>3, <1>4, <1>5, <1>6, <1>7, <1>8, <1>9, <1>10, <1>11,
       <1>12, <1>13, <1>14, <1>15, <1>16, <1>17 DEF Next, AcceptThread,
       StopClient, ReceiveThread, DestroyServer

(* A thread that is about to stop a slot's client keeps its reason: the    *)
(* client is broken, or when it is replaced the slot has had another.      *)
LEMMA Justified == IInv /\ SoundInv /\ Next => StopsJustified'
<1> SUFFICES ASSUME IInv, SoundInv, Next, ~acceptStop' PROVE StopsJustified'
  BY DEF StopsJustified
<1> USE Names DEF IInv, SoundInv, AcceptGoto, OwnerGoto, acceptVars, countVars,
                  slotVars, callVars, worldVars
<1> DEFINE Reason(i) == \/ HadOther(i)
                        \/ Live(i) /\ peer[clientSockets[i]] \notin {"up", "full"}
                        \/ ~Live(i) /\ Pending(i)
<1>a. ~acceptStop /\ \A t \in Conns : pc[t] = "stop" => Reason(target[t])
  BY Onward DEF StopsJustified
<1>b. \A i \in Slots, d \in Conns : Serves(d, i) => Serves(d, i)'
  BY Onward DEF Serves
<1>c. \A i \in Slots : Live(i) =>
        clientSockets[i] \in Conns /\ peer[clientSockets[i]] # "none"
  <2> SUFFICES ASSUME NEW i \in Slots, Live(i)
               PROVE  clientSockets[i] \in Conns
                        /\ peer[clientSockets[i]] # "none"
    OBVIOUS
  <2>1. clientSockets[i] \in Conns
    BY DEF Live, TypeOK
  <2>2. CASE Serves(clientSockets[i], i)
    BY <2>1, <2>2 DEF Serves, TypeOK
  <2>3. CASE Pending(i) /\ accept.conn = clientSockets[i]
    BY <2>1, <2>3 DEF Pending, InHand
  <2> QED BY <2>1, <2>2, <2>3 DEF SocketsServed
<1>d. \A t \in Conns : pc[t] = "stop" => target[t] \in Slots
  BY DEF TypeOK
<1>e. ASSUME NEW i \in Slots, clientSockets'[i] = clientSockets[i], Reason(i),
             Pending(i) => Pending(i)' \/ (\E d \in Conns : Serves(d, i)')
      PROVE  Reason(i)'
  <2>1. CASE HadOther(i)
    <3>1. PICK d \in Conns : d # clientSockets[i] /\ Serves(d, i)
      BY <2>1 DEF HadOther
    <3> QED BY <3>1, <1>b, <1>e DEF HadOther
  <2>2. CASE Live(i) /\ peer[clientSockets[i]] \notin {"up", "full"}
    <3>1. peer'[clientSockets[i]] \notin {"up", "full"}
      BY <2>2, <1>c, Onward
    <3> QED BY <3>1, <2>2, <1>e DEF Live
  <2>3. CASE ~Live(i) /\ Pending(i)
    <3>1. clientSockets'[i] \notin Conns /\ ~Live(i)'
      BY <2>3, <1>e DEF Live
    <3> QED BY <3>1, <2>3, <1>e DEF HadOther
  <2> QED BY <2>1, <2>2, <2>3, <1>e
<1>f. ASSUME \A t \in Conns : pc'[t] = "stop" =>
               \E i \in Slots : i = target'[t] /\ Reason(i)'
      PROVE  StopsJustified'
  BY <1>f DEF StopsJustified, HadOther, Serves, Live, Pending
<1>0. ASSUME clientSockets' = clientSockets,
             \A i \in Slots : Pending(i) =>
               Pending(i)' \/ (\E d \in Conns : Serves(d, i)'),
             \A t \in Conns : pc'[t] = "stop" =>
               pc[t] = "stop" /\ target'[t] = target[t]
      PROVE  StopsJustified'
  <2>1. ASSUME NEW t \in Conns, pc'[t] = "stop"
        PROVE  \E i \in Slots : i = target'[t] /\ Reason(i)'
    <3>1. pc[t] = "stop" /\ target'[t] = target[t] /\ target[t] \in Slots
      BY <2>1, <1>0, <1>d
    <3>2. PICK i \in Slots : i = target[t]
      BY <3>1
    <3>3. Reason(i)
      BY <3>1, <3>2, <1>a
    <3>4. Reason(i)'
      BY <3>3, <1>0, <1>e
    <3> QED BY <3>1, <3>2, <3>4
  <2> QED BY <2>1, <1>f
<1>1. CASE StoreSocket
  <2>1. /\ accept.pc = "store" /\ accept'.pc = "count"
        /\ accept.idx \in Slots /\ accept.conn \in Conns
        /\ accept'.idx = accept.idx
        /\ clientSockets' = [clientSockets EXCEPT ![accept.idx] = accept.conn]
        /\ UNCHANGED <<pc, target, slotOf, peer>>
    BY <1>1 DEF StoreSocket, InHand, Shapes
  <2>2. ASSUME NEW t \in Conns, pc'[t] = "stop"
        PROVE  \E i \in Slots : i = target'[t] /\ Reason(i)'
    <3>1. PICK i \in Slots : i = target[t]
      BY <2>1, <2>2, <1>d
    <3>2. Reason(i) /\ ~Pending(i)
      BY <2>1, <2>2, <3>1, <1>a DEF Pending
    <3>3. CASE i # accept.idx
      BY <2>1, <3>1, <3>2, <3>3, <1>e DEF TypeOK
    <3>4. CASE i = accept.idx
      <4>1. HadOther(i) /\ ~Live(i)
        BY <2>1, <3>2, <3>4 DEF NoClientOverwritten
      <4>2. PICK d \in Conns : Serves(d, i)
        BY <4>1 DEF HadOther
      <4>3. d # accept.conn
        BY <4>2, <2>1 DEF Serves, InHand
      <4>4. clientSockets'[i] = accept.conn
        BY <2>1, <3>4 DEF TypeOK
      <4>5. Serves(d, i)'
        BY <4>2, <1>b
      <4> QED BY <4>3, <4>4, <4>5, <2>1, <3>1 DEF HadOther
    <3> QED BY <3>3, <3>4
  <2> QED BY <2>2, <1>f
<1>2. CASE CountClient \/ StoreMax \/ StoreNext
  <2>1. /\ accept'.pc \in {"max", "next", "open"} /\ accept'.idx = accept.idx
        /\ UNCHANGED <<clientSockets, pc, target>>
    BY <1>2 DEF CountClient, StoreMax, StoreNext, Shapes
  <2> QED BY <2>1, <1>0 DEF Pending
<1>3. CASE OpenThread
  <2>1. /\ accept.conn \in Conns
        /\ pc' = [pc EXCEPT ![accept.conn] = "check"]
        /\ slotOf' = [slotOf EXCEPT ![accept.conn] = accept.idx]
        /\ UNCHANGED <<clientSockets, target>>
    BY <1>3 DEF OpenThread, InHand
  <2>2. ASSUME NEW i \in Slots, Pending(i)
        PROVE  \E d \in Conns : Serves(d, i)'
    <3>1. PICK d \in Conns : d = accept.conn
      BY <2>1
    <3>2. Serves(d, i)'
      BY <2>1, <2>2, <3>1 DEF Serves, Pending, Shapes, TypeOK
    <3> QED BY <3>2
  <2>3. \A t \in Conns : pc'[t] = "stop" => pc[t] = "stop"
    BY <2>1 DEF Shapes
  <2> QED BY <2>1, <2>2, <2>3, <1>0
<1>4. CASE AcceptTop \/ Accept \/ AcceptFails \/ CheckLimit \/ LoadNext \/
           JoinOld
  <2>1. /\ accept.pc \in {"top", "accept", "limit", "load", "join"}
        /\ UNCHANGED <<clientSockets, pc, target>>
    BY <1>4 DEF AcceptTop, Accept, AcceptFails, CheckLimit, LoadNext, JoinOld
  <2> QED BY <2>1, <1>0 DEF Pending
<1>5. ASSUME NEW t \in Stoppers, StopNothing(t)
      PROVE  StopsJustified'
  <2>1. t \in Conns /\ pc[t] = "stop" /\ AfterStop(t)
    BY <1>5, <1>a DEF StopNothing, OwnerAsks
  <2> QED BY <2>1, <1>5, <1>0, ThreadAdvances DEF StopNothing, Pending
<1>6. ASSUME NEW t \in Stoppers, FreeSlot(t)
      PROVE  StopsJustified'
  <2>1. t \in Conns /\ pc[t] = "free" /\ AfterStop(t)
    BY <1>6, <1>a DEF FreeSlot, OwnerAsks
  <2> QED BY <2>1, <1>6, <1>0, ThreadAdvances DEF FreeSlot, Pending
<1>7. ASSUME NEW c \in Conns, SendOk(c)
      PROVE  StopsJustified'
  <2>1. pc[c] = "send" /\ NextTarget(c)
    BY <1>7 DEF SendOk
  <2> QED BY <2>1, <1>7, <1>0, ThreadAdvances DEF SendOk, Pending
<1>8. ASSUME NEW t \in Stoppers, CloseSocket(t)
      PROVE  StopsJustified'
  <2>1. /\ clientSockets' = [clientSockets EXCEPT ![target[t]] = Invalid]
        /\ pc' = [pc EXCEPT ![t] = "uncount"]
        /\ Live(target[t])
        /\ UNCHANGED <<accept, slotOf, target>>
    BY <1>8 DEF CloseSocket
  <2>2. ASSUME NEW u \in Conns, pc'[u] = "stop"
        PROVE  \E i \in Slots : i = target'[u] /\ Reason(i)'
    <3>1. pc[u] = "stop"
      BY <2>1, <2>2 DEF Shapes
    <3>2. PICK i \in Slots : i = target[u]
      BY <3>1, <1>d
    <3>3. Reason(i)
      BY <3>1, <3>2, <1>a
    <3>4. CASE i # target[t]
      BY <2>1, <3>2, <3>3, <3>4, <1>e DEF Pending, TypeOK
    <3>5. CASE i = target[t]
      <4>1. clientSockets'[i] = Invalid
        BY <2>1, <3>5 DEF TypeOK
      <4>2. CASE Serves(clientSockets[i], i)
        <5>1. PICK d \in Conns : d = clientSockets[i]
          BY <2>1, <3>5, <1>c
        <5>2. Serves(d, i)'
          BY <4>2, <5>1, <1>b
        <5> QED BY <4>1, <5>2, <2>1, <3>2 DEF HadOther
      <4>3. CASE Pending(i)
        BY <4>1, <4>3, <2>1, <3>2 DEF Pending, Live
      <4> QED BY <4>2, <4>3, <2>1, <3>5 DEF SocketsServed
    <3> QED BY <3>4, <3>5
  <2> QED BY <2>2, <1>f
<1>9. ASSUME NEW t \in Stoppers, UncountClient(t)
      PROVE  StopsJustified'
  BY <1>9, <1>0 DEF UncountClient, Shapes, Pending
<1>10. ASSUME NEW c \in Conns, RecvFails(c) \/ SendFails(c)
       PROVE  StopsJustified'
  <2>1. /\ pc' = [pc EXCEPT ![c] = "stop"]
        /\ \A t \in Conns \ {c} : target'[t] = target[t]
        /\ UNCHANGED <<clientSockets, accept, slotOf, peer>>
    BY <1>10 DEF RecvFails, SendFails, Shapes
  <2>2. ASSUME NEW t \in Conns \ {c}, pc'[t] = "stop"
        PROVE  \E i \in Slots : i = target'[t] /\ Reason(i)'
    <3>1. pc[t] = "stop"
      BY <2>1, <2>2 DEF Shapes
    <3>2. PICK i \in Slots : i = target[t]
      BY <3>1, <1>d
    <3>3. Reason(i)
      BY <3>1, <3>2, <1>a
    <3>4. Reason(i)'
      BY <2>1, <3>3, <1>e DEF Pending
    <3> QED BY <2>1, <3>2, <3>4
  <2>3. ~CleanedUp
    BY <1>a DEF CleanedUp, OwnerAsks
  <2>4. \E i \in Slots : i = target'[c] /\ Reason(i)
    <3>1. CASE RecvFails(c)
      <4>1. PICK i \in Slots : i = slotOf[c]
        BY DEF TypeOK
      <4>2. pc[c] = "recv" /\ target'[c] = i /\ Broken(on[c])
        BY <3>1, <4>1 DEF RecvFails, Shapes
      <4>3. CASE clientSockets[i] = c
        <5>1. on[c] = c
          BY <4>1, <4>2, <4>3 DEF SocketsServed
        <5>2. peer[c] \notin {"up", "full"}
          BY <4>2, <5>1, <2>3 DEF Broken
        <5> QED BY <4>2, <4>3, <5>2 DEF Live
      <4>4. CASE clientSockets[i] # c
        BY <4>1, <4>2, <4>4 DEF HadOther, Serves
      <4> QED BY <4>3, <4>4
    <3>2. CASE SendFails(c)
      <4>1. /\ pc[c] \in {"send", "sending"} /\ target' = target
            /\ Broken(clientSockets[target[c]])
        BY <3>2 DEF SendFails
      <4>2. PICK i \in Slots : i = target[c]
        BY <4>1 DEF TypeOK
      <4>3. CASE Live(i)
        BY <4>1, <4>2, <4>3, <2>3 DEF Broken, Live
      <4>4. CASE ~Live(i)
        <5>1. i <= maxClientIdx /\ ~Fresh
          BY <4>1, <4>2, <1>a DEF BelowMax, Fresh
        <5>2. Pending(i) \/ \E d \in Conns : Serves(d, i)
          BY <5>1, <1>a DEF SlotsUsed
        <5> QED BY <5>2, <4>1, <4>2, <4>4 DEF HadOther, Live
      <4> QED BY <4>3, <4>4
    <3> QED BY <3>1, <3>2, <1>10
  <2>5. \E i \in Slots : i = target'[c] /\ Reason(i)'
    <3>1. PICK i \in Slots : i = target'[c] /\ Reason(i)
      BY <2>4
    <3>2. Reason(i)'
      BY <2>1, <3>1, <1>e DEF Pending
    <3> QED BY <3>1, <3>2
  <2> QED BY <2>2, <2>5, <1>f
<1>11. ASSUME NEW c \in Conns, CheckSocket(c) \/ CallRecv(c) \/ RecvMore(c) \/
       RecvFrame(c) \/ Broadcast(c) \/ SendBlocks(c)
       PROVE  StopsJustified'
  BY <1>11, <1>0 DEF CheckSocket, CallRecv, RecvMore, RecvFrame, Broadcast,
          SendBlocks,
          Shapes, Pending
<1>12. CASE Start
  BY <1>12, <1>0 DEF Start, Shapes, Pending, InHand
<1>13. CASE EndProgram \/ CloseServer \/
            DestroyMutexes
  BY <1>13, <1>0 DEF EndProgram, CloseServer,
          DestroyMutexes, Shapes, Pending
<1>14. CASE StopThread \/ JoinThread \/ JoinAccept \/ UseDestroyed \/ OpenGone
  BY <1>14, <1>0
  DEF StopThread, JoinThread, JoinAccept, UseDestroyed, OpenGone, Shapes,
          Pending
<1>15. ASSUME NEW c \in Conns, PeerStalls(c) \/ PeerFails(c)
       PROVE  StopsJustified'
  BY <1>15, <1>0 DEF PeerStalls, PeerFails, Pending
<1> QED BY <1>1, <1>2, <1>3, <1>4, <1>5, <1>6, <1>7, <1>8, <1>9, <1>10, <1>11,
       <1>12, <1>13, <1>14, <1>15 DEF Next, AcceptThread, StopClient,
       ReceiveThread, DestroyServer

-----------------------------------------------------------------------------
(* All of it holds in every behaviour.                                     *)
LEMMA SoundInvariant == Spec => []SoundInv
<1>1. Init => SoundInv
  <2> SUFFICES ASSUME Init PROVE SoundInv
    OBVIOUS
  <2> USE Names
  <2>1. OwnerAsks /\ SocketsServed
    BY DEF Init, OwnerAsks, SocketsServed, Live
  <2>2. BelowMax
    BY DEF Init, BelowMax, NoBroadcast
  <2>3. SlotsUsed /\ StopsJustified
    BY DEF Init, SlotsUsed, StopsJustified, Fresh
  <2> QED BY <2>1, <2>2, <2>3 DEF SoundInv
<1>2. IInv /\ SoundInv /\ [Next]_vars => SoundInv'
  <2> SUFFICES ASSUME IInv, SoundInv, [Next]_vars PROVE SoundInv'
    OBVIOUS
  <2>1. CASE Next
    BY <2>1, Asks, Serving, Below, Used, Justified DEF SoundInv
  <2>2. CASE UNCHANGED vars
    <3> USE <2>2 DEF SoundInv, vars, acceptVars, countVars, slotVars, callVars,
                     worldVars
    <3>1. OwnerAsks'
      BY DEF OwnerAsks
    <3>2. SocketsServed'
      BY DEF SocketsServed, Serves, Pending, Live
    <3>3. BelowMax'
      BY DEF BelowMax
    <3>4. SlotsUsed'
      BY DEF SlotsUsed, Serves, Pending, Fresh
    <3>5. StopsJustified'
      BY DEF StopsJustified, HadOther, Serves, Pending, Live
    <3> QED BY <3>1, <3>2, <3>3, <3>4, <3>5
  <2> QED BY <2>1, <2>2
<1> QED BY <1>1, <1>2, InductiveInvariant, PTL DEF Spec

(* wsa_server.h:105-125, the receive loop, and stopClient: only a slot     *)
(* that has changed hands can have a sound client cut off, by a thread     *)
(* that still serves the client before, unless the server stops.           *)
THEOREM SoundClientsAreKept == Spec => SoundClientKept
<1> DEFINE Kept == \A i \in Slots :
       LET c == clientSockets[i]
       IN  Live(i) /\ ~Live(i)' /\ peer[c] \in {"up", "full"} =>
             \/ acceptStop
             \/ \E d \in Conns \ {c} : pc[d] # "none" /\ slotOf[d] = i
<1>1. IInv /\ SoundInv /\ [Next]_vars => [Kept]_vars
  <2> SUFFICES ASSUME IInv, SoundInv, Next,
                      NEW i \in Slots, Live(i), ~Live(i)',
                      peer[clientSockets[i]] \in {"up", "full"}, ~acceptStop
               PROVE  HadOther(i)
    BY DEF HadOther, Serves
  <2> USE Names DEF IInv, SoundInv, AcceptGoto, OwnerGoto, acceptVars,
                    countVars, slotVars, callVars, worldVars
  <2>1. ASSUME NEW t \in Stoppers, CloseSocket(t)
        PROVE  HadOther(i)
    <3>1. pc[t] = "stop" /\ t \in Conns
      BY <2>1 DEF CloseSocket, OwnerAsks
    <3>2. i = target[t]
      BY <2>1 DEF CloseSocket, Live, TypeOK
    <3> QED BY <3>1, <3>2 DEF StopsJustified
  <2>2. CASE clientSockets' = clientSockets
    BY <2>2 DEF Live
  <2>3. CASE StoreSocket
    BY <2>3 DEF StoreSocket, Live, TypeOK, InHand
  <2>4. CASE AcceptTop \/ Accept \/ AcceptFails \/ CheckLimit \/ LoadNext \/
             CountClient \/ StoreMax \/ StoreNext \/ OpenThread \/ JoinOld
    BY <2>4, <2>2 DEF AcceptTop, Accept, AcceptFails, CheckLimit, LoadNext,
            CountClient, StoreMax, StoreNext, OpenThread, JoinOld
  <2>5. ASSUME NEW t \in Stoppers,
               StopNothing(t) \/ UncountClient(t) \/ FreeSlot(t)
        PROVE  HadOther(i)
    BY <2>5, <2>2 DEF StopNothing, UncountClient, FreeSlot
  <2>6. ASSUME NEW c \in Conns,
               ReceiveThread(c) \/ PeerStalls(c) \/ PeerFails(c)
        PROVE  HadOther(i)
    BY <2>6, <2>2 DEF ReceiveThread, CheckSocket, CallRecv, RecvMore,
            RecvFrame, RecvFails, Broadcast, SendOk, SendBlocks, SendFails,
            PeerStalls, PeerFails
  <2>7. CASE Start \/ EndProgram \/ CloseServer \/
             DestroyMutexes \/ StopThread \/ JoinThread \/ JoinAccept \/
             UseDestroyed \/ OpenGone
    BY <2>7, <2>2 DEF Start, EndProgram, CloseServer,
            DestroyMutexes, StopThread, JoinThread, JoinAccept, UseDestroyed,
            OpenGone
  <2> QED BY <2>1, <2>3, <2>4, <2>5, <2>6, <2>7 DEF Next, AcceptThread,
             StopClient, DestroyServer
<1> QED BY <1>1, SoundInvariant, InductiveInvariant, PTL
       DEF Spec, SoundClientKept
=============================================================================
