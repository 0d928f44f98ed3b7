------------------------ MODULE TopicInspector_proofs ------------------------
(***************************************************************************)
(* Proofs about TopicInspector for any topics, publishers and numbers of   *)
(* messages and ticks.                                                     *)
(***************************************************************************)
EXTENDS TopicInspector, TLAPS

(* The parts of the inductive invariant.                                   *)

Types ==
  /\ phase \in Phases
  /\ connected \subseteq Topics
  /\ DOMAIN stats \subseteq Topics
  /\ \A t \in DOMAIN stats : stats[t] \in Ages
  /\ initialized \in BOOLEAN
  /\ holder \in [Topics -> Threads \cup {NoBody}]
  /\ pc \in [Threads -> {"none", "idle", "sleep", "call", "next", "locked",
                       "ended"}]
  /\ topic \in [Threads -> Topics \cup {NoTopic}]
  /\ todo \in [{Tick, Display} -> SUBSET Topics]
  /\ rows \subseteq Topics

(* A mutex is held exactly by the thread that is in its section.           *)
Held ==
  \A t \in Topics, th \in Threads :
    holder[t] = th <=> pc[th] = "locked" /\ topic[th] = t

(* A thread that is about to lock a topic, or has, has a topic; the ages   *)
(* counted are ages.                                                       *)
AtTopic ==
  /\ \A th \in Threads : pc[th] \in {"call", "locked"} => topic[th] \in Topics
  /\ ticks \in [Topics -> 0 .. MaxAge]
  /\ stats = [t \in DOMAIN stats |-> stats[t]]

(* The table is full while the tick thread and the display thread may walk *)
(* through it: the one starts after it is filled and is joined before it   *)
(* is cleared, the other reads it once it is shown and has ended.          *)
Filling    == phase \in {"subscribeAll", "emplace"}
Clearing   == phase \in {"clear", "destroyed"}
ShutDown   == phase \in {"unsubscribe", "join", "clear", "destroyed"}

Full ==
  /\ ~Filling /\ ~Clearing => DOMAIN stats = Topics
  /\ Filling => received \subseteq DOMAIN stats
  /\ pc[Tick] \notin {"none", "ended"} =>
       phase \in {"initialize", "running", "unsubscribe", "join"}
  /\ initialized => phase = "running" \/ ShutDown
  /\ pc[Display] \in {"next", "locked"} => initialized
  /\ ShutDown => pc[Display] = "ended"

(* The age the tick thread works on is that of its topic.                  *)
AgesKept ==
  /\ \A t \in DOMAIN stats :
       stats[t] = IF t \in received THEN ticks[t] ELSE NotSeen
  /\ pc[Tick] = "locked" => tickAge = stats[topic[Tick]]

IInv == Types /\ Held /\ AtTopic /\ Full /\ AgesKept /\ FoundWhileRunning

-----------------------------------------------------------------------------
(* The threads and those that are none.                                    *)
LEMMA Names ==
  /\ Threads = Publishers \cup {Tick, Display}
  /\ Tick \notin Publishers /\ Display \notin Publishers /\ Tick # Display
  /\ NoBody \notin Threads
  /\ MaxAge \in Nat /\ NotSeen = -1 /\ Ages = NotSeen .. MaxAge
BY InspectorAssumption, NamesAssumption
   DEF Threads, Tick, Display, NoBody, NotSeen, Ages

(* The types of the module are these two parts.                            *)
LEMMA TypeParts == TypeOK <=> Types /\ Held
BY DEF TypeOK, Types, Held

(* Nothing is shown, held or received at first.                            *)
LEMMA InitIInv == Init => IInv
<1> SUFFICES ASSUME Init PROVE IInv
  OBVIOUS
<1> USE Names
<1>1. DOMAIN stats = {} /\ stats = [t \in DOMAIN stats |-> stats[t]]
  BY DEF Init
<1>2. Types
  BY <1>1 DEF Init, Types, Phases
<1>3. Held /\ AtTopic
  BY <1>1 DEF Init, Held, AtTopic
<1>4. Full /\ AgesKept
  BY <1>1 DEF Init, Full, Filling, Clearing, ShutDown, AgesKept
<1>5. FoundWhileRunning
  BY DEF Init, FoundWhileRunning
<1> QED BY <1>2, <1>3, <1>4, <1>5 DEF IInv

(* Emplacing adds a topic, never seen.                                     *)
LEMMA Emplaced ==
  ASSUME AtTopic, EmplaceNext
  PROVE  \/ stats' = stats /\ DOMAIN stats = Topics /\ phase' = "startTick"
         \/ /\ phase' = "emplace"
            /\ \E t \in Topics \ DOMAIN stats :
                 /\ holder[t] = NoBody
                 /\ DOMAIN stats' = DOMAIN stats \cup {t}
                 /\ stats'[t] = NotSeen
                 /\ \A u \in DOMAIN stats : stats'[u] = stats[u]
            /\ stats' = [u \in DOMAIN stats' |-> stats'[u]]
<1>1. CASE DOMAIN stats = Topics
  BY <1>1 DEF EmplaceNext
<1>2. CASE DOMAIN stats # Topics
  <2>1. PICK t \in Topics \ DOMAIN stats :
          /\ holder[t] = NoBody
          /\ stats' = [u \in DOMAIN stats \cup {t} |->
                         IF u = t THEN NotSeen ELSE stats[u]]
    BY <1>2 DEF EmplaceNext
  <2>2. /\ DOMAIN stats' = DOMAIN stats \cup {t}
        /\ stats'[t] = NotSeen
        /\ \A u \in DOMAIN stats : stats'[u] = stats[u]
        /\ stats' = [u \in DOMAIN stats' |-> stats'[u]]
    BY <2>1
  <2>3. phase' = "emplace"
    BY <1>2 DEF EmplaceNext
  <2> QED BY <2>1, <2>2, <2>3
<1> QED BY <1>1, <1>2

(* Clearing leaves all of the table or nothing.                            *)
LEMMA Cleared ==
  ASSUME Clear
  PROVE  \/ stats' = stats /\ phase' = "destroyed"
         \/ /\ phase' = phase /\ DOMAIN stats' = {}
            /\ stats' = [t \in DOMAIN stats' |-> stats'[t]]
<1>1. CASE stats = <<>>
  BY <1>1 DEF Clear
<1>2. CASE stats # <<>>
  <2>1. stats' = <<>> /\ phase' = phase
    BY <1>2 DEF Clear
  <2>2. DOMAIN stats' = {} /\ stats' = [t \in DOMAIN stats' |-> stats'[t]]
    BY <2>1
  <2> QED BY <2>1, <2>2
<1> QED BY <1>1, <1>2

(* Accounting for a message resets the age of its topic and no other, or   *)
(* ends the program.                                                       *)
LEMMA Accounted ==
  ASSUME AtTopic, NEW p \in Publishers, Account(p)
  PROVE  /\ DOMAIN stats' = DOMAIN stats
         /\ stats' = [u \in DOMAIN stats' |-> stats'[u]]
         /\ \/ stats' = stats /\ received' = received /\ ticks' = ticks
            \/ /\ topic[p] \in DOMAIN stats
               /\ \A u \in DOMAIN stats :
                    stats'[u] = IF u = topic[p] THEN 0 ELSE stats[u]
               /\ received' = received \cup {topic[p]}
               /\ ticks' = [ticks EXCEPT ![topic[p]] = 0]
<1> DEFINE t == topic[p]
<1>1. CASE phase = "destroyed" \/ t \notin DOMAIN stats
  <2>1. stats' = stats /\ received' = received /\ ticks' = ticks
    BY <1>1 DEF Account, ghostVars
  <2> QED BY <2>1 DEF AtTopic
<1>2. CASE phase # "destroyed" /\ t \in DOMAIN stats
  <2>1. /\ stats' = [stats EXCEPT ![t] = 0]
        /\ received' = received \cup {t}
        /\ ticks' = [ticks EXCEPT ![t] = 0]
    BY <1>2 DEF Account
  <2>2. /\ DOMAIN stats' = DOMAIN stats
        /\ \A u \in DOMAIN stats : stats'[u] = IF u = t THEN 0 ELSE stats[u]
        /\ stats' = [u \in DOMAIN stats' |-> stats'[u]]
    BY <2>1 DEF AtTopic
  <2> QED BY <1>2, <2>1, <2>2
<1> QED BY <1>1, <1>2

(* The age a tick stores.                                                  *)
Older(age, elapsed) ==
  IF age + elapsed > MaxAge THEN MaxAge ELSE age + elapsed

(* Storing an age changes that of the topic the tick thread works on and   *)
(* no other.                                                               *)
LEMMA Stored ==
  ASSUME AtTopic, NEW elapsed \in 0 .. 1, TickStore(elapsed)
  PROVE  /\ DOMAIN stats' = DOMAIN stats
         /\ stats' = [u \in DOMAIN stats' |-> stats'[u]]
         /\ received' = received
         /\ \/ stats' = stats /\ ticks' = ticks
            \/ /\ tickAge >= 0
               /\ \A u \in DOMAIN stats :
                    stats'[u] = IF u = topic[Tick] THEN Older(tickAge, elapsed)
                                ELSE stats[u]
               /\ ticks' = [ticks EXCEPT
                              ![topic[Tick]] = Older(@, elapsed)]
<1> DEFINE t == topic[Tick]
<1>1. received' = received
  BY DEF TickStore
<1>2. CASE ~(tickAge >= 0)
  <2>1. stats' = stats /\ ticks' = ticks
    BY <1>2 DEF TickStore
  <2> QED BY <1>1, <1>2, <2>1 DEF AtTopic
<1>3. CASE tickAge >= 0
  <2>1. /\ stats' = [stats EXCEPT ![t] = Older(tickAge, elapsed)]
        /\ ticks' = [ticks EXCEPT ![t] = Older(@, elapsed)]
    BY <1>3 DEF TickStore, Older
  <2> HIDE DEF t
  <2>2. /\ DOMAIN stats' = DOMAIN stats
        /\ \A u \in DOMAIN stats :
             stats'[u] = IF u = t THEN Older(tickAge, elapsed) ELSE stats[u]
        /\ stats' = [u \in DOMAIN stats' |-> stats'[u]]
    BY <2>1 DEF AtTopic
  <2> QED BY <1>1, <1>3, <2>1, <2>2 DEF t
<1> QED BY <1>2, <1>3

-----------------------------------------------------------------------------
(* What emplacing, accounting for a message and a tick write into m_stats  *)
(* are ages of topics.                                                     *)
LEMMA Typing == IInv /\ Next => Types'
<1> SUFFICES ASSUME IInv, Next PROVE Types'
  OBVIOUS
<1> USE Names DEF IInv, Goto, Leave, Release, Acquire, ownerVars, threadVars,
                  ghostVars
<1>1. CASE SubscribeNext
  BY <1>1 DEF SubscribeNext, Types, AtTopic, Phases
<1>2. CASE EmplaceNext
  <2> DEFINE Good == /\ DOMAIN stats' \subseteq Topics
                     /\ \A u \in DOMAIN stats' : stats'[u] \in Ages
  <2>1. ASSUME stats' = stats PROVE Good
    BY <2>1 DEF Types
  <2>2. ASSUME NEW t \in Topics \ DOMAIN stats,
               DOMAIN stats' = DOMAIN stats \cup {t}, stats'[t] = NotSeen,
               \A u \in DOMAIN stats : stats'[u] = stats[u]
        PROVE  Good
    <3>1. \A u \in DOMAIN stats : stats[u] \in Ages
      BY DEF Types
    <3>2. DOMAIN stats \subseteq Topics
      BY DEF Types
    <3> QED BY <2>2, <3>1, <3>2
  <2>3. Good
    BY <1>2, <2>1, <2>2, Emplaced
  <2>4. phase' \in Phases
    BY <1>2, Emplaced DEF Phases
  <2> QED BY <1>2, <2>3, <2>4 DEF EmplaceNext, Types
<1>3. CASE StartTickThread
  BY <1>3 DEF StartTickThread, Types, AtTopic, Phases
<1>4. CASE Initialize
  BY <1>4 DEF Initialize, Types, AtTopic, Phases
<1>5. CASE BeginShutDown
  BY <1>5 DEF BeginShutDown, Types, AtTopic, Phases
<1>6. CASE UnsubscribeNext
  BY <1>6 DEF UnsubscribeNext, Types, AtTopic, Phases
<1>7. CASE JoinTickThread
  BY <1>7 DEF JoinTickThread, Types, AtTopic, Phases
<1>8. CASE Clear
  <2>1. /\ DOMAIN stats' \subseteq Topics
        /\ \A u \in DOMAIN stats' : stats'[u] \in Ages
    BY <1>8, Cleared DEF Types
  <2>2. phase' \in Phases
    BY <1>8, Cleared DEF Types, Phases
  <2> QED BY <1>8, <2>1, <2>2 DEF Clear, Types
<1>9. ASSUME NEW p \in Publishers, NEW t \in Topics, Publish(p, t)
      PROVE  Types'
  BY <1>9 DEF Publish, Types, AtTopic, Phases
<1>10. ASSUME NEW p \in Publishers, LockTopic(p)
      PROVE  Types'
  <2>1. CASE phase = "destroyed"
    BY <1>10, <2>1 DEF LockTopic, Types
  <2>2. CASE phase # "destroyed"
    <3>1. topic[p] \in Topics /\ p \in Threads
      BY <1>10, <2>2 DEF LockTopic, AtTopic
    <3> QED BY <1>10, <2>2, <3>1 DEF LockTopic, Types
  <2> QED BY <2>1, <2>2
<1>11. ASSUME NEW p \in Publishers, Account(p)
      PROVE  Types'
  <2>1. /\ DOMAIN stats' \subseteq Topics
        /\ \A u \in DOMAIN stats' : stats'[u] \in Ages
    BY <1>11, Accounted DEF Types
  <2>2. /\ holder' \in [Topics -> Threads \cup {NoBody}]
        /\ topic' \in [Threads -> Topics \cup {NoTopic}]
    BY <1>11 DEF Account, Types
  <2>3. pc' \in [Threads -> {"none", "idle", "sleep", "call", "next", "locked",
                           "ended"}]
    BY <1>11 DEF Account, Types
  <2> QED BY <1>11, <2>1, <2>2, <2>3 DEF Account, Types
<1>12. CASE TickSleep
  BY <1>12 DEF TickSleep, Types, AtTopic, Phases
<1>13. CASE TickBegin
  BY <1>13 DEF TickBegin, Types, AtTopic, Phases
<1>14. CASE TickEnd
  BY <1>14 DEF TickEnd, Types, AtTopic, Phases
<1>15. CASE TickReturn
  BY <1>15 DEF TickReturn, Types, AtTopic, Phases
<1>16. ASSUME NEW t \in Topics, TickLock(t)
      PROVE  Types'
  BY <1>16 DEF TickLock, Types, AtTopic, Phases
<1>17. ASSUME NEW elapsed \in 0 .. 1, TickStore(elapsed)
      PROVE  Types'
  <2>1. tickAge = stats[topic[Tick]] /\ topic[Tick] \in DOMAIN stats
    BY <1>17 DEF TickStore, AgesKept, Full, Filling, Clearing, AtTopic
  <2>2. tickAge \in Ages
    BY <2>1 DEF Types
  <2>3. tickAge >= 0 => Older(tickAge, elapsed) \in Ages
    BY <2>2 DEF Older
  <2>4. DOMAIN stats' \subseteq Topics
    BY <1>17, Stored DEF Types
  <2>5. \A u \in DOMAIN stats' : stats'[u] \in Ages
    BY <1>17, <2>3, Stored DEF Types
  <2>6. /\ holder' \in [Topics -> Threads \cup {NoBody}]
        /\ topic' \in [Threads -> Topics \cup {NoTopic}]
        /\ todo' \in [{Tick, Display} -> SUBSET Topics]
    BY <1>17 DEF TickStore, Types
  <2>7. pc' \in [Threads -> {"none", "idle", "sleep", "call", "next", "locked",
                           "ended"}]
    BY <1>17 DEF TickStore, Types
  <2> QED BY <1>17, <2>4, <2>5, <2>6, <2>7 DEF TickStore, Types
<1>18. CASE GetBody
  BY <1>18 DEF GetBody, Types, AtTopic, Phases
<1>19. CASE WriteRow
  BY <1>19 DEF WriteRow, Types, AtTopic, Phases
<1>20. CASE ReturnBody
  BY <1>20 DEF ReturnBody, Types, AtTopic, Phases
<1>21. CASE EndDisplay
  BY <1>21 DEF EndDisplay, Types, AtTopic, Phases
<1>22. ASSUME NEW t \in Topics, TryLock(t)
      PROVE  Types'
  BY <1>22 DEF TryLock, Types, AtTopic, Phases
<1>23. ASSUME NEW t \in Topics, SkipRow(t)
      PROVE  Types'
  BY <1>23 DEF SkipRow, Types, AtTopic, Phases
<1> QED BY <1>1, <1>2, <1>3, <1>4, <1>5, <1>6, <1>7, <1>8, <1>9, <1>10, <1>11,
       <1>12, <1>13, <1>14, <1>15, <1>16, <1>17, <1>18, <1>19, <1>20, <1>21,
       <1>22, <1>23 DEF Next, OwnerStep, OnMessagePublished, TickStep,
       DisplayStep

(* The lock_guard of a callback, a tick and a row takes the mutex of the   *)
(* topic its thread is at, and gives back no other.                        *)
LEMMA Holding == IInv /\ Next => Held'
<1> SUFFICES ASSUME IInv, Next PROVE Held'
  OBVIOUS
<1> USE Names DEF IInv, Goto, Leave, Release, Acquire, ownerVars, threadVars,
                  ghostVars
<1>1. CASE SubscribeNext
  BY <1>1 DEF SubscribeNext, Held, Types
<1>2. CASE EmplaceNext
  BY <1>2 DEF EmplaceNext, Held, Types
<1>3. CASE StartTickThread
  BY <1>3 DEF StartTickThread, Held, Types, Full
<1>4. CASE Initialize
  BY <1>4 DEF Initialize, Held, Types
<1>5. CASE BeginShutDown
  BY <1>5 DEF BeginShutDown, Held, Types
<1>6. CASE UnsubscribeNext
  BY <1>6 DEF UnsubscribeNext, Held, Types
<1>7. CASE JoinTickThread
  BY <1>7 DEF JoinTickThread, Held, Types
<1>8. CASE Clear
  BY <1>8 DEF Clear, Held, Types
<1>9. ASSUME NEW p \in Publishers, NEW t \in Topics, Publish(p, t)
      PROVE  Held'
  BY <1>9 DEF Publish, Held, Types
<1>10. ASSUME NEW p \in Publishers, LockTopic(p)
      PROVE  Held'
  BY <1>10 DEF LockTopic, Held, Types, AtTopic
<1>11. ASSUME NEW p \in Publishers, Account(p)
      PROVE  Held'
  BY <1>11 DEF Account, Held, Types, AtTopic
<1>12. CASE TickSleep \/ TickBegin \/ TickEnd \/ TickReturn
  BY <1>12 DEF TickSleep, TickBegin, TickEnd, TickReturn, Held, Types
<1>13. ASSUME NEW t \in Topics, TickLock(t)
      PROVE  Held'
  BY <1>13 DEF TickLock, Held, Types
<1>14. ASSUME NEW elapsed \in 0 .. 1, TickStore(elapsed)
      PROVE  Held'
  BY <1>14 DEF TickStore, Held, Types
<1>15. CASE GetBody
  BY <1>15 DEF GetBody, Held, Types
<1>16. CASE WriteRow
  BY <1>16 DEF WriteRow, Held, Types
<1>17. CASE ReturnBody \/ EndDisplay
  BY <1>17 DEF ReturnBody, EndDisplay, Held, Types
<1>18. ASSUME NEW t \in Topics, TryLock(t)
      PROVE  Held'
  BY <1>18 DEF TryLock, Held, Types
<1>19. ASSUME NEW t \in Topics, SkipRow(t)
      PROVE  Held'
  BY <1>19 DEF SkipRow, Held, Types
<1> QED BY <1>1, <1>2, <1>3, <1>4, <1>5, <1>6, <1>7, <1>8, <1>9, <1>10, <1>11,
       <1>12, <1>13, <1>14, <1>15, <1>16, <1>17, <1>18, <1>19 DEF Next,
       OwnerStep, OnMessagePublished, TickStep, DisplayStep

(* A thread is at a topic from before it locks until it unlocks, and ages  *)
(* stay within the bound.                                                  *)
LEMMA AtTopics == IInv /\ Next => AtTopic'
<1> SUFFICES ASSUME IInv, Next PROVE AtTopic'
  OBVIOUS
<1> USE Names DEF IInv, Goto, Leave, Release, Acquire, ownerVars, threadVars,
                  ghostVars
<1>1. CASE SubscribeNext
  BY <1>1 DEF SubscribeNext, AtTopic, Types
<1>2. CASE EmplaceNext
  <2>1. stats' = [u \in DOMAIN stats' |-> stats'[u]]
    BY <1>2, Emplaced DEF AtTopic
  <2> QED BY <1>2, <2>1 DEF EmplaceNext, AtTopic
<1>3. CASE StartTickThread \/ Initialize \/ BeginShutDown \/ UnsubscribeNext
  BY <1>3 DEF StartTickThread, Initialize, BeginShutDown, UnsubscribeNext,
           AtTopic, Types
<1>4. CASE JoinTickThread
  BY <1>4 DEF JoinTickThread, AtTopic, Types
<1>5. CASE Clear
  <2>1. stats' = [u \in DOMAIN stats' |-> stats'[u]]
    BY <1>5, Cleared DEF AtTopic
  <2> QED BY <1>5, <2>1 DEF Clear, AtTopic
<1>6. ASSUME NEW p \in Publishers, NEW t \in Topics, Publish(p, t)
      PROVE  AtTopic'
  BY <1>6 DEF Publish, AtTopic, Types
<1>7. ASSUME NEW p \in Publishers, LockTopic(p)
      PROVE  AtTopic'
  BY <1>7 DEF LockTopic, AtTopic, Types
<1>8. ASSUME NEW p \in Publishers, Account(p)
      PROVE  AtTopic'
  <2>1. stats' = [u \in DOMAIN stats' |-> stats'[u]]
    BY <1>8, Accounted
  <2>2. ticks' \in [Topics -> 0 .. MaxAge]
    BY <1>8 DEF Account, AtTopic
  <2>3. \A th \in Threads :
          pc'[th] \in {"call", "locked"} => topic'[th] \in Topics
    <3>1. CASE UNCHANGED <<pc, topic>>
      BY <3>1 DEF AtTopic
    <3>2. CASE /\ pc' = [pc EXCEPT ![p] = "idle"]
               /\ topic' = [topic EXCEPT ![p] = NoTopic]
      BY <3>2 DEF AtTopic, Types
    <3> QED BY <1>8, <3>1, <3>2 DEF Account
  <2> QED BY <2>1, <2>2, <2>3 DEF AtTopic
<1>9. CASE TickSleep \/ TickBegin \/ TickEnd \/ TickReturn
  BY <1>9 DEF TickSleep, TickBegin, TickEnd, TickReturn, AtTopic, Types
<1>10. ASSUME NEW t \in Topics, TickLock(t)
      PROVE  AtTopic'
  BY <1>10 DEF TickLock, AtTopic, Types
<1>11. ASSUME NEW elapsed \in 0 .. 1, TickStore(elapsed)
      PROVE  AtTopic'
  <2>1. stats' = [u \in DOMAIN stats' |-> stats'[u]]
    BY <1>11, Stored
  <2>2. \A n \in 0 .. MaxAge : Older(n, elapsed) \in 0 .. MaxAge
    BY DEF Older
  <2>3. \/ ticks' = ticks
        \/ ticks' = [ticks EXCEPT ![topic[Tick]] = Older(@, elapsed)]
    BY <1>11, Stored
  <2>4. ticks' \in [Topics -> 0 .. MaxAge]
    BY <2>2, <2>3 DEF AtTopic
  <2>5. \A th \in Threads :
          pc'[th] \in {"call", "locked"} => topic'[th] \in Topics
    BY <1>11 DEF TickStore, AtTopic, Types
  <2> QED BY <2>1, <2>4, <2>5 DEF AtTopic
<1>12. CASE GetBody
  BY <1>12 DEF GetBody, AtTopic, Types
<1>13. CASE WriteRow
  BY <1>13 DEF WriteRow, AtTopic, Types
<1>14. CASE ReturnBody \/ EndDisplay
  BY <1>14 DEF ReturnBody, EndDisplay, AtTopic, Types
<1>15. ASSUME NEW t \in Topics, TryLock(t)
      PROVE  AtTopic'
  BY <1>15 DEF TryLock, AtTopic, Types
<1>16. ASSUME NEW t \in Topics, SkipRow(t)
      PROVE  AtTopic'
  BY <1>16 DEF SkipRow, AtTopic, Types
<1> QED BY <1>1, <1>2, <1>3, <1>4, <1>5, <1>6, <1>7, <1>8, <1>9, <1>10, <1>11,
       <1>12, <1>13, <1>14, <1>15, <1>16 DEF Next, OwnerStep,
       OnMessagePublished, TickStep, DisplayStep

(* The table is filled before the tick thread starts and before it is      *)
(* shown, and cleared when that thread has been joined.                    *)
LEMMA Fills == IInv /\ Next => Full'
<1> SUFFICES ASSUME IInv, Next PROVE Full'
  OBVIOUS
<1> USE Names DEF IInv, Goto, Leave, Release, Acquire, ownerVars, threadVars,
                  ghostVars
<1>1. CASE SubscribeNext
  BY <1>1 DEF SubscribeNext, Full, Filling, Clearing, ShutDown, Types, Phases
<1>2. CASE EmplaceNext
  <2>1. pc[Tick] \in {"none", "ended"} /\ ~initialized /\ received' = received
    BY <1>2 DEF EmplaceNext, Full, ShutDown
  <2>2. Filling /\ received \subseteq DOMAIN stats
    BY <1>2 DEF EmplaceNext, Full, Filling
  <2>3. received' \subseteq DOMAIN stats'
    BY <1>2, <2>1, <2>2, Emplaced
  <2>4. ~Filling' => DOMAIN stats' = Topics
    BY <1>2, Emplaced DEF Filling
  <2>5. ~ShutDown'
    BY <1>2, Emplaced DEF ShutDown
  <2> QED BY <1>2, <2>1, <2>3, <2>4, <2>5 DEF EmplaceNext, Full
<1>3. CASE StartTickThread \/ Initialize \/ BeginShutDown \/ UnsubscribeNext
  BY <1>3 DEF StartTickThread, Initialize, BeginShutDown, UnsubscribeNext,
           Full, Filling, Clearing, ShutDown, Types, Phases
<1>4. CASE JoinTickThread
  BY <1>4 DEF JoinTickThread, Full, Filling, Clearing, ShutDown, Types, Phases
<1>5. CASE Clear
  BY <1>5 DEF Clear, Full, Filling, Clearing, ShutDown, Types, Phases
<1>6. ASSUME NEW p \in Publishers, NEW t \in Topics, Publish(p, t)
      PROVE  Full'
  BY <1>6 DEF Publish, Full, Filling, Clearing, ShutDown, Types, Phases
<1>7. ASSUME NEW p \in Publishers, LockTopic(p)
      PROVE  Full'
  BY <1>7 DEF LockTopic, Full, Filling, Clearing, ShutDown, Types, Phases
<1>8. ASSUME NEW p \in Publishers, Account(p)
      PROVE  Full'
  BY <1>8 DEF Account, Full, Filling, Clearing, ShutDown, Types, Phases
<1>9. CASE TickSleep \/ TickBegin \/ TickEnd \/ TickReturn
  BY <1>9 DEF TickSleep, TickBegin, TickEnd, TickReturn, Full, Filling,
           Clearing, ShutDown, Types, Phases
<1>10. ASSUME NEW t \in Topics, TickLock(t)
      PROVE  Full'
  BY <1>10 DEF TickLock, Full, Filling, Clearing, ShutDown, Types, Phases
<1>11. ASSUME NEW elapsed \in 0 .. 1, TickStore(elapsed)
      PROVE  Full'
  BY <1>11 DEF TickStore, Full, Filling, Clearing, ShutDown, Types, Phases
<1>12. CASE GetBody \/ WriteRow \/ ReturnBody \/ EndDisplay
  BY <1>12 DEF GetBody, WriteRow, ReturnBody, EndDisplay, Full, Filling,
           Clearing, ShutDown, Types, Phases
<1>13. ASSUME NEW t \in Topics, TryLock(t) \/ SkipRow(t)
      PROVE  Full'
  BY <1>13 DEF TryLock, SkipRow, Full, Filling, Clearing, ShutDown, Types,
           Phases
<1> QED BY <1>1, <1>2, <1>3, <1>4, <1>5, <1>6, <1>7, <1>8, <1>9, <1>10, <1>11,
       <1>12, <1>13 DEF Next, OwnerStep, OnMessagePublished, TickStep,
       DisplayStep

(* A message resets the age of its topic and a tick advances it; no other  *)
(* thread writes it in between, for the tick holds the topic's mutex.      *)
LEMMA Ageing == IInv /\ Next => AgesKept'
<1> SUFFICES ASSUME IInv, Next PROVE AgesKept'
  OBVIOUS
<1> USE Names DEF IInv, Goto, Leave, Release, Acquire, ownerVars, threadVars,
                  ghostVars
<1>1. CASE SubscribeNext
  BY <1>1 DEF SubscribeNext, AgesKept, Types, AtTopic
<1>2. CASE EmplaceNext
  <2>1. pc[Tick] # "locked"
    BY <1>2 DEF EmplaceNext, Full
  <2>2. received \subseteq DOMAIN stats
    BY <1>2 DEF EmplaceNext, Full, Filling
  <2>3. UNCHANGED <<received, ticks, pc>>
    BY <1>2 DEF EmplaceNext
  <2>4. \A u \in DOMAIN stats' :
          stats'[u] = IF u \in received THEN ticks[u] ELSE NotSeen
    BY <1>2, <2>2, Emplaced DEF AgesKept
  <2> QED BY <2>1, <2>3, <2>4 DEF AgesKept
<1>3. CASE StartTickThread \/ Initialize \/ BeginShutDown \/ UnsubscribeNext
  BY <1>3 DEF StartTickThread, Initialize, BeginShutDown, UnsubscribeNext,
           AgesKept, Types, AtTopic
<1>4. CASE JoinTickThread
  BY <1>4 DEF JoinTickThread, AgesKept, Types, AtTopic
<1>5. CASE Clear
  <2>1. pc[Tick] # "locked"
    BY <1>5 DEF Clear, Full
  <2>2. UNCHANGED <<received, ticks, pc>>
    BY <1>5 DEF Clear
  <2>3. \A u \in DOMAIN stats' :
          stats'[u] = IF u \in received THEN ticks[u] ELSE NotSeen
    BY <1>5, Cleared DEF AgesKept
  <2> QED BY <2>1, <2>2, <2>3 DEF AgesKept
<1>6. ASSUME NEW p \in Publishers, NEW t \in Topics, Publish(p, t)
      PROVE  AgesKept'
  BY <1>6 DEF Publish, AgesKept, Types, AtTopic
<1>7. ASSUME NEW p \in Publishers, LockTopic(p)
      PROVE  AgesKept'
  BY <1>7 DEF LockTopic, AgesKept, Types, AtTopic
<1>8. ASSUME NEW p \in Publishers, Account(p)
      PROVE  AgesKept'
  <2>1. DOMAIN stats' = DOMAIN stats
    BY <1>8, Accounted
  <2>2. CASE stats' = stats /\ received' = received /\ ticks' = ticks
    <3>1. pc'[Tick] = "locked" => pc[Tick] = "locked"
      BY <1>8 DEF Account, Types
    <3>2. /\ tickAge' = tickAge
          /\ pc[Tick] = "locked" => topic'[Tick] = topic[Tick]
      BY <1>8 DEF Account, Types
    <3> QED BY <2>2, <3>1, <3>2 DEF AgesKept
  <2>3. CASE /\ topic[p] \in DOMAIN stats
             /\ \A u \in DOMAIN stats :
                  stats'[u] = IF u = topic[p] THEN 0 ELSE stats[u]
             /\ received' = received \cup {topic[p]}
             /\ ticks' = [ticks EXCEPT ![topic[p]] = 0]
    <3>1. \A u \in DOMAIN stats :
            stats'[u] = IF u \in received' THEN ticks'[u] ELSE NotSeen
      BY <2>3 DEF AgesKept, AtTopic, Types
    <3>2. /\ pc'[Tick] = pc[Tick] /\ topic'[Tick] = topic[Tick]
          /\ tickAge' = tickAge
      BY <1>8 DEF Account, Types
    <3>3. pc[p] = "locked" /\ holder[topic[p]] = p
      BY <1>8, <2>3 DEF Account, Held, Types
    <3>4. pc[Tick] = "locked" => topic[Tick] # topic[p]
      BY <2>3, <3>3 DEF Held, Types
    <3>5. pc[Tick] = "locked" => topic[Tick] \in DOMAIN stats
      BY DEF Full, Filling, Clearing, AtTopic
    <3>6. pc'[Tick] = "locked" => tickAge' = stats'[topic'[Tick]]
      BY <2>3, <3>2, <3>4, <3>5 DEF AgesKept
    <3> QED BY <2>1, <3>1, <3>6 DEF AgesKept
  <2> QED BY <1>8, <2>2, <2>3, Accounted
<1>9. CASE TickSleep \/ TickBegin \/ TickEnd \/ TickReturn
  BY <1>9 DEF TickSleep, TickBegin, TickEnd, TickReturn, AgesKept, Types,
           AtTopic
<1>10. ASSUME NEW t \in Topics, TickLock(t)
      PROVE  AgesKept'
  BY <1>10 DEF TickLock, AgesKept, Types, AtTopic, Full, Filling, Clearing,
           ShutDown
<1>11. ASSUME NEW elapsed \in 0 .. 1, TickStore(elapsed)
      PROVE  AgesKept'
  <2>1. DOMAIN stats' = DOMAIN stats /\ received' = received
    BY <1>11, Stored
  <2>2. pc'[Tick] = "next"
    BY <1>11 DEF TickStore, Types
  <2>3. tickAge = stats[topic[Tick]] /\ topic[Tick] \in DOMAIN stats
    BY <1>11 DEF TickStore, AgesKept, Full, Filling, Clearing, AtTopic
  <2>4. \A u \in DOMAIN stats :
          stats'[u] = IF u \in received THEN ticks'[u] ELSE NotSeen
    <3>1. CASE stats' = stats /\ ticks' = ticks
      BY <3>1 DEF AgesKept
    <3>2. CASE /\ tickAge >= 0
               /\ \A u \in DOMAIN stats :
                    stats'[u] = IF u = topic[Tick] THEN Older(tickAge, elapsed)
                                ELSE stats[u]
               /\ ticks' = [ticks EXCEPT ![topic[Tick]] = Older(@, elapsed)]
      <4>1. topic[Tick] \in received /\ tickAge = ticks[topic[Tick]]
        BY <2>3, <3>2 DEF AgesKept
      <4>2. \A u \in Topics :
              ticks'[u] = IF u = topic[Tick] THEN Older(tickAge, elapsed)
                          ELSE ticks[u]
        BY <3>2, <4>1 DEF AtTopic
      <4> QED BY <3>2, <4>1, <4>2 DEF AgesKept, Types
    <3> QED BY <1>11, <3>1, <3>2, Stored
  <2> QED BY <2>1, <2>2, <2>4 DEF AgesKept
<1>12. CASE GetBody \/ WriteRow \/ ReturnBody \/ EndDisplay
  BY <1>12 DEF GetBody, WriteRow, ReturnBody, EndDisplay, AgesKept, Types,
           AtTopic
<1>13. ASSUME NEW t \in Topics, TryLock(t) \/ SkipRow(t)
      PROVE  AgesKept'
  BY <1>13 DEF TryLock, SkipRow, AgesKept, Types, AtTopic
<1> QED BY <1>1, <1>2, <1>3, <1>4, <1>5, <1>6, <1>7, <1>8, <1>9, <1>10, <1>11,
       <1>12, <1>13 DEF Next, OwnerStep, OnMessagePublished, TickStep,
       DisplayStep

(* m_stats.at throws, or the inspector is gone, only while it is           *)
(* constructed, cleared or destroyed.                                      *)
LEMMA Finds == IInv /\ Next => FoundWhileRunning'
<1> SUFFICES ASSUME IInv, Next PROVE FoundWhileRunning'
  OBVIOUS
<1> USE Names DEF IInv, Goto, Leave, Release, Acquire, ownerVars, threadVars,
                  ghostVars
<1>1. CASE SubscribeNext
  BY <1>1 DEF SubscribeNext, FoundWhileRunning
<1>2. CASE EmplaceNext
  <2>1. fault = "none" /\ fault' = fault
    BY <1>2 DEF Next, EmplaceNext
  <2> QED BY <2>1 DEF FoundWhileRunning
<1>3. CASE StartTickThread
  BY <1>3 DEF StartTickThread, FoundWhileRunning
<1>4. CASE Initialize
  BY <1>4 DEF Initialize, FoundWhileRunning
<1>5. CASE BeginShutDown
  BY <1>5 DEF BeginShutDown, FoundWhileRunning
<1>6. CASE UnsubscribeNext
  BY <1>6 DEF UnsubscribeNext, FoundWhileRunning
<1>7. CASE JoinTickThread
  BY <1>7 DEF JoinTickThread, FoundWhileRunning
<1>8. CASE Clear
  BY <1>8 DEF Clear, FoundWhileRunning
<1>9. ASSUME NEW p \in Publishers, NEW t \in Topics, Publish(p, t)
      PROVE  FoundWhileRunning'
  BY <1>9 DEF Publish, FoundWhileRunning
<1>10. ASSUME NEW p \in Publishers, LockTopic(p)
      PROVE  FoundWhileRunning'
  BY <1>10 DEF LockTopic, FoundWhileRunning
<1>11. ASSUME NEW p \in Publishers, Account(p)
      PROVE  FoundWhileRunning'
  BY <1>11 DEF Account, FoundWhileRunning, AtTopic, Types, Phases, Full,
           Filling, Clearing, ShutDown
<1>12. CASE TickSleep \/ TickBegin \/ TickEnd \/ TickReturn
  BY <1>12 DEF TickSleep, TickBegin, TickEnd, TickReturn, FoundWhileRunning
<1>13. ASSUME NEW t \in Topics, TickLock(t)
      PROVE  FoundWhileRunning'
  BY <1>13 DEF TickLock, FoundWhileRunning
<1>14. ASSUME NEW elapsed \in 0 .. 1, TickStore(elapsed)
      PROVE  FoundWhileRunning'
  BY <1>14 DEF TickStore, FoundWhileRunning
<1>15. CASE GetBody \/ WriteRow \/ ReturnBody \/ EndDisplay
  BY <1>15 DEF GetBody, WriteRow, ReturnBody, EndDisplay, FoundWhileRunning
<1>16. ASSUME NEW t \in Topics, TryLock(t)
      PROVE  FoundWhileRunning'
  BY <1>16 DEF TryLock, FoundWhileRunning
<1>17. ASSUME NEW t \in Topics, SkipRow(t)
      PROVE  FoundWhileRunning'
  BY <1>17 DEF SkipRow, FoundWhileRunning
<1> QED BY <1>1, <1>2, <1>3, <1>4, <1>5, <1>6, <1>7, <1>8, <1>9, <1>10, <1>11,
       <1>12, <1>13, <1>14, <1>15, <1>16, <1>17 DEF Next, OwnerStep,
       OnMessagePublished, TickStep, DisplayStep

-----------------------------------------------------------------------------
(* The parts hold together in every behaviour of the owner, the publishers,*)
(* the tick and the display thread.                                        *)
THEOREM InductiveInvariant == Spec => []IInv
<1>1. IInv /\ [Next]_vars => IInv'
  <2> SUFFICES ASSUME IInv, [Next]_vars PROVE IInv'
    OBVIOUS
  <2>1. CASE Next
    BY <2>1, Typing, Holding, AtTopics, Fills, Ageing, Finds DEF IInv
  <2>2. CASE UNCHANGED vars
    <3> USE <2>2 DEF vars, ownerVars, threadVars, ghostVars, IInv
    <3>1. Types' /\ Held'
      BY DEF Types, Held
    <3>2. AtTopic' /\ FoundWhileRunning'
      BY DEF AtTopic, FoundWhileRunning
    <3>3. Full' /\ AgesKept'
      BY DEF Full, Filling, Clearing, ShutDown, AgesKept
    <3> QED BY <3>1, <3>2, <3>3
  <2> QED BY <2>1, <2>2
<1> QED BY InitIInv, <1>1, PTL DEF Spec

(* From the end of start() until the destructor clears m_stats, a callback *)
(* finds the inspector and its topic.                                      *)
THEOREM CallbacksFindTheirTopic == Spec => []FoundWhileRunning
<1>1. IInv => FoundWhileRunning
  BY DEF IInv
<1> QED BY <1>1, InductiveInvariant, PTL

(* The age shown of a topic counts the ticks since its last message, in    *)
(* whatever order callbacks and ticks come.                                *)
THEOREM AgesCountTicks == Spec => []AgeCounts
<1>1. IInv => AgeCounts
  BY TypeParts DEF IInv, AgesKept, AgeCounts
<1> QED BY <1>1, InductiveInvariant, PTL

(* The tick and the display thread walk through m_stats without a lock of  *)
(* it, and no entry comes or goes meanwhile.                               *)
THEOREM WalkedTablesAreStable == Spec => TablesStable
<1> DEFINE Walked ==
      pc[Tick] \in {"next", "locked"} \/ pc[Display] \in {"next", "locked"}
<1>1. ASSUME IInv, [Next]_vars, Walked
      PROVE  DOMAIN stats' = Topics
  <2>1. ~Filling /\ ~Clearing /\ DOMAIN stats = Topics
    BY <1>1 DEF IInv, Types, Phases, Full, Filling, Clearing, ShutDown
  <2>2. CASE Next
    <3>1. CASE OwnerStep
      <4>1. UNCHANGED stats
        BY <2>1, <3>1
           DEF OwnerStep, SubscribeNext, EmplaceNext, StartTickThread,
               Initialize, UnsubscribeNext, JoinTickThread, Clear, Filling,
               Clearing
      <4> QED BY <2>1, <4>1
    <3>2. ASSUME NEW p \in Publishers, Account(p)
          PROVE  DOMAIN stats' = Topics
      BY <1>1, <2>1, <3>2, Accounted DEF IInv
    <3>3. ASSUME NEW elapsed \in 0 .. 1, TickStore(elapsed)
          PROVE  DOMAIN stats' = Topics
      BY <1>1, <2>1, <3>3, Stored DEF IInv
    <3>4. CASE BeginShutDown \/ DisplayStep \/ EndDisplay
      <4>1. UNCHANGED stats
        BY <3>4
           DEF BeginShutDown, DisplayStep, GetBody, WriteRow, ReturnBody,
               TryLock, SkipRow, EndDisplay
      <4> QED BY <2>1, <4>1
    <3>5. ASSUME NEW p \in Publishers,
                 LockTopic(p) \/ \E t \in Topics : Publish(p, t)
          PROVE  DOMAIN stats' = Topics
      BY <2>1, <3>5 DEF LockTopic, Publish
    <3>6. CASE \/ TickSleep \/ TickBegin \/ TickEnd \/ TickReturn
               \/ \E t \in Topics : TickLock(t)
      BY <2>1, <3>6 DEF TickSleep, TickBegin, TickEnd, TickReturn, TickLock
    <3> QED BY <2>2, <3>1, <3>2, <3>3, <3>4, <3>5, <3>6
            DEF Next, OnMessagePublished, TickStep
  <2>3. CASE UNCHANGED vars
    BY <2>1, <2>3 DEF vars
  <2> QED BY <1>1, <2>2, <2>3
<1>2. IInv /\ [Next]_vars => (Walked => DOMAIN stats' = Topics)
  BY <1>1
<1> QED BY <1>2, InductiveInvariant, PTL DEF Spec, TablesStable
==============================================================================
