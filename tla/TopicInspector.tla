--------------------------- MODULE TopicInspector ---------------------------
(***************************************************************************)
(* Dataflow::TopicInspector (dataflow/topic_inspector.h): statistics of    *)
(* every topic, written by the callbacks in the publishers' threads and by *)
(* a tick thread, read by a display thread, each topic under its own       *)
(* mutex; the owner's thread constructs and destroys the inspector while   *)
(* the publishers go on, as the pulse thread of the test programs does.    *)
(*                                                                         *)
(* A step that the code leaves undefined, or an exception nobody catches,  *)
(* is a fault, and the model stops there.  Intervals, rates and the text   *)
(* of the table are left out; an age counts ticks.                         *)
(***************************************************************************)
EXTENDS Integers, FiniteSets

CONSTANTS
  Topics,
  Publishers,   (* threads that publish                                    *)
  MaxMessages,  (* bound: messages each of them publishes                  *)
  MaxAge        (* bound: how far ticks are counted                        *)

ASSUME InspectorAssumption == MaxMessages \in Nat /\ MaxAge \in Nat

Owner   == "owner"
Tick    == "tick"
Display == "display"
NoBody  == "nobody"
Threads == Publishers \cup {Tick, Display}

ASSUME NamesAssumption ==
  {Owner, Tick, Display, NoBody} \cap Publishers = {}

VARIABLES
  phase,        (* where the owner is: see Phases                          *)
  connected,    (* the topics whose connection is subscribed               *)
  stats,        (* m_stats: topic -> its lastSeenAgeMs                     *)
  initialized,  (* m_initialized                                           *)
  holder,       (* who holds each of m_mutexes                             *)
  pc,           (* where each thread is                                    *)
  topic,        (* the topic it is working on                              *)
  todo,         (* what is left of the iteration of a tick or a getBody    *)
  tickAge,      (* the age the tick thread has read                        *)
  rows,         (* the topics whose m_rowLengths is set                    *)
  sent,         (* messages each publisher has published (for the bound)   *)
  received,     (* history: the topics with a message processed            *)
  ticks,        (* history: the ticks since the last of them               *)
  fault         (* what went wrong, if anything                            *)

ownerVars  == <<phase, connected, initialized>>
threadVars == <<pc, topic, todo, tickAge, sent>>
ghostVars  == <<received, ticks>>
vars == <<ownerVars, stats, holder, threadVars, rows, ghostVars, fault>>

Phases ==
  {"subscribeAll", "emplace", "startTick", "initialize", "running",
   "unsubscribe", "join", "clear", "destroyed"}

NotSeen == -1
NoTopic == "none"
Ages    == NotSeen .. MaxAge

Init ==
  /\ phase = "subscribeAll"
  /\ connected = {}
  /\ stats = <<>>
  /\ initialized = FALSE
  /\ holder = [t \in Topics |-> NoBody]
  /\ pc = [th \in Threads |-> IF th = Tick THEN "none" ELSE "idle"]
  /\ topic = [th \in Threads |-> NoTopic]
  /\ todo = [th \in {Tick, Display} |-> {}]
  /\ tickAge = NotSeen
  /\ rows = {}
  /\ sent = [p \in Publishers |-> 0]
  /\ received = {}
  /\ ticks = [t \in Topics |-> 0]
  /\ fault = "none"

-----------------------------------------------------------------------------
(* The owner: start.                                                       *)

SubscribeNext ==
  /\ phase = "subscribeAll"
  /\ IF connected = Topics
     THEN phase' = "emplace" /\ UNCHANGED connected
     ELSE /\ \E t \in Topics \ connected : connected' = connected \cup {t}
          /\ UNCHANGED phase
  /\ UNCHANGED <<initialized, stats, holder, threadVars, rows, ghostVars, fault>>

(* The loop body locks, emplaces and unlocks; it waits for the mutex.      *)
EmplaceNext ==
  /\ phase = "emplace"
  /\ IF DOMAIN stats = Topics
     THEN phase' = "startTick" /\ UNCHANGED stats
     ELSE /\ \E t \in Topics \ DOMAIN stats :
               /\ holder[t] = NoBody
               /\ stats' = [u \in DOMAIN stats \cup {t} |->
                              IF u = t THEN NotSeen ELSE stats[u]]
          /\ UNCHANGED phase
  /\ UNCHANGED <<connected, initialized, holder, threadVars, rows, ghostVars,
                 fault>>

StartTickThread ==
  /\ phase = "startTick"
  /\ phase' = "initialize"
  /\ pc' = [pc EXCEPT ![Tick] = "idle"]
  /\ UNCHANGED <<connected, initialized, stats, holder, topic, todo, tickAge,
                 sent, rows, ghostVars, fault>>

(* The table is blanked and shown from now on.                             *)
Initialize ==
  /\ phase = "initialize"
  /\ phase' = "running"
  /\ initialized' = TRUE
  /\ UNCHANGED <<connected, stats, holder, threadVars, rows, ghostVars, fault>>

-----------------------------------------------------------------------------
(* The owner: shutDown, which the programs reach when the display thread,  *)
(* declared after the inspector, has ended.                                *)

BeginShutDown ==
  /\ phase = "running"
  /\ pc[Display] = "ended"
  /\ phase' = "unsubscribe"
  /\ UNCHANGED <<connected, initialized, stats, holder, threadVars, rows,
                 ghostVars, fault>>

(* Mutant: an entry is erased with its connection.                         *)
UnsubscribeErasing ==
  /\ phase = "unsubscribe"
  /\ IF connected = {}
     THEN phase' = "join" /\ UNCHANGED <<connected, stats>>
     ELSE /\ \E t \in connected :
               /\ connected' = connected \ {t}
               /\ stats' = [u \in DOMAIN stats \ {t} |-> stats[u]]
          /\ UNCHANGED phase
  /\ UNCHANGED <<initialized, holder, threadVars, rows, ghostVars, fault>>

UnsubscribeNext ==
  /\ phase = "unsubscribe"
  /\ IF connected = {}
     THEN phase' = "join" /\ UNCHANGED connected
     ELSE /\ \E t \in connected : connected' = connected \ {t}
          /\ UNCHANGED phase
  /\ UNCHANGED <<initialized, stats, holder, threadVars, rows, ghostVars, fault>>

(* Mutant: the tick thread is not waited for.                              *)
RequestStopOnly ==
  /\ phase = "join"
  /\ phase' = "clear"
  /\ UNCHANGED <<connected, initialized, stats, holder, threadVars, rows,
                 ghostVars, fault>>

JoinTickThread ==
  /\ phase = "join"
  /\ pc[Tick] = "ended"
  /\ phase' = "clear"
  /\ UNCHANGED <<connected, initialized, stats, holder, threadVars, rows,
                 ghostVars, fault>>

(* m_stats.clear(), then the members go.                                   *)
Clear ==
  /\ phase = "clear"
  /\ IF stats # <<>> THEN stats' = <<>> /\ UNCHANGED phase
     ELSE phase' = "destroyed" /\ UNCHANGED stats
  /\ UNCHANGED <<connected, initialized, holder, threadVars, rows, ghostVars,
                 fault>>

OwnerStep ==
  \/ SubscribeNext \/ EmplaceNext \/ StartTickThread \/ Initialize
  \/ UnsubscribeNext \/ JoinTickThread \/ Clear

-----------------------------------------------------------------------------
(* Each topic's mutex.                                                     *)

Acquire(th, t) ==
  /\ holder[t] = NoBody
  /\ holder' = [holder EXCEPT ![t] = th]

Release(t) == holder' = [holder EXCEPT ![t] = NoBody]

Leave(th) == topic' = [topic EXCEPT ![th] = NoTopic]

Goto(th, from, to) ==
  /\ pc[th] = from
  /\ pc' = [pc EXCEPT ![th] = to]

-----------------------------------------------------------------------------
(* A publisher's thread.                                                   *)

(* Bus::publish, which calls whoever is subscribed now.                    *)
Publish(p, t) ==
  /\ sent[p] < MaxMessages
  /\ Goto(p, "idle", IF t \in connected THEN "call" ELSE "idle")
  /\ topic' = IF t \in connected THEN [topic EXCEPT ![p] = t] ELSE topic
  /\ sent' = [sent EXCEPT ![p] = @ + 1]
  /\ UNCHANGED <<ownerVars, stats, holder, todo, tickAge, rows, ghostVars, fault>>

(* onMessagePublished: the mutex, if there still is one.                   *)
LockTopic(p) ==
  /\ IF phase = "destroyed"
     THEN /\ pc[p] = "call"
          /\ fault' = "useAfterDestroy"
          /\ UNCHANGED <<pc, holder>>
     ELSE /\ Goto(p, "call", "locked")
          /\ Acquire(p, topic[p])
          /\ UNCHANGED fault
  /\ UNCHANGED <<ownerVars, stats, topic, todo, tickAge, sent, rows, ghostVars>>

(* m_stats.at throws, and nobody catches; or the message is accounted for. *)
Account(p) ==
  LET t == topic[p]
  IN  /\ IF phase = "destroyed"
         THEN /\ pc[p] = "locked"
              /\ fault' = "useAfterDestroy"
              /\ UNCHANGED <<pc, topic, holder, stats, ghostVars>>
         ELSE IF t \notin DOMAIN stats
         THEN /\ pc[p] = "locked"
              /\ fault' = "outOfRange"
              /\ UNCHANGED <<pc, topic, holder, stats, ghostVars>>
         ELSE /\ Goto(p, "locked", "idle")
              /\ stats' = [stats EXCEPT ![t] = 0]
              /\ Leave(p)
              /\ Release(t)
              /\ received' = received \cup {t}
              /\ ticks' = [ticks EXCEPT ![t] = 0]
              /\ UNCHANGED fault
      /\ UNCHANGED <<ownerVars, todo, tickAge, sent, rows>>

OnMessagePublished(p) == LockTopic(p) \/ Account(p)

-----------------------------------------------------------------------------
(* The tick thread.                                                        *)

TickSleep ==
  /\ phase # "join"
  /\ Goto(Tick, "idle", "sleep")
  /\ UNCHANGED <<ownerVars, stats, holder, topic, todo, tickAge, sent, rows,
                 ghostVars, fault>>

TickBegin ==
  /\ Goto(Tick, "sleep", "next")
  /\ todo' = [todo EXCEPT ![Tick] = DOMAIN stats]
  /\ UNCHANGED <<ownerVars, stats, holder, topic, tickAge, sent, rows,
                 ghostVars, fault>>

(* Mutant: the stop is requested when the thread has been joined.          *)
TickEndLate ==
  /\ phase = "clear"
  /\ Goto(Tick, "idle", "ended")
  /\ UNCHANGED <<ownerVars, stats, holder, topic, todo, tickAge, sent, rows,
                 ghostVars, fault>>

(* The destructor has requested the stop.                                  *)
TickEnd ==
  /\ phase = "join"
  /\ Goto(Tick, "idle", "ended")
  /\ UNCHANGED <<ownerVars, stats, holder, topic, todo, tickAge, sent, rows,
                 ghostVars, fault>>

(* Mutant: the tick takes no lock.                                         *)
TickWithoutLock(t) ==
  /\ t \in todo[Tick]
  /\ Goto(Tick, "next", "locked")
  /\ topic' = [topic EXCEPT ![Tick] = t]
  /\ tickAge' = stats[t]
  /\ UNCHANGED <<ownerVars, stats, holder, todo, sent, rows, ghostVars, fault>>

(* It locks the next topic and reads its age ...                           *)
TickLock(t) ==
  /\ t \in todo[Tick]
  /\ Goto(Tick, "next", "locked")
  /\ Acquire(Tick, t)
  /\ topic' = [topic EXCEPT ![Tick] = t]
  /\ tickAge' = stats[t]
  /\ UNCHANGED <<ownerVars, stats, todo, sent, rows, ghostVars, fault>>

(* ... and stores it, older by the time elapsed, which may be none.        *)
TickStore(elapsed) ==
  LET t == topic[Tick]
      older == IF tickAge + elapsed > MaxAge THEN MaxAge ELSE tickAge + elapsed
  IN  /\ Goto(Tick, "locked", "next")
      /\ IF tickAge >= 0
         THEN /\ stats' = [stats EXCEPT ![t] = older]
              /\ ticks' = [ticks EXCEPT
                             ![t] = IF @ + elapsed > MaxAge THEN MaxAge
                                    ELSE @ + elapsed]
         ELSE UNCHANGED <<stats, ticks>>
      /\ todo' = [todo EXCEPT ![Tick] = @ \ {t}]
      /\ tickAge' = NotSeen
      /\ Leave(Tick)
      /\ Release(t)
      /\ UNCHANGED <<ownerVars, sent, rows, received, fault>>

TickReturn ==
  /\ todo[Tick] = {}
  /\ Goto(Tick, "next", "idle")
  /\ UNCHANGED <<ownerVars, stats, holder, topic, todo, tickAge, sent, rows,
                 ghostVars, fault>>

TickStep ==
  \/ TickSleep \/ TickBegin \/ TickEnd \/ TickReturn
  \/ \E t \in Topics : TickLock(t)
  \/ \E elapsed \in 0 .. 1 : TickStore(elapsed)

-----------------------------------------------------------------------------
(* The display thread: getBody.                                            *)

GetBody ==
  /\ Goto(Display, "idle", "next")
  /\ initialized
  /\ todo' = [todo EXCEPT ![Display] = DOMAIN stats]
  /\ UNCHANGED <<ownerVars, stats, holder, topic, tickAge, sent, rows,
                 ghostVars, fault>>

TryLock(t) ==
  /\ t \in todo[Display]
  /\ Goto(Display, "next", "locked")
  /\ Acquire(Display, t)
  /\ topic' = [topic EXCEPT ![Display] = t]
  /\ UNCHANGED <<ownerVars, stats, todo, tickAge, sent, rows, ghostVars, fault>>

(* The row is written and its length kept.                                 *)
WriteRow ==
  LET t == topic[Display]
  IN  /\ Goto(Display, "locked", "next")
      /\ rows' = rows \cup {t}
      /\ todo' = [todo EXCEPT ![Display] = @ \ {t}]
      /\ Leave(Display)
      /\ Release(t)
      /\ UNCHANGED <<ownerVars, stats, tickAge, sent, ghostVars, fault>>

(* Somebody else has the topic: its row stays, and the next row is put     *)
(* behind it, wherever the length that was never set says.                 *)
SkipRow(t) ==
  /\ pc[Display] = "next"
  /\ t \in todo[Display]
  /\ holder[t] # NoBody
  /\ todo' = [todo EXCEPT ![Display] = @ \ {t}]
  /\ fault' = IF t \in rows THEN "none" ELSE "uninitializedLength"
  /\ UNCHANGED <<ownerVars, stats, holder, pc, topic, tickAge, sent, rows,
                 ghostVars>>

ReturnBody ==
  /\ todo[Display] = {}
  /\ Goto(Display, "next", "idle")
  /\ UNCHANGED <<ownerVars, stats, holder, topic, todo, tickAge, sent, rows,
                 ghostVars, fault>>

EndDisplay ==
  /\ Goto(Display, "idle", "ended")
  /\ phase = "running"
  /\ UNCHANGED <<ownerVars, stats, holder, topic, todo, tickAge, sent, rows,
                 ghostVars, fault>>

DisplayStep ==
  \/ GetBody \/ WriteRow \/ ReturnBody
  \/ \E t \in Topics : TryLock(t) \/ SkipRow(t)

-----------------------------------------------------------------------------
Next ==
  /\ fault = "none"
  /\ \/ OwnerStep
     \/ BeginShutDown
     \/ \E p \in Publishers :
          OnMessagePublished(p) \/ \E t \in Topics : Publish(p, t)
     \/ TickStep
     \/ DisplayStep
     \/ EndDisplay

(* The threads run; when to publish, to end the display and to destroy the *)
(* inspector is the program's choice.  No strong fairness of the mutexes   *)
(* is needed: once all topics are unsubscribed only the callbacks already  *)
(* copied still compete for them.                                          *)
Running(A) == fault = "none" /\ A

Fairness ==
  /\ WF_vars(Running(OwnerStep))
  /\ WF_vars(Running(DisplayStep))
  /\ \A p \in Publishers : WF_vars(Running(OnMessagePublished(p)))
  /\ WF_vars(Running(TickStep))

Spec == Init /\ [][Next]_vars /\ Fairness

-----------------------------------------------------------------------------
(* Types; a mutex is held exactly by a thread that is in its section.      *)
TypeOK ==
  /\ phase \in Phases
  /\ connected \subseteq Topics
  /\ DOMAIN stats \subseteq Topics
  /\ \A t \in DOMAIN stats : stats[t] \in Ages
  /\ initialized \in BOOLEAN
  /\ holder \in [Topics -> Threads \cup {NoBody}]
  /\ pc \in [Threads -> {"none", "idle", "sleep", "call", "next", "locked",
                       "ended"}]
  /\ topic \in [Threads -> Topics \cup {NoTopic}]
  /\ todo \in [{Tick, Display} -> SUBSET Topics]
  /\ rows \subseteq Topics
  /\ \A t \in Topics, th \in Threads :
       holder[t] = th <=> pc[th] = "locked" /\ topic[th] = t

(* While a tick or a getBody walks through m_stats, unprotected as a whole,*)
(* no entry comes or goes.                                                 *)
TablesStable ==
  [][pc[Tick] \in {"next", "locked"} \/ pc[Display] \in {"next", "locked"} =>
       DOMAIN stats' = Topics]_vars

(* From the moment the inspector is constructed until its destructor has   *)
(* unsubscribed and starts to clear, no callback misses its topic and no   *)
(* callback finds the inspector gone.                                      *)
FoundWhileRunning ==
  fault \in {"outOfRange", "useAfterDestroy"} =>
    phase \notin {"startTick", "initialize", "running", "unsubscribe", "join"}

(* The age of a topic counts the ticks since its last message: a tick that *)
(* overlaps a message does not bring back the age before it (and the topic  *)
(* is accessed by the holder of its mutex only).                           *)
AgeCounts ==
  /\ TypeOK
  /\ \A t \in DOMAIN stats :
       holder[t] = NoBody =>
         stats[t] = IF t \in received THEN ticks[t] ELSE NotSeen

(* The destructor returns, however busy the topics are.                    *)
ShutDownEnds == phase = "unsubscribe" ~> phase = "destroyed" \/ fault # "none"
=============================================================================
