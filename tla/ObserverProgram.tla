--------------------------- MODULE ObserverProgram ---------------------------
(***************************************************************************)
(* The program tests/test_dataflow_observer_stdexec: a PerceptionNode,     *)
(* whose thread pulses from its construction on, receivers on a bus, and   *)
(* an event loop whose handlers publish from the threads of a pool.        *)
(*                                                                         *)
(* The bus is used as TopicBus describes it, and a topic is named by the   *)
(* key that publishes on it.  A weak_ptr that is read while it is assigned *)
(* and a receiver that is called after its destruction are faults.         *)
(***************************************************************************)
EXTENDS EventLoop, Sequences

CONSTANTS
  Programs,  (* each its registered receivers, in the order of construction *)
  Workers,   (* threads of the pool                                         *)
  Hears      (* the topics each receiver subscribes to                      *)

Heartbeat == "heartbeat"
Receivers == DOMAIN Hears
Threads   == Workers \cup {Heartbeat}

ASSUME ProgramAssumption ==
  /\ Programs \subseteq Seq(Receivers)
  /\ Hears \in [Receivers -> SUBSET (HandlerKeys \cup {Heartbeat})]
  /\ Heartbeat \notin Keys \cup Workers \cup {NoKey}
  /\ IsFiniteSet(Workers)

VARIABLES
  receivers,   (* those of the program                                     *)
  main,        (* where main is                                            *)
  built,       (* how many receivers are constructed and not destroyed     *)
  subscribed,  (* those that have a subscription                           *)
  at,          (* where each publishing thread is                          *)
  job,         (* the topic it publishes on                                *)
  toCall,      (* the receivers its message is still to be delivered to    *)
  stopPulse,   (* the pulse thread has been asked to stop                  *)
  shown        (* history: key messages each receiver has got              *)

mainVars     == <<receivers, main, built, subscribed, stopPulse>>
publishVars  == <<at, job, toCall, shown>>
programVars  == <<loopVars, mainVars, publishVars>>

ProgramInit ==
  /\ LoopInit
  /\ receivers \in Programs
  /\ main = "start"
  /\ built = 0
  /\ subscribed = {}
  /\ at = [t \in Threads |-> "idle"]
  /\ job = [t \in Threads |-> IF t = Heartbeat THEN Heartbeat ELSE NoKey]
  /\ toCall = [t \in Threads |-> {}]
  /\ stopPulse = FALSE
  /\ shown = [r \in Receivers |-> 0]

Alive(r) == \E i \in 1 .. built : receivers[i] = r

-----------------------------------------------------------------------------
(* main.                                                                   *)

MainGoto(from, to) ==
  /\ main = from
  /\ main' = to

(* registerMessageBus: the pulsing handle is assigned last.                *)
RegisterMessageBus ==
  /\ MainGoto("start", "assigning") \/ MainGoto("assigning", "build")
  /\ UNCHANGED <<loopVars, receivers, built, subscribed, stopPulse, publishVars>>

Construct ==
  /\ main = "build"
  /\ built < Len(receivers)
  /\ built' = built + 1
  /\ subscribed' = subscribed \cup {receivers[built']}
  /\ UNCHANGED <<loopVars, receivers, main, stopPulse, publishVars>>

(* Mutant: the loop runs before the last receiver is registered.           *)
StartLoopEarly ==
  /\ built = Len(receivers) - 1
  /\ MainGoto("build", "loop")
  /\ UNCHANGED <<loopVars, receivers, built, subscribed, stopPulse, publishVars>>

StartLoop ==
  /\ built = Len(receivers)
  /\ MainGoto("build", "loop")
  /\ UNCHANGED <<loopVars, receivers, built, subscribed, stopPulse, publishVars>>

UseLoop ==
  /\ main = "loop"
  /\ OwnerStep
  /\ UNCHANGED <<mainVars, publishVars>>

(* Mutant: the loop's owner unwinds before the loop.                       *)
LeaveLoopEarly ==
  /\ owner = "onEmpty"
  /\ MainGoto("loop", "unwind")
  /\ UNCHANGED <<loopVars, receivers, built, subscribed, stopPulse, publishVars>>

LeaveLoop ==
  /\ owner = "destroyed"
  /\ MainGoto("loop", "unwind")
  /\ UNCHANGED <<loopVars, receivers, built, subscribed, stopPulse, publishVars>>

(* The receivers are destroyed, the last one first; each unsubscribes.     *)
ReceiverUnsubscribe ==
  /\ main = "unwind" /\ built > 0
  /\ receivers[built] \in subscribed
  /\ subscribed' = subscribed \ {receivers[built]}
  /\ UNCHANGED <<loopVars, receivers, main, built, stopPulse, publishVars>>

Destroyed ==
  /\ main = "unwind" /\ built > 0
  /\ receivers[built] \notin subscribed
  /\ built' = built - 1
  /\ UNCHANGED <<loopVars, receivers, main, subscribed, stopPulse, publishVars>>

(* The bus is released, then ~PerceptionNode asks the pulse thread to stop *)
(* and joins it.                                                           *)
ReleaseBus ==
  /\ built = 0
  /\ MainGoto("unwind", "released")
  /\ UNCHANGED <<loopVars, receivers, built, subscribed, stopPulse, publishVars>>

StopPulseThread ==
  /\ MainGoto("released", "join")
  /\ stopPulse' = TRUE
  /\ UNCHANGED <<loopVars, receivers, built, subscribed, publishVars>>

JoinPulseThread ==
  /\ at[Heartbeat] = "ended"
  /\ MainGoto("join", "returned")
  /\ UNCHANGED <<loopVars, receivers, built, subscribed, stopPulse, publishVars>>

MainStep ==
  \/ RegisterMessageBus \/ Construct \/ StartLoop \/ UseLoop \/ LeaveLoop
  \/ ReceiverUnsubscribe \/ Destroyed \/ ReleaseBus \/ StopPulseThread \/ JoinPulseThread

-----------------------------------------------------------------------------
(* The threads that publish.                                               *)

Goto(t, from, to) ==
  /\ at[t] = from
  /\ at' = [at EXCEPT ![t] = to]

(* A thread in publish holds the bus, and so does main up to its release.  *)
BusExists ==
  main \in {"build", "loop", "unwind"} \/ \E t \in Threads : at[t] \in {"publish", "call"}

(* tryPublish by pulse: nothing without a bus.                             *)
Pulse ==
  /\ at[Heartbeat] = "idle"
  /\ IF main = "assigning" THEN fault' = "handle" /\ UNCHANGED at
     ELSE /\ Goto(Heartbeat, "idle", IF BusExists THEN "publish" ELSE "sleep")
          /\ UNCHANGED fault
  /\ UNCHANGED <<owner, writing, tables, readerVars, scopeVars, mainVars, job,
                 toCall, shown>>

(* Mutant: the stop token is not tested.                                   *)
WakeAlways ==
  /\ Goto(Heartbeat, "sleep", "idle")
  /\ UNCHANGED <<loopVars, mainVars, job, toCall, shown>>

Wake ==
  /\ Goto(Heartbeat, "sleep", IF stopPulse THEN "ended" ELSE "idle")
  /\ UNCHANGED <<loopVars, mainVars, job, toCall, shown>>

(* A thread of the pool takes a handler: createFrameData, createSensorData.*)
TakeHandler(w, k) ==
  /\ Cardinality({v \in Workers : job[v] = k}) < pending[k]
  /\ Goto(w, "idle", "publish")
  /\ job' = [job EXCEPT ![w] = k]
  /\ UNCHANGED <<loopVars, mainVars, toCall, shown>>

(* Bus::publish: the callbacks are copied ...                              *)
CopyCallbacks(t) ==
  /\ Goto(t, "publish", "call")
  /\ toCall' = [toCall EXCEPT ![t] = {r \in subscribed : job[t] \in Hears[r]}]
  /\ UNCHANGED <<loopVars, mainVars, job, shown>>

(* ... and called.                                                         *)
Receive(t, r) ==
  /\ at[t] = "call"
  /\ r \in toCall[t]
  /\ IF Alive(r)
     THEN /\ toCall' = [toCall EXCEPT ![t] = @ \ {r}]
          /\ shown' = [shown EXCEPT ![r] = IF t = Heartbeat THEN @ ELSE @ + 1]
          /\ UNCHANGED fault
     ELSE fault' = "dangling" /\ UNCHANGED <<toCall, shown>>
  /\ UNCHANGED <<owner, writing, tables, readerVars, scopeVars, mainVars, at, job>>

EndPulse ==
  /\ toCall[Heartbeat] = {}
  /\ Goto(Heartbeat, "call", "sleep")
  /\ UNCHANGED <<loopVars, mainVars, job, toCall, shown>>

EndHandler(w) ==
  /\ toCall[w] = {}
  /\ Goto(w, "call", "idle")
  /\ RunHandler(job[w])
  /\ job' = [job EXCEPT ![w] = NoKey]
  /\ UNCHANGED <<mainVars, toCall, shown>>

PulseStep ==
  \/ Pulse \/ Wake \/ CopyCallbacks(Heartbeat) \/ EndPulse
  \/ \E r \in Receivers : Receive(Heartbeat, r)

WorkerStep(w) ==
  \/ \E k \in HandlerKeys : TakeHandler(w, k)
  \/ CopyCallbacks(w) \/ EndHandler(w)
  \/ \E r \in Receivers : Receive(w, r)

KeyStep == main = "loop" /\ ReaderStep /\ UNCHANGED <<mainVars, publishVars>>

Type(k) == main = "loop" /\ GetChar(k) /\ UNCHANGED <<mainVars, publishVars>>

ProgramNext ==
  /\ fault = "none"
  /\ \/ MainStep \/ PulseStep \/ KeyStep
     \/ \E w \in Workers : WorkerStep(w)
     \/ \E k \in Keys : Type(k)

(* main, the key thread, the pulse thread and the pool run; nobody has to  *)
(* type.                                                                   *)
Running(A) == fault = "none" /\ A

Fairness ==
  /\ WF_programVars(Running(MainStep))
  /\ WF_programVars(Running(KeyStep))
  /\ WF_programVars(Running(PulseStep))
  /\ \A w \in Workers : WF_programVars(Running(WorkerStep(w)))

ProgramSpec == ProgramInit /\ [][ProgramNext]_programVars /\ Fairness

-----------------------------------------------------------------------------
(* Types, and no handler of the loop ever finds a receiver destroyed: the  *)
(* loop goes first, and not with a handler in its scope.  Only the pulse   *)
(* thread, which outlives the receivers, can be late with a message.       *)
CalledWhileAlive ==
  /\ LoopTypeOK
  /\ main \in {"start", "assigning", "build", "loop", "unwind", "released",
               "join", "returned"}
  /\ built \in 0 .. Len(receivers)
  /\ subscribed \subseteq Receivers
  /\ fault \in {"none", "handle", "map", "scope", "dangling"}
  /\ at \in [Threads -> {"idle", "publish", "call", "sleep", "ended"}]
  /\ \A w \in Workers : \A r \in toCall[w] : Alive(r)
  /\ fault = "dangling" => main # "loop" /\ \E r \in toCall[Heartbeat] : ~Alive(r)

(* Every key whose handler was registered when it was read has reached     *)
(* each receiver of its topic exactly once when the program unwinds, on    *)
(* whatever threads, and however many, its handlers ran.                   *)
EveryKeyShown ==
  main \in {"unwind", "released", "join", "returned"} =>
    \A i \in 1 .. Len(receivers) :
      LET heard == Hears[receivers[i]] \cap HandlerKeys
          spawned[K \in SUBSET heard] ==
            IF K = {} THEN 0
            ELSE LET k == CHOOSE x \in K : TRUE
                 IN  handled[k] + pending[k] + spawned[K \ {k}]
      IN  shown[receivers[i]] = spawned[heard]

(* A stop key that is read after its registration ends the program, what-  *)
(* ever was typed before and however long handlers and pulses take; unless *)
(* a handler spawned behind blockUntilExited's back is still in the scope, *)
(* or a late pulse finds its receiver destroyed.                           *)
StopKeyEnds ==
  reader = "stopEvents" /\ key = StopKey /\ StopKey \in stopEvents
    ~> main = "returned" \/ fault \in {"scope", "dangling"}
=============================================================================
