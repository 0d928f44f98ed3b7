----------------------------- MODULE EventLoop -----------------------------
(***************************************************************************)
(* stdexio::EventLoop (stdexio/event_loop.h), as the program of            *)
(* tests/test_dataflow_observer_stdexec uses it: a thread reads keys from  *)
(* the moment of construction and spawns their handlers into an async      *)
(* scope, where a pool runs them; the owner adds handlers and a stop key,  *)
(* blocks until the loop is left, and destroys it.                         *)
(*                                                                         *)
(* The maps have no lock: a read during a write is a fault, and a program  *)
(* stops there.  Every handler is added once; a key that nobody registered *)
(* stands for all others, and for the end of the input.  The program that  *)
(* uses the loop is ObserverProgram.                                       *)
(***************************************************************************)
EXTENDS Integers, FiniteSets

CONSTANTS
  HandlerKeys, (* the keys the program adds a handler for                  *)
  StopKey,
  OtherKey,
  MaxKeys      (* bound: keys that are typed                               *)

Keys  == HandlerKeys \cup {StopKey, OtherKey}
NoKey == "none"

ASSUME KeysAssumption ==
  /\ StopKey \notin HandlerKeys /\ OtherKey \notin HandlerKeys \cup {StopKey}
  /\ NoKey \notin Keys
  /\ IsFiniteSet(HandlerKeys)
  /\ MaxKeys \in Nat

VARIABLES
  owner,       (* where the owner is                                       *)
  writing,     (* the key whose entry the owner is inserting               *)
  handlers,    (* the keys of m_eventHandlerMap                            *)
  stopEvents,  (* m_stopEvents                                             *)
  reader,      (* where the key thread is                                  *)
  key,         (* the key it has read                                      *)
  typed,       (* how many it has read (for the bound)                     *)
  pending,     (* spawned into m_scope and not finished, per key           *)
  handled,     (* history: handlers that ran to their end, per key         *)
  fault

tables     == <<handlers, stopEvents>>
readerVars == <<reader, key, typed>>
scopeVars  == <<pending, handled>>
loopVars == <<owner, writing, tables, readerVars, scopeVars, fault>>

LoopInit ==
  /\ owner = "configure"
  /\ writing = NoKey
  /\ handlers = {}
  /\ stopEvents = {}
  /\ reader = "getchar"
  /\ key = NoKey
  /\ typed = 0
  /\ pending = [k \in HandlerKeys |-> 0]
  /\ handled = [k \in HandlerKeys |-> 0]
  /\ fault = "none"

Empty == \A k \in HandlerKeys : pending[k] = 0

-----------------------------------------------------------------------------
(* The owner.                                                              *)

(* addEventHandler, registerStopKey: an insertion takes its time.          *)
BeginInsert(k) ==
  /\ owner = "configure" /\ writing = NoKey
  /\ k \notin handlers \cup stopEvents
  /\ k = StopKey => handlers = HandlerKeys
  /\ writing' = k
  /\ UNCHANGED <<owner, tables, readerVars, scopeVars, fault>>

AddEventHandler ==
  /\ writing \in HandlerKeys
  /\ handlers' = handlers \cup {writing}
  /\ writing' = NoKey
  /\ UNCHANGED <<owner, stopEvents, readerVars, scopeVars, fault>>

RegisterStopKey ==
  /\ writing = StopKey
  /\ stopEvents' = stopEvents \cup {writing}
  /\ writing' = NoKey
  /\ UNCHANGED <<owner, handlers, readerVars, scopeVars, fault>>

(* blockUntilExited: what onThreadFinished returns is complete, so the     *)
(* first wait does not wait; the second one does until the scope is empty. *)
WaitThreadFinished ==
  /\ owner = "configure"
  /\ stopEvents # {}
  /\ owner' = "onEmpty"
  /\ UNCHANGED <<writing, tables, readerVars, scopeVars, fault>>

WaitOnEmpty ==
  /\ owner = "onEmpty"
  /\ Empty
  /\ owner' = "cleanup"
  /\ UNCHANGED <<writing, tables, readerVars, scopeVars, fault>>

Cleanup ==
  /\ owner = "cleanup"
  /\ reader = "ended"
  /\ owner' = "exited"
  /\ UNCHANGED <<writing, tables, readerVars, scopeVars, fault>>

(* ~EventLoop: the thread is joined already, and the members go.  A scope  *)
(* must not be destroyed with work in it.                                  *)
Destroy ==
  /\ owner = "exited"
  /\ IF Empty THEN owner' = "destroyed" /\ UNCHANGED fault
     ELSE fault' = "scope" /\ UNCHANGED owner
  /\ UNCHANGED <<writing, tables, readerVars, scopeVars>>

OwnerStep ==
  \/ \E k \in HandlerKeys \cup {StopKey} : BeginInsert(k)
  \/ AddEventHandler \/ RegisterStopKey
  \/ WaitThreadFinished \/ WaitOnEmpty \/ Cleanup \/ Destroy

-----------------------------------------------------------------------------
(* The key thread.                                                         *)

GetChar(k) ==
  /\ reader = "getchar"
  /\ typed < MaxKeys
  /\ reader' = "stopEvents"
  /\ key' = k
  /\ typed' = typed + 1
  /\ UNCHANGED <<owner, writing, tables, scopeVars, fault>>

(* While no stop key is registered, none is one; the key goes on.          *)
CheckStopEvents ==
  /\ reader = "stopEvents"
  /\ IF writing = StopKey
     THEN fault' = "map" /\ UNCHANGED reader
     ELSE /\ reader' = IF key \in stopEvents THEN "stop" ELSE "handlers"
          /\ UNCHANGED fault
  /\ UNCHANGED <<owner, writing, tables, key, typed, scopeVars>>

(* A handler is copied and spawned.                                        *)
PostEvent ==
  /\ reader = "handlers"
  /\ IF writing \in HandlerKeys
     THEN fault' = "map" /\ UNCHANGED <<reader, pending>>
     ELSE /\ reader' = "getchar"
          /\ pending' = IF key \in handlers THEN [pending EXCEPT ![key] = @ + 1]
                        ELSE pending
          /\ UNCHANGED fault
  /\ UNCHANGED <<owner, writing, tables, key, typed, handled>>

(* The stop sender is complete and leaves the scope as it enters it.       *)
Stop ==
  /\ reader = "stop"
  /\ reader' = "ended"
  /\ UNCHANGED <<owner, writing, tables, key, typed, scopeVars, fault>>

ReaderStep == CheckStopEvents \/ PostEvent \/ Stop

(* A thread of the pool has run a handler, which leaves the scope.         *)
RunHandler(k) ==
  /\ pending[k] > 0
  /\ pending' = [pending EXCEPT ![k] = @ - 1]
  /\ handled' = [handled EXCEPT ![k] = @ + 1]
  /\ UNCHANGED <<owner, writing, tables, readerVars, fault>>

-----------------------------------------------------------------------------
(* Types.                                                                  *)
LoopTypeOK ==
  /\ owner \in {"configure", "onEmpty", "cleanup", "exited", "destroyed"}
  /\ writing \in HandlerKeys \cup {StopKey, NoKey}
  /\ handlers \subseteq HandlerKeys
  /\ stopEvents \subseteq {StopKey}
  /\ reader \in {"getchar", "stopEvents", "handlers", "stop", "ended"}
  /\ key \in Keys \cup {NoKey}
  /\ typed \in 0 .. MaxKeys
  /\ pending \in [HandlerKeys -> 0 .. MaxKeys]
  /\ handled \in [HandlerKeys -> 0 .. MaxKeys]
=============================================================================
