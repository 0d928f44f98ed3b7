------------------------------ MODULE TopicBus ------------------------------
(***************************************************************************)
(* What the message bus promises, without its tables: a set of subscribed  *)
(* handles; a publish that fixes, at one instant, the handles it will      *)
(* call, and then calls each of them exactly once, in any order.           *)
(***************************************************************************)
EXTENDS Naturals

CONSTANTS
  Topics,      (* the topics of the bus                                    *)
  Handles,     (* the owners of callbacks                                  *)
  TopicOf,     (* the topic a handle subscribes to                         *)
  Publishers   (* the threads that publish                                 *)

VARIABLES
  subscribed,  (* the handles that hold a subscription                     *)
  toCall,      (* what each publish in progress has still to call          *)
  received     (* how often the callback of each handle has run            *)

vars == <<subscribed, toCall, received>>

Init ==
  /\ subscribed = {}
  /\ toCall = [p \in Publishers |-> {}]
  /\ received = [h \in Handles |-> 0]

Subscribe(h) ==
  /\ h \notin subscribed
  /\ subscribed' = subscribed \cup {h}
  /\ UNCHANGED <<toCall, received>>

Unsubscribe(h) ==
  /\ h \in subscribed
  /\ subscribed' = subscribed \ {h}
  /\ UNCHANGED <<toCall, received>>

(* The audience of a message is decided once: all present subscribers.     *)
Publish(p, t) ==
  /\ toCall[p] = {}
  /\ toCall' = [toCall EXCEPT ![p] = {h \in subscribed : TopicOf[h] = t}]
  /\ UNCHANGED <<subscribed, received>>

(* One callback; it runs even if its handle unsubscribed meanwhile.        *)
Call(p, h) ==
  /\ h \in toCall[p]
  /\ toCall' = [toCall EXCEPT ![p] = @ \ {h}]
  /\ received' = [received EXCEPT ![h] = @ + 1]
  /\ UNCHANGED subscribed

Next ==
  \/ \E h \in Handles : Subscribe(h) \/ Unsubscribe(h)
  \/ \E p \in Publishers :
       \/ \E t \in Topics : Publish(p, t)
       \/ \E h \in Handles : Call(p, h)

Spec == Init /\ [][Next]_vars
=============================================================================
