----------------------------- MODULE WsaFraming -----------------------------
(***************************************************************************)
(* Message frames over a byte stream (wsanet/wsa_common.h): some threads   *)
(* send frames on one socket, in as many send() calls as it takes, each    *)
(* under the socket's mutex; one thread receives them at the other end.    *)
(* The mutex is not held between the calls, so the frames of two threads   *)
(* keep apart only where one call takes a whole frame: a send() takes a    *)
(* part in the behaviours of a single sender, and all it is given in those *)
(* of several.                                                             *)
(*                                                                         *)
(* A byte is the frame it belongs to and its position there; what it holds *)
(* is a matter of SerDes, as the frames are those of messages on their way *)
(* from a client to the server, which sends them on to every client.       *)
(* Counts are int and compared with unsigned lengths, as in the code.      *)
(*                                                                         *)
(* Where the code goes beyond an array the model may stop with "overrun",  *)
(* or go on as the program does when nothing comes of it.                  *)
(***************************************************************************)
EXTENDS SerDes, SequencesExt, FiniteSets

CONSTANTS
  Senders,        (* the threads that may send                             *)
  MaxFrames,      (* frames each of them sends                             *)
  Message(_),     (* the message in a frame                                *)
  BroadcastLength, (* how much of a message the server sends on: 1024      *)
  Capacity,       (* how many bytes the connection holds                   *)
  MaxInterrupts   (* bound: calls that fail with an error that is not      *)
                  (* fatal (WSAEINTR, WSAENOBUFS)                          *)

Frames == {<<s, k>> : s \in Senders, k \in 1 .. MaxFrames}
PayloadSize(f) == SerializedSize(Message(f)) + 1
FullSize(f) == PayloadSize(f) + PrependLength
Bytes == [frame : Frames, pos : Nat \ {0}]

ASSUME FramingAssumption ==
  /\ IsFiniteSet(Senders)
  /\ MaxFrames \in Nat
  /\ {BroadcastLength, Capacity} \subseteq Nat
  /\ \A f \in Frames :
       /\ Message(f) \in Messages
       /\ Fits(Message(f)) => /\ SerializedSize(Message(f)) <= BroadcastLength
                              /\ FullSize(f) <= Capacity
  /\ MaxInterrupts \in Nat

VARIABLES
  users,     (* the threads that do send                                   *)
  current,   (* the frame each sender is sending                           *)
  sentCount, (* sentByteCount                                              *)
  reported,  (* history: the frames whose send returned WSACS_OK           *)
  written,   (* history: the bytes that send() has taken                   *)
  stream,    (* the bytes in the connection                                *)
  reading,   (* what the receiver reads: the prepend or the payload        *)
  length,    (* its length, messageLength                                  *)
  recvCount, (* recvdByteCount                                             *)
  buffer,    (* the bytes received into the message                        *)
  delivered, (* the payloads handed to onMessageReceived                   *)
  interrupts, (* how many calls failed without a fatal error               *)
  overrun    (* who went beyond the end of an array: "none", "serialize"   *)
             (* or "broadcast"                                             *)

senderVars   == <<users, current, sentCount, reported, written>>
receiverVars == <<reading, length, recvCount, buffer, delivered>>
framingVars == <<senderVars, stream, receiverVars, interrupts, overrun>>

FramingInit ==
  /\ users \in (SUBSET Senders) \ {{}}
  /\ current = [s \in Senders |-> 1]
  /\ sentCount = [s \in Senders |-> 0]
  /\ reported = {}
  /\ written = {}
  /\ stream = <<>>
  /\ reading = "prepend"
  /\ length = PrependLength
  /\ recvCount = 0
  /\ buffer = <<>>
  /\ delivered = <<>>
  /\ interrupts = 0
  /\ overrun = "none"

(* count < size, with count converted to unsigned.                         *)
Below(count, size) == 0 <= count /\ count < size

(* The frame sendMessageFrame makes of so many bytes.                      *)
Framed(bytes, size) ==
  StoreHostu32(size + 1) \o Read(bytes, 0, size) \o <<Terminator>>

Slice(f, from, n) == [i \in 1 .. n |-> [frame |-> f, pos |-> from + i]]

-----------------------------------------------------------------------------
(* sendMessage, one call of send() after the other.                        *)

(* How many of the bytes it is given a send() may take.                    *)
Takes(given) == IF Cardinality(users) = 1 THEN 1 .. given ELSE {given}

(* Mutant: the loop ends one byte early.                                   *)
SentEarly(s, count) ==
  IF Below(count + 1, FullSize(<<s, current[s]>>))
  THEN /\ sentCount' = [sentCount EXCEPT ![s] = count]
       /\ UNCHANGED <<current, reported>>
  ELSE /\ sentCount' = [sentCount EXCEPT ![s] = 0]
       /\ current' = [current EXCEPT ![s] = @ + 1]
       /\ reported' = reported \cup {<<s, current[s]>>}

(* The loop's condition, and what sendMessageFrame's caller does then.     *)
Sent(s, count) ==
  IF Below(count, FullSize(<<s, current[s]>>))
  THEN /\ sentCount' = [sentCount EXCEPT ![s] = count]
       /\ UNCHANGED <<current, reported>>
  ELSE /\ sentCount' = [sentCount EXCEPT ![s] = 0]
       /\ current' = [current EXCEPT ![s] = @ + 1]
       /\ reported' = reported \cup {<<s, current[s]>>}

(* serializeMessageWsa, before the first call: strlen reads the array the  *)
(* caller never wrote, in the builds that assert; and where the message    *)
(* does not fit, the terminator is written behind the array.               *)
SerializeFails(s) ==
  /\ current[s] <= MaxFrames
  /\ \A b \in written : b.frame # <<s, current[s]>>
  /\ overrun' = "serialize"
  /\ UNCHANGED <<senderVars, stream, receiverVars, interrupts>>

Serializes(s) == current[s] <= MaxFrames /\ Fits(Message(<<s, current[s]>>))

(* Mutant: a further call starts at the beginning of the message.          *)
SendFromStart(s) ==
  LET f == <<s, current[s]>>
      rest == FullSize(f) - sentCount[s]
  IN  /\ Serializes(s)
      /\ \E n \in Takes(rest) :
           /\ Len(stream) + n <= Capacity
           /\ stream' = stream \o Slice(f, 0, n)
           /\ written' = written \cup ToSet(Slice(f, 0, n))
           /\ Sent(s, sentCount[s] + n)
      /\ UNCHANGED <<users, receiverVars, interrupts, overrun>>

Send(s) ==
  LET f == <<s, current[s]>>
      rest == FullSize(f) - sentCount[s]
  IN  /\ Serializes(s)
      /\ \E n \in Takes(rest) :
           /\ Len(stream) + n <= Capacity
           /\ stream' = stream \o Slice(f, sentCount[s], n)
           /\ written' = written \cup ToSet(Slice(f, sentCount[s], n))
           /\ Sent(s, sentCount[s] + n)
      /\ UNCHANGED <<users, receiverVars, interrupts, overrun>>

(* send() returns -1, which is added to the count all the same.            *)
SendInterrupted(s) ==
  /\ interrupts < MaxInterrupts
  /\ interrupts' = interrupts + 1
  /\ Serializes(s)
  /\ Sent(s, sentCount[s] - 1)
  /\ UNCHANGED <<users, written, stream, receiverVars, overrun>>

-----------------------------------------------------------------------------
(* getMessageFrame: readMessage for the prepend, then for the payload.     *)

(* readHostu32: the length the prepend holds, or another if it is not the  *)
(* prepend of a frame, where any number of so many bits may be read: the   *)
(* lengths of the frames stand for them.                                   *)
Lengths(bytes) ==
  LET f == bytes[1].frame
  IN  IF bytes = Slice(f, 0, PrependLength) THEN {PayloadSize(f)}
      ELSE {PayloadSize(g) : g \in Frames}

(* onMessageReceived of the server copies so much of the message, however  *)
(* short it is.                                                            *)
BroadcastEnds == IF length < BroadcastLength THEN {"none", "broadcast"} ELSE {"none"}

(* The loop's condition, and what comes after it.                          *)
Received(count, bytes) ==
  IF Below(count, length)
  THEN /\ recvCount' = count
       /\ buffer' = bytes
       /\ UNCHANGED <<reading, length, delivered, overrun>>
  ELSE /\ recvCount' = 0
       /\ buffer' = <<>>
       /\ IF reading = "prepend"
          THEN /\ reading' = "payload"
               /\ length' \in IF bytes = <<>>
                              THEN {PayloadSize(g) : g \in Frames}
                              ELSE Lengths(bytes)
               /\ UNCHANGED <<delivered, overrun>>
          ELSE /\ reading' = "prepend"
               /\ length' = PrependLength
               /\ delivered' = Append(delivered, bytes)
               /\ overrun' \in BroadcastEnds

(* Mutant: recv() is asked for the whole length again.                     *)
RecvWhole ==
  \E n \in 1 .. (IF Len(stream) < length THEN Len(stream) ELSE length) :
    /\ stream' = SubSeq(stream, n + 1, Len(stream))
    /\ Received(recvCount + n, buffer \o SubSeq(stream, 1, n))
    /\ UNCHANGED <<senderVars, interrupts>>

(* recv() blocks until there is a byte, and takes what there is or less.   *)
RecvBytes ==
  LET rest == length - recvCount
  IN  \E n \in 1 .. (IF Len(stream) < rest THEN Len(stream) ELSE rest) :
        /\ stream' = SubSeq(stream, n + 1, Len(stream))
        /\ Received(recvCount + n, buffer \o SubSeq(stream, 1, n))
        /\ UNCHANGED <<senderVars, interrupts>>

(* recv() returns -1; the next call overwrites the last byte received.     *)
RecvInterrupted ==
  /\ interrupts < MaxInterrupts
  /\ interrupts' = interrupts + 1
  /\ Received(recvCount - 1, IF buffer = <<>> THEN <<>> ELSE Front(buffer))
  /\ UNCHANGED <<senderVars, stream>>

FramingNext ==
  /\ overrun = "none"
  /\ \/ \E s \in users : Send(s) \/ SerializeFails(s) \/ SendInterrupted(s)
     \/ RecvBytes
     \/ RecvInterrupted

(* A send() goes on when there is room, a recv() when there are bytes.     *)
FramingFairness ==
  /\ \A s \in Senders :
       WF_framingVars(overrun = "none" /\ s \in users /\ (Send(s) \/ SerializeFails(s)))
  /\ WF_framingVars(overrun = "none" /\ RecvBytes)

FramingSpec == FramingInit /\ [][FramingNext]_framingVars /\ FramingFairness

-----------------------------------------------------------------------------
Payload(f) == Slice(f, PrependLength, PayloadSize(f))

(* Types; the connection never holds more than it can.                     *)
FramingTypeOK ==
  /\ users \subseteq Senders
  /\ current \in [Senders -> 1 .. MaxFrames + 1]
  /\ sentCount \in [Senders -> Nat]
  /\ reported \subseteq Frames
  /\ written \subseteq Bytes
  /\ stream \in Seq(Bytes)
  /\ Len(stream) <= Capacity
  /\ reading \in {"prepend", "payload"}
  /\ length \in Nat
  /\ recvCount = Len(buffer)
  /\ delivered \in Seq(Seq(Bytes))
  /\ overrun \in {"none", "serialize", "broadcast"}

(* However the stream is cut into calls, what the handler gets are the     *)
(* payloads that were sent, whole, without their lengths, none twice, each *)
(* sender's in order; as long as no call was interrupted.                  *)
FramesIntact ==
  /\ FramingTypeOK
  /\ interrupts = 0 =>
       \A k \in 1 .. Len(delivered) : \E f \in Frames :
         /\ delivered[k] = Payload(f)
         /\ f[2] = Cardinality({j \in 1 .. k : delivered[j][1].frame[1] = f[1]})

Content(bytes) ==
  [i \in DOMAIN bytes |->
     LET m == Message(bytes[i].frame)
     IN  Framed(Serialized(m), SerializedSize(m))[bytes[i].pos]]

(* broadcastClientMessage of ServerHandler: so much of what was received,  *)
(* however long it is; it is the payload the other clients receive.        *)
Broadcasted(bytes) ==
  Read(Framed(bytes, BroadcastLength), PrependLength, BroadcastLength + 1)

(* The message that the server gets, and every client from the server, is  *)
(* the one that was sent, though its size is not the one of the frame and  *)
(* a byte of it is never written; where a process has survived reading     *)
(* beyond its arrays, the bytes found there are no part of any message.    *)
MessagesArrive ==
  interrupts = 0 =>
    \A k \in 1 .. Len(delivered) :
      LET received == Content(delivered[k])
          m        == Message(delivered[k][1].frame)
      IN  /\ Deserialized(received) = m
          /\ Deserialized(Broadcasted(received)) = m

(* Every frame arrives: nobody waits for a byte or for room that will not  *)
(* come, unless a call was interrupted or a process went beyond an array.  *)
AllDelivered ==
  <>(\/ Len(delivered) = Cardinality(users) * MaxFrames
     \/ interrupts > 0 \/ overrun # "none")

(* A message is reported as queued (onMessageQueued) when all of its frame *)
(* has been given to the socket; a call that is interrupted, whose -1 ends *)
(* the loop of a frame not begun, costs no more than that one frame.       *)
QueuedIsSent ==
  Cardinality({f \in reported : ~(ToSet(Slice(f, 0, FullSize(f))) \subseteq written)})
    <= interrupts
=============================================================================
