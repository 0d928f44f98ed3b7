------------------------------- MODULE SerDes -------------------------------
(***************************************************************************)
(* A message as a row of bytes (dataflow/serdes.cpp): four numbers in the  *)
(* order of the network, then the source and the payload, whose lengths    *)
(* are the last two of the numbers.                                        *)
(*                                                                         *)
(* A byte is 0 .. 255, or Unset where memory holds whatever it held; what  *)
(* is read beyond the end of an array is Unset as well.                    *)
(***************************************************************************)
EXTENDS Integers, Sequences

CONSTANTS
  PrependLength,  (* sPrependLength, the bytes of a number: 4 in the code  *)
  BufferLength    (* sMaxWsaPayloadLength: 1024 in the code                *)

Unset      == -1
Terminator == 0

(* How many numbers so many bytes tell apart.                              *)
Values[n \in 0 .. PrependLength] == IF n = 0 THEN 1 ELSE 256 * Values[n - 1]

Byte   == 0 .. 255
Number == 0 .. Values[PrependLength] - 1

ASSUME SerDesAssumption ==
  /\ PrependLength \in Nat \ {0}
  /\ BufferLength \in Number

Messages ==
  [topicId : Number, userData : Number, source : Seq(Byte), payload : Seq(Byte)]

Read(bytes, from, n) ==
  [i \in 1 .. n |-> IF from + i <= Len(bytes) THEN bytes[from + i] ELSE Unset]

(* The high byte comes first, in the order of the network.                 *)
StoreHostu32(value) ==
  LET shifted[n \in 0 .. PrependLength] ==
        IF n = 0 THEN value ELSE shifted[n - 1] \div 256
  IN  [k \in 1 .. PrependLength |-> shifted[PrependLength - k] % 256]

ReadHostu32(bytes) ==
  LET upTo[n \in 0 .. PrependLength] ==
        IF n = 0 THEN 0 ELSE 256 * upTo[n - 1] + bytes[n]
  IN  upTo[PrependLength]

Numbers(m) ==
  StoreHostu32(m.topicId) \o StoreHostu32(m.userData)
    \o StoreHostu32(Len(m.source)) \o StoreHostu32(Len(m.payload))

(* Mutant: the source is not counted.                                      *)
GetSerializedSizeShort(m) == 4 * PrependLength + Len(m.payload)

GetSerializedSize(m) == 4 * PrependLength + Len(m.source) + Len(m.payload)

(* ... and a byte for a terminator, which is not written there: it is so   *)
(* far from where the payload begins, not from the beginning.              *)
SerializedSize(m) == GetSerializedSize(m) + 1
TerminatorAt(m)   == 4 * PrependLength + Len(m.source) + SerializedSize(m)

(* The sender's array after serializeMessageWsa, in the builds and runs    *)
(* where its assertion does not end the program.                           *)
Serialized(m) ==
  LET bytes == Numbers(m) \o m.source \o m.payload
  IN  [Read(bytes, 0, BufferLength) EXCEPT ![TerminatorAt(m)] = Terminator]

(* Whether the terminator is written inside the array.  The code does not  *)
(* know: it only asserts, where assertions are built in, how far it is to  *)
(* the first zero in an array to which nobody has written.                 *)
Fits(m) == TerminatorAt(m) <= BufferLength

Deserialized(bytes) ==
  LET number == [k \in 1 .. 4 |->
                   ReadHostu32(Read(bytes, (k - 1) * PrependLength, PrependLength))]
      source == 4 * PrependLength
  IN  [topicId  |-> number[1],
       userData |-> number[2],
       source   |-> Read(bytes, source, number[3]),
       payload  |-> Read(bytes, source + number[3], number[4])]
=============================================================================
