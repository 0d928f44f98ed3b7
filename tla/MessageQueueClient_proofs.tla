---------------------- MODULE MessageQueueClient_proofs ----------------------
(***************************************************************************)
(* Proofs about MessageQueueClient for any number of messages and any      *)
(* growth of the vector that leaves room for what it holds, and about the  *)
(* program around the queue for any producers and number of frames.        *)
(***************************************************************************)
EXTENDS MessageQueueClient, ConsumerProducer, SequenceTheorems,
        FiniteSetTheorems, TLAPS

Vector   == queue.messages
Overflow == queue.overflowMessages
Capacity == queue.capacity
Start    == queue.activeMessageStart
Active   == queue.messageCount

Queues ==
  [messages : Seq(Nat), capacity : Nat, overflowMessages : Seq(Nat),
   activeMessageStart : Nat, messageCount : Nat]

(* The parts of the inductive invariant.                                   *)

Shapes ==
  /\ queue \in Queues
  /\ sent \in Nat /\ sent <= MaxMessages
  /\ committed \subseteq 1 .. sent
  /\ taken \in Seq(Nat)
  /\ clearedPending \in BOOLEAN

Window == Start <= Active /\ Active <= Len(Vector) /\ Len(Vector) <= Capacity

Distinct(s) == \A j, k \in 1 .. Len(s) : s[j] = s[k] => j = k

(* A message is in one place of the two vectors or has been deleted.       *)
Owned ==
  /\ Distinct(Vector) /\ Distinct(Overflow)
  /\ Elements(Vector) \cap Elements(Overflow) = {}
  /\ Elements(Vector) \cup Elements(Overflow) \subseteq 1 .. sent
  /\ deleted = [m \in Messages |->
                  IF /\ m <= sent
                     /\ m \notin Elements(Vector) \cup Elements(Overflow)
                  THEN 1 ELSE 0]

(* What was taken and is not deleted is the inactive part of the vector.   *)
Returned ==
  /\ Distinct(taken)
  /\ Elements(taken) \subseteq 1 .. sent
  /\ Elements(taken) \cap Elements(Overflow) = {}
  /\ \A j \in 1 .. Len(Vector) : Vector[j] \in Elements(taken) <=> j <= Start

Increasing(s) == \A j, k \in 1 .. Len(s) : j < k => s[j] < s[k]

(* Without a clear that overtakes a commit the vectors are in the order of *)
(* sending, one after the other, and what was taken came before.           *)
InOrder ==
  ~clearedPending =>
    /\ Increasing(Vector) /\ Increasing(Overflow) /\ Increasing(taken)
    /\ \A m \in Elements(Vector) \cup Elements(taken) :
         \A o \in Elements(Overflow) : m < o
    /\ Overflow # <<>> => Len(Vector) = Capacity
    /\ \A k \in 1 .. Active : Vector[k] \in committed
    /\ Elements(taken) \subseteq committed
    /\ \A m \in Elements(taken), k \in Start + 1 .. Len(Vector) : m < Vector[k]

IInv == Shapes /\ Window /\ Owned /\ Returned /\ InOrder

-----------------------------------------------------------------------------
(* A message occurs as often as it should: once, if nothing occurs twice.  *)
LEMMA CountDistinct ==
  ASSUME NEW s \in Seq(Nat), Distinct(s), NEW m
  PROVE  Cardinality({k \in 1 .. Len(s) : s[k] = m})
           = IF m \in Elements(s) THEN 1 ELSE 0
<1>1. CASE m \in Elements(s)
  <2>1. PICK i \in 1 .. Len(s) : s[i] = m
    BY <1>1 DEF Elements
  <2>2. {k \in 1 .. Len(s) : s[k] = m} = {i}
    BY <2>1 DEF Distinct
  <2> QED BY <1>1, <2>2, FS_Singleton
<1>2. CASE m \notin Elements(s)
  <2>1. {k \in 1 .. Len(s) : s[k] = m} = {}
    BY <1>2 DEF Elements
  <2> QED BY <1>2, <2>1, FS_EmptySet
<1> QED BY <1>1, <1>2

(* The elements of a sequence in which none occurs twice.                  *)
LEMMA ElementsOfDistinct ==
  ASSUME NEW s \in Seq(Nat), Distinct(s)
  PROVE  Cardinality(Elements(s)) = Len(s)
<1>1. s \in Surjection(1 .. Len(s), Elements(s))
  BY LenProperties DEF Surjection, Elements
<1>2. s \in Injection(1 .. Len(s), Elements(s))
  BY <1>1, LenProperties DEF Surjection, Injection, IsInjective, Distinct
<1>3. Len(s) \in Nat
  BY LenProperties
<1>4. IsFiniteSet(1 .. Len(s)) /\ Cardinality(1 .. Len(s)) = Len(s)
  <2>1. 1 \in Int /\ Len(s) \in Int
    BY <1>3
  <2>2. /\ IsFiniteSet(1 .. Len(s))
        /\ Cardinality(1 .. Len(s)) = IF 1 > Len(s) THEN 0 ELSE Len(s) - 1 + 1
    BY <2>1, FS_Interval
  <2> QED BY <1>3, <2>2
<1> QED BY <1>1, <1>2, <1>4, FS_Surjection

(* Where the messages of two vectors are, one after the other.             *)
LEMMA Concatenated ==
  ASSUME NEW s \in Seq(Nat), NEW t \in Seq(Nat)
  PROVE  /\ s \o t \in Seq(Nat)
         /\ Len(s \o t) = Len(s) + Len(t)
         /\ Len(s) \in Nat /\ Len(t) \in Nat
         /\ \A i \in 1 .. Len(s) :
              i \in 1 .. Len(s \o t) /\ (s \o t)[i] = s[i]
         /\ \A i \in 1 .. Len(t) :
              i + Len(s) \in 1 .. Len(s \o t) /\ (s \o t)[i + Len(s)] = t[i]
         /\ \A i \in 1 .. Len(s \o t) :
              \/ i \in 1 .. Len(s) /\ (s \o t)[i] = s[i]
              \/ /\ i > Len(s) /\ i - Len(s) \in 1 .. Len(t)
                 /\ (s \o t)[i] = t[i - Len(s)]
<1> DEFINE u == s \o t
<1>1. /\ u \in Seq(Nat) /\ Len(u) = Len(s) + Len(t)
      /\ \A i \in 1 .. Len(s) + Len(t) :
           u[i] = IF i <= Len(s) THEN s[i] ELSE t[i - Len(s)]
  BY ConcatProperties
<1>2. Len(s) \in Nat /\ Len(t) \in Nat
  BY LenProperties
<1> HIDE DEF u
<1>3. ASSUME NEW i \in 1 .. Len(s)
      PROVE  i \in 1 .. Len(u) /\ u[i] = s[i]
  <2>1. i \in 1 .. Len(s) + Len(t) /\ i <= Len(s)
    BY <1>2
  <2> QED BY <1>1, <2>1
<1>4. ASSUME NEW i \in 1 .. Len(u), i > Len(s)
      PROVE  i - Len(s) \in 1 .. Len(t) /\ u[i] = t[i - Len(s)]
  <2>1. i \in 1 .. Len(s) + Len(t)
    BY <1>1
  <2>2. i - Len(s) \in 1 .. Len(t) /\ ~(i <= Len(s))
    BY <1>2, <1>4, <2>1
  <2> QED BY <1>1, <2>1, <2>2
<1>5. ASSUME NEW i \in 1 .. Len(t)
      PROVE  i + Len(s) \in 1 .. Len(u) /\ u[i + Len(s)] = t[i]
  <2> DEFINE n == i + Len(s)
  <2>1. n \in 1 .. Len(s) + Len(t) /\ n > Len(s) /\ n - Len(s) = i
    BY <1>2
  <2> HIDE DEF n
  <2>2. n \in 1 .. Len(u)
    BY <1>1, <2>1
  <2>3. u[n] = t[n - Len(s)]
    BY <1>4, <2>1, <2>2
  <2> QED BY <2>1, <2>2, <2>3 DEF n
<1>6. ASSUME NEW i \in 1 .. Len(u)
      PROVE  i \in 1 .. Len(s) \/ i > Len(s)
  BY <1>1, <1>2
<1> QED BY <1>1, <1>2, <1>3, <1>4, <1>5, <1>6 DEF u

(* No message occurs twice, and none is lost or added.                     *)
LEMMA Joined ==
  ASSUME NEW s \in Seq(Nat), NEW t \in Seq(Nat), Distinct(s), Distinct(t),
         Elements(s) \cap Elements(t) = {}
  PROVE  /\ s \o t \in Seq(Nat)
         /\ Distinct(s \o t)
         /\ Elements(s \o t) = Elements(s) \cup Elements(t)
<1> DEFINE u == s \o t
<1>1. /\ u \in Seq(Nat) /\ Len(s) \in Nat /\ Len(t) \in Nat
      /\ \A i \in 1 .. Len(s) : i \in 1 .. Len(u) /\ u[i] = s[i]
      /\ \A i \in 1 .. Len(t) :
           i + Len(s) \in 1 .. Len(u) /\ u[i + Len(s)] = t[i]
      /\ \A i \in 1 .. Len(u) :
           \/ i \in 1 .. Len(s) /\ u[i] = s[i]
           \/ /\ i > Len(s) /\ i - Len(s) \in 1 .. Len(t)
              /\ u[i] = t[i - Len(s)]
  BY Concatenated
<1>2. \A j \in 1 .. Len(s), k \in 1 .. Len(t) : s[j] # t[k]
  BY DEF Elements
<1> HIDE DEF u
<1>3. Distinct(u)
  <2> SUFFICES ASSUME NEW j \in 1 .. Len(u), NEW k \in 1 .. Len(u), u[j] = u[k]
               PROVE  j = k
    BY DEF Distinct
  <2>1. CASE j \in 1 .. Len(s) /\ u[j] = s[j]
    <3>1. CASE k \in 1 .. Len(s) /\ u[k] = s[k]
      BY <2>1, <3>1 DEF Distinct
    <3>2. CASE k - Len(s) \in 1 .. Len(t) /\ u[k] = t[k - Len(s)]
      BY <1>2, <2>1, <3>2
    <3> QED BY <1>1, <3>1, <3>2
  <2>2. CASE j - Len(s) \in 1 .. Len(t) /\ u[j] = t[j - Len(s)]
    <3>1. CASE k \in 1 .. Len(s) /\ u[k] = s[k]
      BY <1>2, <2>2, <3>1
    <3>2. CASE k - Len(s) \in 1 .. Len(t) /\ u[k] = t[k - Len(s)]
      <4>1. j - Len(s) = k - Len(s)
        BY <2>2, <3>2 DEF Distinct
      <4>2. j \in Int /\ k \in Int
        OBVIOUS
      <4> QED BY <1>1, <4>1, <4>2
    <3> QED BY <1>1, <3>1, <3>2
  <2> QED BY <1>1, <2>1, <2>2
<1>4. Elements(u) \subseteq Elements(s) \cup Elements(t)
  <2> SUFFICES ASSUME NEW i \in 1 .. Len(u)
               PROVE  u[i] \in Elements(s) \cup Elements(t)
    BY DEF Elements
  <2>1. CASE i \in 1 .. Len(s) /\ u[i] = s[i]
    BY <2>1 DEF Elements
  <2>2. CASE i - Len(s) \in 1 .. Len(t) /\ u[i] = t[i - Len(s)]
    BY <2>2 DEF Elements
  <2> QED BY <1>1, <2>1, <2>2
<1>5. Elements(s) \subseteq Elements(u)
  BY <1>1 DEF Elements
<1>6. Elements(t) \subseteq Elements(u)
  <2> SUFFICES ASSUME NEW i \in 1 .. Len(t) PROVE t[i] \in Elements(u)
    BY DEF Elements
  <2>1. i + Len(s) \in 1 .. Len(u) /\ u[i + Len(s)] = t[i]
    BY <1>1
  <2> QED BY <2>1 DEF Elements
<1>7. Elements(u) = Elements(s) \cup Elements(t)
  BY <1>4, <1>5, <1>6
<1> QED BY <1>1, <1>3, <1>7 DEF u

(* A vector to which a new message is appended.                            *)
LEMMA Appended ==
  ASSUME NEW s \in Seq(Nat), NEW e \in Nat, Distinct(s), e \notin Elements(s)
  PROVE  /\ Append(s, e) \in Seq(Nat)
         /\ Distinct(Append(s, e))
         /\ Elements(Append(s, e)) = Elements(s) \cup {e}
<1> DEFINE u == Append(s, e)
<1>1. /\ u \in Seq(Nat) /\ Len(u) = Len(s) + 1
      /\ \A i \in 1 .. Len(s) : u[i] = s[i]
      /\ u[Len(s) + 1] = e
  BY AppendProperties
<1>2. Len(s) \in Nat
  BY LenProperties
<1> HIDE DEF u
<1>3. \A i \in 1 .. Len(u) : i \in 1 .. Len(s) \/ i = Len(s) + 1
  BY <1>1, <1>2
<1>4. Distinct(u)
  BY <1>1, <1>2, <1>3 DEF Distinct, Elements
<1>5. Elements(u) \subseteq Elements(s) \cup {e}
  BY <1>1, <1>3 DEF Elements
<1>6. Elements(s) \subseteq Elements(u) /\ e \in Elements(u)
  <2>1. 1 .. Len(s) \subseteq 1 .. Len(u) /\ Len(s) + 1 \in 1 .. Len(u)
    BY <1>1, <1>2
  <2> QED BY <1>1, <2>1 DEF Elements
<1> QED BY <1>1, <1>4, <1>5, <1>6 DEF u

(* A vector from which its first n messages are erased.                    *)
LEMMA Erased ==
  ASSUME NEW s \in Seq(Nat), Distinct(s), NEW n \in Nat, n <= Len(s),
         NEW r \in Seq(Nat), Len(r) = Len(s) - n,
         \A k \in 1 .. Len(s) - n : r[k] = s[k + n]
  PROVE  /\ SubSeq(s, 1, n) \in Seq(Nat)
         /\ Distinct(SubSeq(s, 1, n)) /\ Distinct(r)
         /\ Elements(SubSeq(s, 1, n)) = {s[k] : k \in 1 .. n}
         /\ Elements(r) = Elements(s) \ {s[k] : k \in 1 .. n}
<1> DEFINE f == SubSeq(s, 1, n)
<1>1. Len(s) \in Nat /\ 1 .. n \subseteq 1 .. Len(s)
  BY LenProperties
<1>2. f \in Seq(Nat) /\ Len(f) = n /\ \A k \in 1 .. n : f[k] = s[k]
  <2>1. \A k \in 1 .. n : s[k] \in Nat
    BY <1>1, ElementOfSeq
  <2>2. 1 \in Int /\ n \in Int
    OBVIOUS
  <2>3. /\ f \in Seq(Nat) /\ Len(f) = IF 1 <= n THEN n - 1 + 1 ELSE 0
        /\ \A i \in 1 .. n - 1 + 1 : f[i] = s[1 + i - 1]
    BY <2>1, <2>2, SubSeqProperties
  <2> HIDE DEF f
  <2>4. Len(f) = n
    BY <2>3
  <2>5. ASSUME NEW k \in 1 .. n PROVE f[k] = s[k]
    <3>1. k \in 1 .. n - 1 + 1 /\ 1 + k - 1 = k
      OBVIOUS
    <3> QED BY <2>3, <3>1
  <2> QED BY <2>3, <2>4, <2>5
<1> HIDE DEF f
<1>3. Distinct(f)
  BY <1>1, <1>2 DEF Distinct
<1>4. Elements(f) = {s[k] : k \in 1 .. n}
  <2>1. \A m : m \in Elements(f) <=> \E k \in 1 .. n : f[k] = m
    BY <1>2 DEF Elements
  <2>2. \A m : m \in Elements(f) <=> \E k \in 1 .. n : s[k] = m
    BY <1>2, <2>1
  <2> QED BY <2>2
<1>5. \A k \in 1 .. Len(r) : k + n \in 1 .. Len(s) /\ r[k] = s[k + n]
  BY <1>1
<1>6. Distinct(r)
  <2> SUFFICES ASSUME NEW j \in 1 .. Len(r), NEW k \in 1 .. Len(r), r[j] = r[k]
               PROVE  j = k
    BY DEF Distinct
  <2>1. j + n = k + n
    BY <1>5 DEF Distinct
  <2> QED BY <1>1, <2>1
<1>7. ASSUME NEW m \in Elements(r)
      PROVE  m \in Elements(s) \ {s[k] : k \in 1 .. n}
  <2>1. PICK k \in 1 .. Len(r) : r[k] = m
    BY DEF Elements
  <2>2. k + n \in 1 .. Len(s) /\ s[k + n] = m
    BY <1>5, <2>1
  <2>3. \A i \in 1 .. n : s[i] # m
    <3> SUFFICES ASSUME NEW i \in 1 .. n, s[i] = m PROVE FALSE
      OBVIOUS
    <3>1. i = k + n
      BY <1>1, <2>2 DEF Distinct
    <3> QED BY <1>1, <2>1, <3>1
  <2> QED BY <2>2, <2>3 DEF Elements
<1>8. ASSUME NEW m \in Elements(s) \ {s[k] : k \in 1 .. n}
      PROVE  m \in Elements(r)
  <2>1. PICK i \in 1 .. Len(s) : s[i] = m
    BY DEF Elements
  <2>2. i \notin 1 .. n
    BY <2>1
  <2>3. i - n \in 1 .. Len(r) /\ i - n + n = i
    BY <1>1, <2>2
  <2>4. r[i - n] = m
    BY <1>5, <2>1, <2>3
  <2> QED BY <2>3, <2>4 DEF Elements
<1>9. Elements(r) = Elements(s) \ {s[k] : k \in 1 .. n}
  BY <1>7, <1>8
<1> QED BY <1>2, <1>3, <1>4, <1>6, <1>9 DEF f

-----------------------------------------------------------------------------
(* The fields of a queue.                                                  *)
LEMMA Fields ==
  ASSUME Shapes
  PROVE  /\ Vector \in Seq(Nat) /\ Overflow \in Seq(Nat)
         /\ Capacity \in Nat /\ Start \in Nat /\ Active \in Nat
         /\ Len(Vector) \in Nat /\ Len(Overflow) \in Nat /\ Len(taken) \in Nat
<1>1. /\ Vector \in Seq(Nat) /\ Overflow \in Seq(Nat)
      /\ Capacity \in Nat /\ Start \in Nat /\ Active \in Nat
  BY DEF Shapes, Queues, Vector, Overflow, Capacity, Start, Active
<1>2. taken \in Seq(Nat)
  BY DEF Shapes
<1> QED BY <1>1, <1>2, LenProperties

(* What each method does with the fields.  enqueue: one of the two vectors *)
(* gets the message, and the first only what it has room for.              *)
LEMMA SendFields ==
  ASSUME Shapes, Send
  PROVE  /\ queue' \in Queues
         /\ UNCHANGED <<Capacity, Start, Active>>
         /\ \/ /\ Len(Vector) < Capacity
               /\ Vector' = Append(Vector, sent + 1) /\ Overflow' = Overflow
            \/ /\ ~(Len(Vector) < Capacity)
               /\ Vector' = Vector /\ Overflow' = Append(Overflow, sent + 1)
<1>1. sent + 1 \in Nat
  BY DEF Shapes
<1>2. /\ Append(Vector, sent + 1) \in Seq(Nat)
      /\ Append(Overflow, sent + 1) \in Seq(Nat)
  BY <1>1, Fields, AppendProperties
<1>3. queue \in Queues /\ queue' = Enqueue(queue, sent + 1)
  BY DEF Shapes, Send
<1> QED BY <1>2, <1>3
        DEF Queues, Enqueue, Vector, Overflow, Capacity, Start, Active

(* commitAll: all messages in one vector, and active.                      *)
LEMMA CommitFields ==
  ASSUME Shapes, CommitAll
  PROVE  /\ queue' \in Queues
         /\ Vector' = Vector \o Overflow /\ Overflow' = <<>>
         /\ Start' = Start /\ Active' = Len(Vector \o Overflow)
         /\ Len(Vector \o Overflow) <= Capacity'
<1> DEFINE all == Vector \o Overflow
<1>1. all \in Seq(Nat) /\ Len(all) \in Nat
  BY Fields, ConcatProperties, LenProperties
<1>2. queue \in Queues /\ queue' \in Commits(queue)
  BY DEF Shapes, CommitAll
<1>3. PICK c \in Growths(queue, Len(all)) :
        queue' = [queue EXCEPT !.messages = all, !.capacity = c,
                               !.messageCount = Len(all),
                               !.overflowMessages = <<>>]
  BY <1>2 DEF Commits, Vector, Overflow
<1>4. c \in Nat /\ Len(all) <= c
  <2>1. 2 * Len(Vector) \in Nat
    BY Fields
  <2>2. Capacity + Capacity \div 2 \in Nat
    BY Fields
  <2>3. c \in IF Len(all) <= Capacity THEN {Capacity}
              ELSE {Larger(Len(all), Capacity + Capacity \div 2),
                    Larger(Len(all), 2 * Len(Vector))}
    BY DEF Growths, Capacity, Vector
  <2> HIDE DEF all
  <2>4. ASSUME NEW m \in Nat
        PROVE  Larger(Len(all), m) \in Nat /\ Len(all) <= Larger(Len(all), m)
    BY <1>1 DEF Larger
  <2>5. CASE Len(all) <= Capacity
    BY <2>3, <2>5, Fields
  <2>6. CASE ~(Len(all) <= Capacity)
    <3>1. \E m \in Nat : c = Larger(Len(all), m)
      BY <2>1, <2>2, <2>3, <2>6
    <3> QED BY <2>4, <3>1
  <2> QED BY <2>5, <2>6
<1>5. <<>> \in Seq(Nat)
  BY EmptySeq
<1> HIDE DEF all
<1>6. /\ queue' \in Queues
      /\ Vector' = all /\ Overflow' = <<>>
      /\ Start' = Start /\ Active' = Len(all)
      /\ Capacity' = c
  BY <1>1, <1>2, <1>3, <1>4, <1>5
     DEF Queues, Vector, Overflow, Capacity, Start, Active
<1> QED BY <1>4, <1>6 DEF all

(* getNextMessage: the first active message leaves the window.             *)
LEMMA GetFields ==
  ASSUME Shapes, GetNextMessage
  PROVE  /\ queue' \in Queues
         /\ UNCHANGED <<Vector, Overflow, Capacity, Active>>
         /\ Start' = Start + 1 /\ Start < Active
         /\ taken' = Append(taken, Vector[Start + 1])
<1>1. /\ queue \in Queues /\ queue' = Deactivated(queue)
      /\ HasActive(queue) /\ taken' = Append(taken, Oldest(queue))
  BY DEF Shapes, GetNextMessage
<1>2. queue' = [queue EXCEPT !.activeMessageStart = Start + 1]
  BY <1>1 DEF Deactivated, Start
<1>3. Start + 1 \in Nat
  BY Fields
<1>4. /\ queue' \in Queues
      /\ UNCHANGED <<Vector, Overflow, Capacity, Active>>
      /\ Start' = Start + 1
  <2> DEFINE n == Start + 1
  <2>1. n \in Nat /\ queue' = [queue EXCEPT !.activeMessageStart = n]
    BY <1>2, <1>3
  <2> HIDE DEF n
  <2>2. /\ queue' \in Queues
        /\ UNCHANGED <<Vector, Overflow, Capacity, Active>>
        /\ Start' = n
    BY <1>1, <2>1 DEF Queues, Vector, Overflow, Capacity, Start, Active
  <2> QED BY <2>2 DEF n
<1>5. Start < Active
  BY <1>1 DEF HasActive, Start, Active
<1>6. taken' = Append(taken, Vector[Start + 1])
  BY <1>1 DEF Oldest, Vector, Start
<1> QED BY <1>4, <1>5, <1>6

(* clearAllInactiveMessages: the rest moves to the front, and all of it is *)
(* active.                                                                 *)
LEMMA ClearInactiveFields ==
  ASSUME Shapes, Window, ClearInactiveMessages
  PROVE  /\ queue' \in Queues
         /\ Overflow' = Overflow /\ Capacity' = Capacity
         /\ Len(Vector') = Len(Vector) - Start
         /\ \A k \in 1 .. Len(Vector) - Start : Vector'[k] = Vector[k + Start]
         /\ Start' = 0 /\ Active' = Len(Vector')
<1> DEFINE rest == SubSeq(Vector, Start + 1, Len(Vector))
<1>1. /\ rest \in Seq(Nat)
      /\ Len(rest) = Len(Vector) - Start
      /\ \A k \in 1 .. Len(Vector) - Start : rest[k] = Vector[k + Start]
  <2>1. Start + 1 \in Int /\ Len(Vector) \in Int /\ Start <= Len(Vector)
    BY Fields DEF Window
  <2>2. \A i \in Start + 1 .. Len(Vector) : Vector[i] \in Nat
    BY Fields, ElementOfSeq
  <2>3. /\ rest \in Seq(Nat)
        /\ Len(rest) = IF Start + 1 <= Len(Vector)
                       THEN Len(Vector) - (Start + 1) + 1 ELSE 0
        /\ \A i \in 1 .. Len(Vector) - (Start + 1) + 1 :
             rest[i] = Vector[Start + 1 + i - 1]
    BY <2>1, <2>2, SubSeqProperties
  <2> HIDE DEF rest
  <2>4. Start \in Nat /\ Len(Vector) \in Nat
    BY Fields
  <2>5. Len(rest) = Len(Vector) - Start
    BY <2>1, <2>3, <2>4
  <2>6. ASSUME NEW k \in 1 .. Len(Vector) - Start
        PROVE  rest[k] = Vector[k + Start]
    <3>1. /\ k \in 1 .. Len(Vector) - (Start + 1) + 1
          /\ Start + 1 + k - 1 = k + Start
      BY <2>4
    <3>2. rest[k] = Vector[Start + 1 + k - 1]
      BY <2>3, <3>1
    <3> QED BY <3>1, <3>2
  <2> QED BY <2>3, <2>5, <2>6
<1>2. queue \in Queues /\ queue' = InactiveCleared(queue)
  BY DEF Shapes, ClearInactiveMessages
<1>3. queue' = [queue EXCEPT !.messages = rest, !.messageCount = Len(rest),
                             !.activeMessageStart = 0]
  BY <1>2 DEF InactiveCleared, Vector, Start
<1>4. Len(rest) \in Nat
  BY <1>1, LenProperties
<1> HIDE DEF rest
<1>5. rest \in Seq(Nat) /\ 0 \in Nat
  BY <1>1
<1>6. /\ queue' \in Queues
      /\ Vector' = rest /\ Overflow' = Overflow /\ Capacity' = Capacity
      /\ Start' = 0 /\ Active' = Len(rest)
  BY <1>2, <1>3, <1>4, <1>5
     DEF Queues, Vector, Overflow, Capacity, Start, Active
<1> QED BY <1>1, <1>6

(* clear.                                                                  *)
LEMMA ClearAllFields ==
  ASSUME Shapes, ClearAll
  PROVE  /\ queue' \in Queues
         /\ Vector' = <<>> /\ Overflow' = <<>> /\ Capacity' = Capacity
         /\ Start' = 0 /\ Active' = 0
<1>1. queue' = Cleared(queue) /\ queue \in Queues /\ <<>> \in Seq(Nat)
  BY EmptySeq DEF Shapes, ClearAll
<1> QED BY <1>1
        DEF Cleared, EmptyQueue, Queues, Vector, Overflow, Capacity, Start,
            Active
-----------------------------------------------------------------------------
(* Preservation: one lemma per part of the invariant.                      *)

(* Whatever the call, the fields keep their types.                         *)
LEMMA Shaping == IInv /\ Next => Shapes'
<1> SUFFICES ASSUME IInv, Next PROVE Shapes'
  OBVIOUS
<1> USE ClientAssumption DEF IInv
<1>1. CASE Send
  <2>1. queue' \in Queues
    BY <1>1, SendFields
  <2> QED BY <1>1, <2>1 DEF Send, Shapes
<1>2. CASE CommitAll
  <2>1. queue' \in Queues
    BY <1>2, CommitFields
  <2> QED BY <1>2, <2>1 DEF CommitAll, Shapes
<1>3. CASE GetNextMessage
  <2>1. queue' \in Queues /\ taken' = Append(taken, Vector[Start + 1])
    BY <1>3, GetFields
  <2>2. Vector[Start + 1] \in Nat
    BY <1>3, Fields, GetFields, ElementOfSeq DEF Window
  <2>3. taken' \in Seq(Nat)
    BY <2>1, <2>2, AppendProperties DEF Shapes
  <2> QED BY <1>3, <2>1, <2>3 DEF GetNextMessage, Shapes
<1>4. CASE ClearInactiveMessages
  <2>1. queue' \in Queues
    BY <1>4, ClearInactiveFields
  <2> QED BY <1>4, <2>1 DEF ClearInactiveMessages, Shapes
<1>5. CASE ClearAll
  <2>1. queue' \in Queues
    BY <1>5, ClearAllFields
  <2> QED BY <1>5, <2>1 DEF ClearAll, Shapes
<1> QED BY <1>1, <1>2, <1>3, <1>4, <1>5 DEF Next

(* messages_ never grows but in a commit.                                  *)
LEMMA Windowing == IInv /\ Next => Window'
<1> SUFFICES ASSUME IInv, Next PROVE Window'
  OBVIOUS
<1>1. Shapes /\ Window /\ Shapes'
  BY Shaping DEF IInv
<1>2. CASE Send
  <2>1. /\ UNCHANGED <<Capacity, Start, Active>>
        /\ \/ Len(Vector) < Capacity /\ Len(Vector') = Len(Vector) + 1
           \/ Vector' = Vector
    <3>1. sent + 1 \in Nat
      BY <1>1 DEF Shapes
    <3> QED BY <1>1, <1>2, <3>1, SendFields, Fields, AppendProperties
  <2> QED BY <1>1, <2>1, Fields DEF Window
<1>3. CASE CommitAll
  <2>1. Len(Vector \o Overflow) = Len(Vector) + Len(Overflow)
    BY <1>1, Fields, ConcatProperties
  <2>2. /\ Vector' = Vector \o Overflow /\ Start' = Start
        /\ Active' = Len(Vector \o Overflow)
        /\ Len(Vector \o Overflow) <= Capacity'
    BY <1>1, <1>3, CommitFields
  <2>3. Active' = Len(Vector') /\ Len(Vector') <= Capacity'
    BY <2>2
  <2>4. Start <= Len(Vector) + Len(Overflow)
    BY <1>1, Fields DEF Window
  <2>5. Len(Vector') \in Nat
    BY <2>1, <2>2, <1>1, Fields
  <2> QED BY <2>1, <2>2, <2>3, <2>4, <2>5 DEF Window
<1>4. CASE GetNextMessage
  BY <1>1, <1>4, GetFields, Fields DEF Window
<1>5. CASE ClearInactiveMessages
  BY <1>1, <1>5, ClearInactiveFields, Fields DEF Window
<1>6. CASE ClearAll
  <2>1. Len(Vector') = 0
    BY <1>1, <1>6, ClearAllFields
  <2> QED BY <1>1, <1>6, <2>1, ClearAllFields, Fields DEF Window
<1> QED BY <1>2, <1>3, <1>4, <1>5, <1>6 DEF Next

(* What a clear deletes: each message of a sequence once.                  *)
LEMMA Deleting ==
  ASSUME NEW s \in Seq(Nat), Distinct(s), Delete(s), Owned, Shapes,
         Elements(s) \subseteq Elements(Vector) \cup Elements(Overflow)
  PROVE  deleted' = [m \in Messages |->
                       IF m <= sent
                          /\ m \notin (Elements(Vector) \cup Elements(Overflow))
                                        \ Elements(s)
                       THEN 1 ELSE 0]
<1>1. deleted' = [m \in Messages |->
                    deleted[m] + Cardinality({k \in 1 .. Len(s) : s[k] = m})]
  BY DEF Delete
<1>2. ASSUME NEW m \in Messages
      PROVE  deleted[m] + Cardinality({k \in 1 .. Len(s) : s[k] = m})
               = IF m <= sent
                    /\ m \notin (Elements(Vector) \cup Elements(Overflow))
                                  \ Elements(s)
                 THEN 1 ELSE 0
  <2>1. Cardinality({k \in 1 .. Len(s) : s[k] = m})
          = IF m \in Elements(s) THEN 1 ELSE 0
    BY CountDistinct
  <2>2. deleted[m]
          = IF m <= sent /\ m \notin Elements(Vector) \cup Elements(Overflow)
            THEN 1 ELSE 0
    BY DEF Owned
  <2>3. m \in Elements(s) =>
          m <= sent /\ m \in Elements(Vector) \cup Elements(Overflow)
    BY DEF Owned, Shapes
  <2> QED BY <2>1, <2>2, <2>3
<1> QED BY <1>1, <1>2

(* A message that is sent goes to one of the vectors, a commit moves it,   *)
(* and a clear that takes it away deletes it.                              *)
LEMMA Owning == IInv /\ Next => Owned'
<1> SUFFICES ASSUME IInv, Next PROVE Owned'
  OBVIOUS
<1>1. Shapes /\ Window /\ Owned /\ Shapes'
  BY Shaping DEF IInv
<1>2. sent \in Nat /\ Vector \in Seq(Nat) /\ Overflow \in Seq(Nat)
  BY <1>1, Fields DEF Shapes
<1>3. CASE Send
  <2> DEFINE e == sent + 1
  <2>1. e \in Nat /\ sent' = e /\ deleted' = deleted
    BY <1>2, <1>3 DEF Send
  <2>2. e \notin Elements(Vector) /\ e \notin Elements(Overflow)
    BY <1>1, <1>2 DEF Owned
  <2>3. \/ /\ Vector' = Append(Vector, e) /\ Overflow' = Overflow
        \/ /\ Vector' = Vector /\ Overflow' = Append(Overflow, e)
    BY <1>1, <1>3, SendFields
  <2>4. /\ Distinct(Vector) /\ Distinct(Overflow)
        /\ Elements(Vector) \cap Elements(Overflow) = {}
        /\ Elements(Vector) \cup Elements(Overflow) \subseteq 1 .. sent
    BY <1>1 DEF Owned
  <2>5. 1 .. e = 1 .. sent \cup {e}
    BY <1>2
  <2> HIDE DEF e
  <2>6. /\ Distinct(Vector') /\ Distinct(Overflow')
        /\ Elements(Vector') \cap Elements(Overflow') = {}
        /\ Elements(Vector') \cup Elements(Overflow')
             = Elements(Vector) \cup Elements(Overflow) \cup {e}
    <3>1. CASE Vector' = Append(Vector, e) /\ Overflow' = Overflow
      <4>1. /\ Distinct(Append(Vector, e))
            /\ Elements(Append(Vector, e)) = Elements(Vector) \cup {e}
        BY <1>2, <2>1, <2>2, <2>4, Appended
      <4>2. Distinct(Vector') /\ Elements(Vector') = Elements(Vector) \cup {e}
        BY <3>1, <4>1
      <4>3. Distinct(Overflow') /\ Elements(Overflow') = Elements(Overflow)
        BY <2>4, <3>1
      <4> QED BY <2>2, <2>4, <4>2, <4>3
    <3>2. CASE Vector' = Vector /\ Overflow' = Append(Overflow, e)
      <4>1. /\ Distinct(Append(Overflow, e))
            /\ Elements(Append(Overflow, e)) = Elements(Overflow) \cup {e}
        BY <1>2, <2>1, <2>2, <2>4, Appended
      <4>2. /\ Distinct(Overflow')
            /\ Elements(Overflow') = Elements(Overflow) \cup {e}
        BY <3>2, <4>1
      <4>3. Distinct(Vector') /\ Elements(Vector') = Elements(Vector)
        BY <2>4, <3>2
      <4> QED BY <2>2, <2>4, <4>2, <4>3
    <3> QED BY <2>3, <3>1, <3>2
  <2>7. ASSUME NEW m \in Messages
        PROVE  (m <= sent /\ m \notin Elements(Vector) \cup Elements(Overflow))
                 <=> (/\ m <= e
                      /\ m \notin Elements(Vector') \cup Elements(Overflow'))
    <3>1. m <= e <=> m <= sent \/ m = e
      BY <1>2 DEF Messages, e
    <3> QED BY <2>6, <3>1, <1>2 DEF Messages, e
  <2>8. deleted' = [m \in Messages |->
                      IF m <= sent'
                         /\ m \notin Elements(Vector') \cup Elements(Overflow')
                      THEN 1 ELSE 0]
    BY <1>1, <2>1, <2>7 DEF Owned
  <2>9. Elements(Vector') \cup Elements(Overflow') \subseteq 1 .. sent'
    BY <2>1, <2>4, <2>5, <2>6
  <2> QED BY <2>6, <2>8, <2>9 DEF Owned
<1>4. CASE CommitAll
  <2>1. sent' = sent /\ deleted' = deleted
    BY <1>4 DEF CommitAll
  <2>2. /\ Distinct(Vector') /\ Overflow' = <<>>
        /\ Elements(Vector') = Elements(Vector) \cup Elements(Overflow)
    <3>1. /\ Distinct(Vector \o Overflow)
          /\ Elements(Vector \o Overflow)
               = Elements(Vector) \cup Elements(Overflow)
      BY <1>1, <1>2, Joined DEF Owned
    <3>2. Vector' = Vector \o Overflow /\ Overflow' = <<>>
      BY <1>1, <1>4, CommitFields
    <3> QED BY <3>1, <3>2
  <2>3. Distinct(Overflow') /\ Elements(Overflow') = {}
    BY <2>2, EmptySeq DEF Distinct, Elements
  <2> QED BY <1>1, <2>1, <2>2, <2>3 DEF Owned
<1>5. CASE GetNextMessage
  <2>1. UNCHANGED <<Vector, Overflow, sent, deleted>>
    BY <1>1, <1>5, GetFields DEF GetNextMessage
  <2> QED BY <1>1, <2>1 DEF Owned
<1>6. CASE ClearInactiveMessages
  <2>1. sent' = sent /\ Delete(SubSeq(Vector, 1, Start))
    BY <1>6 DEF ClearInactiveMessages, Inactive, Vector, Start
  <2>2. Overflow' = Overflow /\ Vector' \in Seq(Nat)
    BY <1>1, <1>6, ClearInactiveFields DEF Queues, Vector
  <2>3. Start \in Nat /\ Start <= Len(Vector)
    BY <1>1, Fields DEF Window
  <2> DEFINE f == SubSeq(Vector, 1, Start)
  <2>4. /\ f \in Seq(Nat) /\ Distinct(f) /\ Distinct(Vector')
        /\ Elements(f) = {Vector[k] : k \in 1 .. Start}
        /\ Elements(Vector')
             = Elements(Vector) \ {Vector[k] : k \in 1 .. Start}
    <3>1. /\ Len(Vector') = Len(Vector) - Start
          /\ \A k \in 1 .. Len(Vector) - Start : Vector'[k] = Vector[k + Start]
      BY <1>1, <1>6, ClearInactiveFields
    <3>2. Distinct(Vector)
      BY <1>1 DEF Owned
    <3> QED BY <1>2, <2>2, <2>3, <3>1, <3>2, Erased
  <2>5. Elements(f) \subseteq Elements(Vector)
    BY <1>2, <2>3, <2>4, LenProperties DEF Elements
  <2>6. Elements(Vector') = Elements(Vector) \ Elements(f)
    BY <2>4
  <2> HIDE DEF f
  <2>7. deleted' = [m \in Messages |->
                      IF m <= sent
                         /\ m \notin (Elements(Vector) \cup Elements(Overflow))
                                       \ Elements(f)
                      THEN 1 ELSE 0]
    BY <1>1, <2>1, <2>4, <2>5, Deleting DEF f
  <2>8. (Elements(Vector) \cup Elements(Overflow)) \ Elements(f)
          = Elements(Vector') \cup Elements(Overflow')
    <3>1. Elements(Overflow') = Elements(Overflow)
      BY <2>2
    <3> QED BY <1>1, <2>5, <2>6, <3>1 DEF Owned
  <2>9. /\ Distinct(Overflow') /\ Elements(Overflow') = Elements(Overflow)
    BY <1>1, <2>2 DEF Owned
  <2>10. /\ Elements(Vector') \cap Elements(Overflow') = {}
         /\ Elements(Vector') \cup Elements(Overflow') \subseteq 1 .. sent'
    BY <1>1, <2>1, <2>6, <2>9 DEF Owned
  <2> QED BY <2>1, <2>4, <2>7, <2>8, <2>9, <2>10 DEF Owned
<1>7. CASE ClearAll
  <2> DEFINE all == Vector \o Overflow
  <2>1. sent' = sent /\ Delete(all)
    BY <1>7 DEF ClearAll, Vector, Overflow
  <2>2. Vector' = <<>> /\ Overflow' = <<>>
    BY <1>1, <1>7, ClearAllFields
  <2>3. /\ all \in Seq(Nat) /\ Distinct(all)
        /\ Elements(all) = Elements(Vector) \cup Elements(Overflow)
    BY <1>1, <1>2, Joined DEF Owned
  <2>4. Distinct(<<>>) /\ Elements(<<>>) = {}
    BY EmptySeq DEF Distinct, Elements
  <2> HIDE DEF all
  <2>5. deleted' = [m \in Messages |->
                      IF m <= sent
                         /\ m \notin (Elements(Vector) \cup Elements(Overflow))
                                       \ Elements(all)
                      THEN 1 ELSE 0]
    BY <1>1, <2>1, <2>3, Deleting
  <2>6. /\ Distinct(Vector') /\ Distinct(Overflow')
        /\ Elements(Vector') = {} /\ Elements(Overflow') = {}
    BY <2>2, <2>4
  <2>7. (Elements(Vector) \cup Elements(Overflow)) \ Elements(all)
          = Elements(Vector') \cup Elements(Overflow')
    BY <2>3, <2>6
  <2> QED BY <2>1, <2>5, <2>6, <2>7 DEF Owned
<1> QED BY <1>3, <1>4, <1>5, <1>6, <1>7 DEF Next
(* What is taken is the first active message: not taken before, and from   *)
(* then on inactive.                                                       *)
LEMMA Returning == IInv /\ Next => Returned'
<1> SUFFICES ASSUME IInv, Next PROVE Returned'
  OBVIOUS
<1>1. Shapes /\ Window /\ Owned /\ Returned /\ Shapes'
  BY Shaping DEF IInv
<1>2. /\ sent \in Nat /\ Vector \in Seq(Nat) /\ Overflow \in Seq(Nat)
      /\ Start \in Nat /\ Len(Vector) \in Nat /\ Start <= Len(Vector)
      /\ taken \in Seq(Nat)
  BY <1>1, Fields DEF Shapes, Window
<1>3. CASE Send
  <2> DEFINE e == sent + 1
  <2>1. e \in Nat /\ sent' = e /\ taken' = taken /\ Start' = Start
    BY <1>1, <1>2, <1>3, SendFields DEF Send
  <2>2. e \notin Elements(Overflow) /\ e \notin Elements(taken)
    BY <1>1, <1>2 DEF Owned, Returned
  <2>3. \/ /\ Vector' = Append(Vector, e) /\ Overflow' = Overflow
        \/ /\ Vector' = Vector /\ Overflow' = Append(Overflow, e)
    BY <1>1, <1>3, SendFields
  <2>4. Distinct(taken') /\ Elements(taken') \subseteq 1 .. sent'
    <3>1. 1 .. sent \subseteq 1 .. e
      BY <1>2
    <3> QED BY <1>1, <2>1, <3>1 DEF Returned
  <2> HIDE DEF e
  <2>5. CASE Vector' = Append(Vector, e) /\ Overflow' = Overflow
    <3>1. /\ Len(Vector') = Len(Vector) + 1 /\ Vector'[Len(Vector) + 1] = e
          /\ \A j \in 1 .. Len(Vector) : Vector'[j] = Vector[j]
      BY <1>2, <2>1, <2>5, AppendProperties
    <3>2. ASSUME NEW j \in 1 .. Len(Vector')
          PROVE  Vector'[j] \in Elements(taken) <=> j <= Start
      <4>1. CASE j \in 1 .. Len(Vector)
        BY <1>1, <3>1, <4>1 DEF Returned
      <4>2. CASE j = Len(Vector) + 1
        BY <1>2, <2>2, <3>1, <4>2
      <4> QED BY <1>2, <3>1, <4>1, <4>2
    <3>3. Elements(taken') \cap Elements(Overflow') = {}
      BY <1>1, <2>1, <2>5 DEF Returned
    <3> QED BY <2>1, <2>4, <3>2, <3>3 DEF Returned
  <2>6. CASE Vector' = Vector /\ Overflow' = Append(Overflow, e)
    <3>1. Elements(Append(Overflow, e)) = Elements(Overflow) \cup {e}
      BY <1>1, <1>2, <2>1, <2>2, Appended DEF Owned
    <3>2. Elements(taken') \cap Elements(Overflow') = {}
      BY <1>1, <2>1, <2>2, <2>6, <3>1 DEF Returned
    <3>3. \A j \in 1 .. Len(Vector') :
            Vector'[j] \in Elements(taken') <=> j <= Start'
      BY <1>1, <2>1, <2>6 DEF Returned
    <3> QED BY <2>4, <3>2, <3>3 DEF Returned
  <2> QED BY <2>3, <2>5, <2>6
<1>4. CASE CommitAll
  <2>1. /\ sent' = sent /\ taken' = taken /\ Start' = Start
        /\ Vector' = Vector \o Overflow /\ Overflow' = <<>>
    BY <1>1, <1>4, CommitFields DEF CommitAll
  <2>2. /\ Len(Vector') = Len(Vector) + Len(Overflow) /\ Len(Overflow) \in Nat
        /\ \A j \in 1 .. Len(Vector) + Len(Overflow) :
             Vector'[j] = IF j <= Len(Vector) THEN Vector[j]
                          ELSE Overflow[j - Len(Vector)]
    BY <1>2, <2>1, ConcatProperties, LenProperties
  <2>3. ASSUME NEW j \in 1 .. Len(Vector')
        PROVE  Vector'[j] \in Elements(taken) <=> j <= Start
    <3>1. CASE j <= Len(Vector)
      <4>1. j \in 1 .. Len(Vector) /\ Vector'[j] = Vector[j]
        BY <1>2, <2>2, <3>1
      <4> QED BY <1>1, <4>1 DEF Returned
    <3>2. CASE ~(j <= Len(Vector))
      <4>1. /\ j - Len(Vector) \in 1 .. Len(Overflow)
            /\ Vector'[j] = Overflow[j - Len(Vector)]
        BY <1>2, <2>2, <3>2
      <4>2. Vector'[j] \in Elements(Overflow)
        BY <4>1 DEF Elements
      <4>3. Vector'[j] \notin Elements(taken)
        BY <1>1, <4>2 DEF Returned
      <4> QED BY <1>2, <3>2, <4>3
    <3> QED BY <3>1, <3>2
  <2>4. Elements(Overflow') = {}
    BY <2>1, EmptySeq DEF Elements
  <2> QED BY <1>1, <2>1, <2>3, <2>4 DEF Returned
<1>5. CASE GetNextMessage
  <2> DEFINE x == Vector[Start + 1]
  <2>1. /\ sent' = sent /\ taken' = Append(taken, x) /\ Start' = Start + 1
        /\ Vector' = Vector /\ Overflow' = Overflow
    BY <1>1, <1>5, GetFields DEF GetNextMessage
  <2>2. Start + 1 \in 1 .. Len(Vector)
    BY <1>1, <1>2, <1>5, GetFields, Fields DEF Window
  <2>3. x \in Elements(Vector) /\ x \in Nat
    BY <1>2, <2>2, ElementOfSeq DEF Elements
  <2>4. x \notin Elements(taken)
    BY <1>1, <1>2, <2>2 DEF Returned
  <2>5. \A j \in 1 .. Len(Vector) : Vector[j] = x => j = Start + 1
    BY <1>1, <2>2 DEF Owned, Distinct
  <2>6. /\ Distinct(taken') /\ Elements(taken') = Elements(taken) \cup {x}
    <3> HIDE DEF x
    <3>1. Distinct(taken)
      BY <1>1 DEF Returned
    <3>2. /\ Distinct(Append(taken, x))
          /\ Elements(Append(taken, x)) = Elements(taken) \cup {x}
      BY <1>2, <2>3, <2>4, <3>1, Appended
    <3> QED BY <2>1, <3>2
  <2>7. /\ Elements(taken') \subseteq 1 .. sent'
        /\ Elements(taken') \cap Elements(Overflow') = {}
    BY <1>1, <2>1, <2>3, <2>6 DEF Owned, Returned
  <2>8. ASSUME NEW j \in 1 .. Len(Vector)
        PROVE  Vector[j] \in Elements(taken') <=> j <= Start + 1
    <3>1. Vector[j] \in Elements(taken) <=> j <= Start
      BY <1>1 DEF Returned
    <3>2. Vector[j] = x <=> j = Start + 1
      BY <2>5
    <3>3. Vector[j] \in Elements(taken') <=> j <= Start \/ j = Start + 1
      BY <2>6, <3>1, <3>2
    <3> QED BY <1>2, <3>3
  <2> QED BY <2>1, <2>6, <2>7, <2>8 DEF Returned
<1>6. CASE ClearInactiveMessages
  <2>1. /\ sent' = sent /\ taken' = taken /\ Overflow' = Overflow /\ Start' = 0
        /\ Len(Vector') = Len(Vector) - Start
        /\ \A k \in 1 .. Len(Vector) - Start : Vector'[k] = Vector[k + Start]
    BY <1>1, <1>6, ClearInactiveFields DEF ClearInactiveMessages
  <2>2. ASSUME NEW k \in 1 .. Len(Vector')
        PROVE  Vector'[k] \notin Elements(taken) /\ ~(k <= 0)
    <3>1. k + Start \in 1 .. Len(Vector) /\ Vector'[k] = Vector[k + Start]
      <4>1. k \in 1 .. Len(Vector) - Start
        BY <2>1
      <4> QED BY <4>1, <2>1, <1>2
    <3>2. ~(k + Start <= Start) /\ ~(k <= 0)
      BY <1>2, <2>1
    <3> QED BY <1>1, <3>1, <3>2 DEF Returned
  <2> QED BY <1>1, <2>1, <2>2 DEF Returned
<1>7. CASE ClearAll
  <2>1. sent' = sent /\ taken' = taken /\ Vector' = <<>> /\ Overflow' = <<>>
    BY <1>1, <1>7, ClearAllFields DEF ClearAll
  <2>2. Len(Vector') = 0 /\ Elements(Overflow') = {}
    BY <2>1, EmptySeq DEF Elements
  <2>3. 1 .. Len(Vector') = {}
    BY <2>2
  <2> QED BY <1>1, <2>1, <2>2, <2>3 DEF Returned
<1> QED BY <1>3, <1>4, <1>5, <1>6, <1>7 DEF Next
(* Appending what is newer keeps the order ...                             *)
LEMMA AppendedInOrder ==
  ASSUME NEW s \in Seq(Nat), NEW e \in Nat, Increasing(s),
         \A m \in Elements(s) : m < e
  PROVE  Increasing(Append(s, e))
<1> DEFINE u == Append(s, e)
<1>1. /\ Len(u) = Len(s) + 1 /\ u[Len(s) + 1] = e
      /\ \A i \in 1 .. Len(s) : u[i] = s[i]
  BY AppendProperties
<1>2. Len(s) \in Nat
  BY LenProperties
<1>3. \A i \in 1 .. Len(s) : s[i] < e
  BY DEF Elements
<1> HIDE DEF u
<1>4. Increasing(u)
  <2> SUFFICES ASSUME NEW j \in 1 .. Len(u), NEW k \in 1 .. Len(u), j < k
               PROVE  u[j] < u[k]
    BY DEF Increasing
  <2>0. k \in 1 .. Len(s) \/ k = Len(s) + 1
    BY <1>1, <1>2
  <2>1. j \in 1 .. Len(s) /\ u[j] = s[j]
    BY <1>1, <1>2
  <2>2. CASE k \in 1 .. Len(s)
    BY <1>1, <2>1, <2>2 DEF Increasing
  <2>3. CASE k = Len(s) + 1
    BY <1>1, <1>3, <2>1, <2>3
  <2> QED BY <2>0, <2>2, <2>3
<1> QED BY <1>4 DEF u

(* ... and so does joining what is older and what is newer.                *)
LEMMA JoinedInOrder ==
  ASSUME NEW s \in Seq(Nat), NEW t \in Seq(Nat), Increasing(s), Increasing(t),
         \A m \in Elements(s), o \in Elements(t) : m < o
  PROVE  Increasing(s \o t)
<1> DEFINE u == s \o t
<1>1. Len(s) \in Nat /\ Len(t) \in Nat
  BY LenProperties
<1>2. \A i \in 1 .. Len(u) :
        \/ i \in 1 .. Len(s) /\ u[i] = s[i]
        \/ /\ i > Len(s) /\ i - Len(s) \in 1 .. Len(t)
           /\ u[i] = t[i - Len(s)]
  BY Concatenated
<1> HIDE DEF u
<1>3. \A j \in 1 .. Len(s), k \in 1 .. Len(t) : s[j] < t[k]
  BY DEF Elements
<1>4. Increasing(u)
  <2> SUFFICES ASSUME NEW j \in 1 .. Len(u), NEW k \in 1 .. Len(u), j < k
               PROVE  u[j] < u[k]
    BY DEF Increasing
  <2>1. CASE k \in 1 .. Len(s) /\ u[k] = s[k]
    <3>1. j \in 1 .. Len(s) /\ u[j] = s[j]
      BY <1>1, <1>2, <2>1
    <3> QED BY <2>1, <3>1 DEF Increasing
  <2>2. CASE /\ k > Len(s) /\ k - Len(s) \in 1 .. Len(t)
             /\ u[k] = t[k - Len(s)]
    <3>1. CASE j \in 1 .. Len(s) /\ u[j] = s[j]
      BY <1>3, <2>2, <3>1
    <3>2. CASE /\ j > Len(s) /\ j - Len(s) \in 1 .. Len(t)
               /\ u[j] = t[j - Len(s)]
      <4>1. j - Len(s) < k - Len(s)
        BY <1>1
      <4> QED BY <2>2, <3>2, <4>1 DEF Increasing
    <3> QED BY <1>2, <3>1, <3>2
  <2> QED BY <1>2, <2>1, <2>2
<1> QED BY <1>4 DEF u

(* A message is sent to the overflow vector only when the first one is     *)
(* full, a commit puts the overflow behind it, and a clear that leaves     *)
(* room below an overflow is remembered.                                   *)
LEMMA Ordering == IInv /\ Next => InOrder'
<1> SUFFICES ASSUME IInv, Next, ~clearedPending' PROVE InOrder'
  BY DEF InOrder
<1>1. Shapes /\ Window /\ Owned /\ Returned /\ InOrder /\ Shapes'
  BY Shaping DEF IInv
<1>2. /\ sent \in Nat /\ Vector \in Seq(Nat) /\ Overflow \in Seq(Nat)
      /\ Start \in Nat /\ Len(Vector) \in Nat /\ Start <= Len(Vector)
      /\ Active \in Nat /\ Active <= Len(Vector) /\ Start <= Active
      /\ taken \in Seq(Nat) /\ Capacity \in Nat /\ Len(Vector) <= Capacity
  BY <1>1, Fields DEF Shapes, Window
<1>3. ~clearedPending
  BY DEF Next, Send, CommitAll, GetNextMessage, ClearInactiveMessages, ClearAll
<1>4. /\ Increasing(Vector) /\ Increasing(Overflow) /\ Increasing(taken)
      /\ \A m \in Elements(Vector) \cup Elements(taken) :
           \A o \in Elements(Overflow) : m < o
      /\ Overflow # <<>> => Len(Vector) = Capacity
      /\ \A k \in 1 .. Active : Vector[k] \in committed
      /\ Elements(taken) \subseteq committed
      /\ \A m \in Elements(taken), k \in Start + 1 .. Len(Vector) :
           m < Vector[k]
  BY <1>1, <1>3 DEF InOrder
<1>5. /\ Elements(Vector) \subseteq 1 .. sent
      /\ Elements(Overflow) \subseteq 1 .. sent
      /\ Elements(taken) \subseteq 1 .. sent
  BY <1>1 DEF Owned, Returned
<1>6. CASE Send
  <2> DEFINE e == sent + 1
  <2>1. /\ e \in Nat /\ taken' = taken /\ committed' = committed
        /\ Start' = Start /\ Active' = Active /\ Capacity' = Capacity
    BY <1>1, <1>2, <1>6, SendFields DEF Send
  <2>2. \A m \in Elements(Vector) \cup Elements(Overflow) \cup Elements(taken) :
          m < e
    BY <1>2, <1>5
  <2>3. \/ /\ Len(Vector) < Capacity
           /\ Vector' = Append(Vector, e) /\ Overflow' = Overflow
        \/ /\ ~(Len(Vector) < Capacity)
           /\ Vector' = Vector /\ Overflow' = Append(Overflow, e)
    BY <1>1, <1>6, SendFields
  <2> HIDE DEF e
  <2>4. CASE /\ Len(Vector) < Capacity
             /\ Vector' = Append(Vector, e) /\ Overflow' = Overflow
    <3>1. Overflow = <<>> /\ Elements(Overflow') = {}
      BY <1>2, <1>4, <2>4, EmptySeq DEF Elements
    <3>2. Increasing(Vector')
      BY <1>2, <1>4, <2>1, <2>2, <2>4, AppendedInOrder
    <3>3. /\ Len(Vector') = Len(Vector) + 1 /\ Vector'[Len(Vector) + 1] = e
          /\ \A j \in 1 .. Len(Vector) : Vector'[j] = Vector[j]
      BY <1>2, <2>1, <2>4, AppendProperties
    <3>4. \A k \in 1 .. Active' : Vector'[k] \in committed'
      <4>1. \A k \in 1 .. Active : k \in 1 .. Len(Vector)
        BY <1>2
      <4> QED BY <1>4, <2>1, <3>3, <4>1
    <3>5. ASSUME NEW m \in Elements(taken), NEW k \in Start + 1 .. Len(Vector')
          PROVE  m < Vector'[k]
      <4>1. CASE k = Len(Vector) + 1
        BY <2>2, <3>3, <4>1
      <4>2. CASE k # Len(Vector) + 1
        <5>1. k \in Start + 1 .. Len(Vector) /\ k \in 1 .. Len(Vector)
          BY <1>2, <3>3, <4>2
        <5> QED BY <1>4, <3>3, <5>1
      <4> QED BY <4>1, <4>2
    <3>6. Increasing(Overflow') /\ Increasing(taken') /\ Overflow' = <<>>
      BY <1>4, <2>1, <2>4, <3>1
    <3>7. Elements(taken') \subseteq committed'
      BY <1>4, <2>1
    <3> QED BY <2>1, <3>1, <3>2, <3>4, <3>5, <3>6, <3>7 DEF InOrder
  <2>5. CASE /\ ~(Len(Vector) < Capacity)
             /\ Vector' = Vector /\ Overflow' = Append(Overflow, e)
    <3>1. Increasing(Overflow')
      BY <1>2, <1>4, <2>1, <2>2, <2>5, AppendedInOrder
    <3>2. Elements(Overflow') = Elements(Overflow) \cup {e}
      <4>1. Distinct(Overflow) /\ e \notin Elements(Overflow)
        BY <1>1, <1>2, <1>5 DEF Owned, e
      <4> QED BY <1>2, <2>1, <2>5, <4>1, Appended
    <3>3. \A m \in Elements(Vector') \cup Elements(taken') :
            \A o \in Elements(Overflow') : m < o
      BY <1>4, <2>1, <2>2, <2>5, <3>2
    <3>4. Len(Vector') = Capacity'
      BY <1>2, <2>1, <2>5
    <3> QED BY <1>4, <2>1, <2>5, <3>1, <3>3, <3>4 DEF InOrder
  <2> QED BY <2>3, <2>4, <2>5
<1>7. CASE CommitAll
  <2>1. /\ taken' = taken /\ committed' = 1 .. sent /\ Start' = Start
        /\ Vector' = Vector \o Overflow /\ Overflow' = <<>>
        /\ Active' = Len(Vector')
    BY <1>1, <1>7, CommitFields DEF CommitAll
  <2>2. Increasing(Vector')
    BY <1>2, <1>4, <2>1, JoinedInOrder
  <2>3. Elements(Vector') = Elements(Vector) \cup Elements(Overflow)
    BY <1>1, <1>2, <2>1, Joined DEF Owned
  <2>4. Elements(Overflow') = {} /\ Increasing(Overflow')
    BY <2>1, EmptySeq DEF Elements, Increasing
  <2>5. \A k \in 1 .. Active' : Vector'[k] \in committed'
    <3>1. \A k \in 1 .. Active' : Vector'[k] \in Elements(Vector')
      BY <2>1 DEF Elements
    <3> QED BY <1>5, <2>1, <2>3, <3>1
  <2>6. ASSUME NEW m \in Elements(taken), NEW k \in Start + 1 .. Len(Vector')
        PROVE  m < Vector'[k]
    <3>1. /\ Len(Vector') = Len(Vector) + Len(Overflow) /\ Len(Overflow) \in Nat
          /\ \A j \in 1 .. Len(Vector) + Len(Overflow) :
               Vector'[j] = IF j <= Len(Vector) THEN Vector[j]
                            ELSE Overflow[j - Len(Vector)]
      BY <1>2, <2>1, ConcatProperties, LenProperties
    <3>2. CASE k <= Len(Vector)
      <4>1. k \in Start + 1 .. Len(Vector) /\ Vector'[k] = Vector[k]
        BY <1>2, <3>1, <3>2
      <4> QED BY <1>4, <4>1
    <3>3. CASE ~(k <= Len(Vector))
      <4>1. /\ k - Len(Vector) \in 1 .. Len(Overflow)
            /\ Vector'[k] = Overflow[k - Len(Vector)]
        BY <1>2, <3>1, <3>3
      <4>2. Vector'[k] \in Elements(Overflow)
        BY <4>1 DEF Elements
      <4> QED BY <1>4, <4>2
    <3> QED BY <3>2, <3>3
  <2>7. Elements(taken') \subseteq committed' /\ Increasing(taken')
    BY <1>4, <1>5, <2>1
  <2> QED BY <2>1, <2>2, <2>4, <2>5, <2>6, <2>7 DEF InOrder
<1>8. CASE GetNextMessage
  <2> DEFINE x == Vector[Start + 1]
  <2>1. /\ committed' = committed /\ taken' = Append(taken, x)
        /\ Start' = Start + 1 /\ Start < Active /\ Active' = Active
        /\ Vector' = Vector /\ Overflow' = Overflow /\ Capacity' = Capacity
    BY <1>1, <1>8, GetFields DEF GetNextMessage
  <2>2. /\ Start + 1 \in 1 .. Len(Vector) /\ Start + 1 \in 1 .. Active
        /\ Start + 1 \in Start + 1 .. Len(Vector)
    BY <1>2, <2>1
  <2>3. x \in Elements(Vector) /\ x \in Nat /\ x \in committed
    BY <1>2, <1>4, <2>2, ElementOfSeq DEF Elements
  <2>4. \A m \in Elements(taken) : m < x
    BY <1>4, <2>2
  <2>5. \A k \in Start + 2 .. Len(Vector) : x < Vector[k]
    BY <1>2, <1>4, <2>2 DEF Increasing
  <2>6. Elements(taken') = Elements(taken) \cup {x} /\ Increasing(taken')
    <3> HIDE DEF x
    <3>1. Distinct(taken)
      BY <1>1 DEF Returned
    <3>2. x \notin Elements(taken)
      BY <2>3, <2>4
    <3> QED BY <1>2, <1>4, <2>1, <2>3, <2>4, <3>1, <3>2, Appended,
               AppendedInOrder
  <2>7. ASSUME NEW m \in Elements(taken'), NEW k \in Start' + 1 .. Len(Vector')
        PROVE  m < Vector'[k]
    <3>1. k \in Start + 1 .. Len(Vector) /\ k \in Start + 2 .. Len(Vector)
      BY <1>2, <2>1
    <3> QED BY <1>4, <2>1, <2>5, <2>6, <3>1
  <2>8. \A m \in Elements(Vector') \cup Elements(taken') :
          \A o \in Elements(Overflow') : m < o
    BY <1>4, <2>1, <2>3, <2>6
  <2>9. Elements(taken') \subseteq committed'
    BY <1>4, <2>1, <2>3, <2>6
  <2> QED BY <1>4, <2>1, <2>6, <2>7, <2>8, <2>9 DEF InOrder
<1>9. CASE ClearInactiveMessages
  <2>1. /\ committed' = committed /\ taken' = taken
        /\ Overflow' = Overflow /\ Start' = 0 /\ Active' = Len(Vector')
        /\ Len(Vector') = Len(Vector) - Start
        /\ \A k \in 1 .. Len(Vector) - Start : Vector'[k] = Vector[k + Start]
    BY <1>1, <1>9, ClearInactiveFields DEF ClearInactiveMessages
  <2>2. Overflow = <<>> /\ Active = Len(Vector)
    <3>1. ~(Active < Len(Vector)) /\ Overflow = <<>>
      BY <1>9 DEF ClearInactiveMessages, Pending, Active, Vector, Overflow
    <3> QED BY <1>2, <3>1
  <2>3. Elements(Overflow') = {} /\ Increasing(Overflow') /\ Overflow' = <<>>
    BY <2>1, <2>2, EmptySeq DEF Elements, Increasing
  <2>4. ASSUME NEW k \in 1 .. Len(Vector')
        PROVE  /\ k + Start \in 1 .. Len(Vector)
               /\ k + Start \in Start + 1 .. Len(Vector)
               /\ Vector'[k] = Vector[k + Start]
    <3>1. k \in 1 .. Len(Vector) - Start
      BY <2>1
    <3>2. Vector'[k] = Vector[k + Start]
      BY <3>1, <2>1
    <3>3. Len(Vector) \in Nat /\ Start \in Nat
      BY <1>2
    <3> HIDE DEF Start, Vector
    <3>4. k + Start \in Start + 1 .. Len(Vector)
      BY <3>1, <3>3
    <3> QED BY <3>2, <3>3, <3>4
  <2>5. Increasing(Vector')
    <3> SUFFICES ASSUME NEW j \in 1 .. Len(Vector'),
                        NEW k \in 1 .. Len(Vector'), j < k
                 PROVE  Vector'[j] < Vector'[k]
      BY DEF Increasing
    <3>1. j + Start < k + Start
      BY <1>2
    <3> QED BY <1>4, <2>4, <3>1 DEF Increasing
  <2>6. \A k \in 1 .. Active' : Vector'[k] \in committed'
    BY <1>4, <2>1, <2>2, <2>4
  <2>7. \A m \in Elements(taken'), k \in Start' + 1 .. Len(Vector') :
          m < Vector'[k]
    <3>1. \A k \in Start' + 1 .. Len(Vector') : k \in 1 .. Len(Vector')
      BY <2>1
    <3> QED BY <1>4, <2>1, <2>4, <3>1
  <2>8. Elements(taken') \subseteq committed' /\ Increasing(taken')
    BY <1>4, <2>1
  <2> QED BY <2>3, <2>5, <2>6, <2>7, <2>8 DEF InOrder
<1>10. CASE ClearAll
  <2>1. /\ committed' = committed /\ taken' = taken
        /\ Vector' = <<>> /\ Overflow' = <<>> /\ Start' = 0 /\ Active' = 0
    BY <1>1, <1>10, ClearAllFields DEF ClearAll
  <2>2. Len(Vector') = 0 /\ Elements(Overflow') = {}
    BY <2>1, EmptySeq DEF Elements
  <2>3. Increasing(Vector') /\ Increasing(Overflow')
    BY <2>1, EmptySeq DEF Increasing
  <2>4. 1 .. Active' = {} /\ Start' + 1 .. Len(Vector') = {}
    BY <2>1, <2>2
  <2>5. Elements(taken') \subseteq committed' /\ Increasing(taken')
    BY <1>4, <2>1
  <2> QED BY <2>1, <2>2, <2>3, <2>4, <2>5 DEF InOrder
<1> QED BY <1>6, <1>7, <1>8, <1>9, <1>10 DEF Next

(* The bus of the test begins with an empty queue.                         *)
LEMMA InitIInv == Init => IInv
<1> SUFFICES ASSUME Init PROVE IInv
  OBVIOUS
<1>1. <<>> \in Seq(Nat) /\ Len(<<>>) = 0
  BY EmptySeq
<1>2. queue = EmptyQueue /\ queue \in Queues
  BY <1>1 DEF Init, EmptyQueue, Queues
<1>3. /\ Vector = <<>> /\ Overflow = <<>> /\ Capacity = 0 /\ Start = 0
      /\ Active = 0 /\ taken = <<>> /\ sent = 0 /\ committed = {}
  BY <1>2 DEF Init, EmptyQueue, Vector, Overflow, Capacity, Start, Active
<1>4. Elements(<<>>) = {} /\ Distinct(<<>>) /\ Increasing(<<>>)
  BY <1>1 DEF Elements, Distinct, Increasing
<1>5. Shapes /\ Window
  <2>1. sent \in Nat /\ sent <= MaxMessages /\ committed \subseteq 1 .. sent
    BY <1>3, ClientAssumption
  <2>2. taken \in Seq(Nat) /\ clearedPending \in BOOLEAN
    BY <1>1, <1>3 DEF Init
  <2>3. Len(Vector) = 0
    BY <1>1, <1>3
  <2> QED BY <1>2, <1>3, <2>1, <2>2, <2>3 DEF Shapes, Window
<1>6. Owned
  <2>1. deleted = [m \in Messages |-> 0]
    BY DEF Init
  <2>2. \A m \in Messages : ~(m <= 0)
    BY ClientAssumption DEF Messages
  <2> QED BY <1>3, <1>4, <2>1, <2>2 DEF Owned
<1>7. Returned
  BY <1>1, <1>3, <1>4 DEF Returned
<1>8. InOrder
  BY <1>1, <1>3, <1>4 DEF InOrder
<1> QED BY <1>5, <1>6, <1>7, <1>8 DEF IInv

-----------------------------------------------------------------------------
(* The parts hold together after every sequence of calls.                  *)
THEOREM InductiveInvariant == Spec => []IInv
<1>1. IInv /\ [Next]_vars => IInv'
  <2> SUFFICES ASSUME IInv, [Next]_vars PROVE IInv'
    OBVIOUS
  <2>1. CASE Next
    BY <2>1, Shaping, Windowing, Owning, Returning, Ordering DEF IInv
  <2>2. CASE UNCHANGED vars
    <3>1. UNCHANGED <<Vector, Overflow, Capacity, Start, Active>>
      BY <2>2 DEF vars, Vector, Overflow, Capacity, Start, Active
    <3>2. UNCHANGED <<queue, sent, committed, taken, deleted, clearedPending>>
      BY <2>2 DEF vars
    <3> QED BY <3>1, <3>2 DEF IInv, Shapes, Window, Owned, Returned, InOrder
  <2> QED BY <2>1, <2>2
<1> QED BY InitIInv, <1>1, PTL DEF Spec

(* message_queue.h:102-118: whatever calls are mixed, what a clear deletes *)
(* has not been deleted and is never handed out again, and nothing leaks.  *)
THEOREM MessagesHaveOneOwner == Spec => []OwnedOnce
<1>1. IInv => OwnedOnce
  <2> SUFFICES ASSUME IInv PROVE OwnedOnce
    OBVIOUS
  <2>1. Shapes /\ Window /\ Owned /\ Returned
    BY DEF IInv
  <2>2. /\ Vector \in Seq(Nat) /\ Overflow \in Seq(Nat) /\ taken \in Seq(Nat)
        /\ Start \in Nat /\ Len(Vector) \in Nat /\ Start <= Len(Vector)
        /\ sent \in Nat /\ sent <= MaxMessages
    BY <2>1, Fields DEF Shapes, Window
  <2>3. TypeOK
    <3>1. Elements(Vector) \cup Elements(Overflow) \subseteq 1 .. sent
      BY <2>1 DEF Owned
    <3>2. deleted \in [Messages -> Nat] /\ Elements(taken) \subseteq 1 .. sent
      BY <2>1 DEF Owned, Returned
    <3>3. sent \in 0 .. MaxMessages
      BY <2>2, ClientAssumption
    <3> QED BY <2>1, <3>1, <3>2, <3>3
            DEF TypeOK, Shapes, Window, Vector, Overflow, Capacity, Start,
                Active
  <2> DEFINE all == Vector \o Overflow
  <2>4. /\ all \in Seq(Nat) /\ Distinct(all)
        /\ Elements(all) = Elements(Vector) \cup Elements(Overflow)
    BY <2>1, <2>2, Joined DEF Owned
  <2>5. ASSUME NEW m \in 1 .. sent
        PROVE  deleted[m] + Cardinality({k \in 1 .. Len(all) : all[k] = m}) = 1
    <3> HIDE DEF all
    <3>1. Cardinality({k \in 1 .. Len(all) : all[k] = m})
            = IF m \in Elements(all) THEN 1 ELSE 0
      BY <2>4, CountDistinct
    <3>2. m \in Messages /\ m <= sent
      BY <2>2, ClientAssumption DEF Messages
    <3>3. deleted[m] = IF m \in Elements(all) THEN 0 ELSE 1
      BY <2>1, <2>4, <3>2 DEF Owned
    <3> QED BY <3>1, <3>3
  <2>6. Cardinality(Elements(taken)) = Len(taken)
    BY <2>1, <2>2, ElementsOfDistinct DEF Returned
  <2>7. {m \in Elements(taken) : deleted[m] = 0} = Elements(Inactive(queue))
    <3>1. Elements(Inactive(queue)) = {Vector[k] : k \in 1 .. Start}
      <4>1. Inactive(queue) = SubSeq(Vector, 1, Start)
        BY DEF Inactive, Vector, Start
      <4>2. PICK r \in Seq(Nat) :
              /\ Len(r) = Len(Vector) - Start
              /\ \A k \in 1 .. Len(Vector) - Start : r[k] = Vector[k + Start]
        <5> DEFINE r == [k \in 1 .. Len(Vector) - Start |-> Vector[k + Start]]
        <5>1. Len(Vector) - Start \in Nat
          BY <2>2
        <5>2. \A k \in 1 .. Len(Vector) - Start : Vector[k + Start] \in Nat
          <6> SUFFICES ASSUME NEW k \in 1 .. Len(Vector) - Start
                       PROVE  Vector[k + Start] \in Nat
            OBVIOUS
          <6>1. k + Start \in 1 .. Len(Vector)
            BY <2>2
          <6> QED BY <2>2, <6>1, ElementOfSeq
        <5>3. r \in Seq(Nat) /\ Len(r) = Len(Vector) - Start
          BY <5>1, <5>2
        <5> QED BY <5>3
      <4>3. Distinct(Vector)
        BY <2>1 DEF Owned
      <4>4. Elements(SubSeq(Vector, 1, Start)) = {Vector[k] : k \in 1 .. Start}
        BY <2>2, <4>2, <4>3, Erased
      <4> QED BY <4>1, <4>4
    <3>2. ASSUME NEW m \in Elements(taken)
          PROVE  deleted[m] = 0 <=> m \in {Vector[k] : k \in 1 .. Start}
      <4>1. m \in 1 .. sent /\ m \in Messages /\ m <= sent
        BY <2>1, <2>2, ClientAssumption DEF Returned, Messages
      <4>2. m \notin Elements(Overflow)
        BY <2>1 DEF Returned
      <4>3. deleted[m] = 0 <=> m \in Elements(Vector)
        BY <2>1, <4>1, <4>2 DEF Owned
      <4>4. m \in Elements(Vector) <=> \E k \in 1 .. Len(Vector) : Vector[k] = m
        BY DEF Elements
      <4>5. \A k \in 1 .. Len(Vector) : Vector[k] = m => k \in 1 .. Start
        BY <2>1, <2>2 DEF Returned
      <4>6. 1 .. Start \subseteq 1 .. Len(Vector)
        BY <2>2
      <4> QED BY <4>3, <4>4, <4>5, <4>6
    <3>3. {Vector[k] : k \in 1 .. Start} \subseteq Elements(taken)
      BY <2>1, <2>2 DEF Returned
    <3> QED BY <3>1, <3>2, <3>3
  <2> HIDE DEF all
  <2>8. \A m \in 1 .. sent :
          deleted[m] + Cardinality({k \in 1 .. Len(all) : all[k] = m}) = 1
    BY <2>5
  <2> QED BY <2>3, <2>6, <2>7, <2>8 DEF OwnedOnce, all, Vector, Overflow
<1> QED BY <1>1, InductiveInvariant, PTL

(* message_queue.h:83: the oldest message is retrieved, across the two     *)
(* vectors and the growth of the first, if no clear overtakes a commit.    *)
THEOREM OldestIsRetrieved == Spec => []OldestFirst
<1>1. IInv => OldestFirst
  <2> SUFFICES ASSUME IInv, ~clearedPending
               PROVE  /\ Elements(taken) \subseteq committed
                      /\ \A j, k \in 1 .. Len(taken) :
                           j < k => taken[j] < taken[k]
    BY DEF OldestFirst
  <2> QED BY DEF IInv, InOrder, Increasing
<1> QED BY <1>1, InductiveInvariant, PTL

(* message_queue.h:40-48: sending moves nothing that may be iterated over. *)
THEOREM SendingMovesNothing == Spec => IteratorsStayValid
<1> DEFINE Kept == sent' # sent =>
              /\ queue'.capacity = queue.capacity
              /\ queue'.activeMessageStart = queue.activeMessageStart
              /\ queue'.messageCount = queue.messageCount
              /\ \A k \in 1 .. queue.messageCount :
                   queue'.messages[k] = queue.messages[k]
<1>1. IInv /\ [Next]_vars => Kept
  <2> SUFFICES ASSUME IInv, [Next]_vars, sent' # sent
               PROVE  /\ Capacity' = Capacity /\ Start' = Start
                      /\ Active' = Active
                      /\ \A k \in 1 .. Active : Vector'[k] = Vector[k]
    BY DEF Capacity, Start, Active, Vector
  <2>1. Send
    BY DEF Next, CommitAll, GetNextMessage, ClearInactiveMessages, ClearAll,
           vars
  <2>2. Shapes /\ Window /\ sent + 1 \in Nat
    BY DEF IInv, Shapes
  <2>3. /\ UNCHANGED <<Capacity, Start, Active>>
        /\ Vector' = Vector \/ Vector' = Append(Vector, sent + 1)
    BY <2>1, <2>2, SendFields
  <2>4. \A k \in 1 .. Active : k \in 1 .. Len(Vector)
    BY <2>2, Fields DEF Window
  <2>5. \A k \in 1 .. Len(Vector) : Append(Vector, sent + 1)[k] = Vector[k]
    BY <2>2, Fields, AppendProperties
  <2> QED BY <2>3, <2>4, <2>5
<1> QED BY <1>1, InductiveInvariant, PTL DEF Spec, IteratorsStayValid

-----------------------------------------------------------------------------
(* The program of producers and a consumer around the queue                *)
(* (ConsumerProducer): one thread at a time uses it, under their mutex.    *)

(* processMessage folded over a single message is processMessage of it:    *)
(* the recursion of the fold has the two subsets of {1} to go through.     *)
LEMMA FoldOne ==
  ASSUME NEW h, NEW p
  PROVE  FoldLeft(Processed, h, <<p>>) = Processed(h, p)
<1> DEFINE Step(iter, s) ==
      IF s = {} THEN h
      ELSE LET x == CHOOSE y \in s : \A z \in s : y >= z
           IN  Processed(iter[s \ {x}], <<p>>[x])
           Def(iter) == iter = [s \in SUBSET {1} |-> Step(iter, s)]
           fold == [s \in SUBSET {1} |-> IF s = {} THEN h ELSE Processed(h, p)]
           max == CHOOSE y \in {1} : \A z \in {1} : y >= z
<1>1. /\ DOMAIN <<p>> = {1} /\ <<p>>[1] = p
      /\ max = 1
  OBVIOUS
<1>2. FoldLeft(Processed, h, <<p>>) = (CHOOSE iter : Def(iter))[{1}]
  BY <1>1 DEF FoldLeft, MapThenFoldSet, Max
<1>3. ASSUME NEW iter, DOMAIN iter = SUBSET {1}, iter[{}] = h
      PROVE  Step(iter, {1}) = Processed(h, p) /\ Step(iter, {}) = h
  <2>1. {1} \ {max} = {} /\ {1} # {}
    BY <1>1
  <2> HIDE DEF max
  <2>2. Step(iter, {1}) = Processed(iter[{1} \ {max}], <<p>>[max])
    BY <2>1 DEF max
  <2> QED BY <2>1, <2>2, <1>1, <1>3
<1>4. \A s \in SUBSET {1} : s = {} \/ s = {1}
  OBVIOUS
<1> HIDE DEF Step, max
<1>5. Def(fold)
  <2>1. DOMAIN fold = SUBSET {1} /\ fold[{}] = h /\ fold[{1}] = Processed(h, p)
    OBVIOUS
  <2> HIDE DEF fold
  <2>2. Step(fold, {1}) = fold[{1}] /\ Step(fold, {}) = fold[{}]
    BY <2>1, <1>3
  <2>3. ASSUME NEW s \in SUBSET {1} PROVE fold[s] = Step(fold, s)
    BY <2>2, <1>4
  <2>4. fold = [s \in SUBSET {1} |-> fold[s]]
    BY DEF fold
  <2> QED BY <2>3, <2>4
<1> HIDE DEF fold
<1>6. ASSUME NEW iter, Def(iter) PROVE iter[{1}] = Processed(h, p)
  <2>1. /\ DOMAIN iter = SUBSET {1}
        /\ \A s \in SUBSET {1} : iter[s] = Step(iter, s)
    BY <1>6
  <2>2. iter[{}] = h
    BY <2>1 DEF Step
  <2> QED BY <2>1, <2>2, <1>3
<1> HIDE DEF Def
<1>7. Def(CHOOSE iter : Def(iter))
  BY <1>5
<1> QED BY <1>2, <1>6, <1>7

-----------------------------------------------------------------------------
(* The queue between two acquisitions of the mutex: committed, and without *)
(* inactive messages.                                                      *)
Committed(q) ==
  \E list, size :
    /\ list \in Seq(Producers)
    /\ Len(list) <= 1
    /\ q = [messages |-> list, capacity |-> size, overflowMessages |-> <<>>,
            activeMessageStart |-> 0, messageCount |-> Len(list)]

(* The consumer is done only after the last frame.                         *)
GameInv ==
  /\ Committed(messageBus)
  /\ semaphoreCount = Len(messageBus.messages)
  /\ instanceCount = semaphoreCount
  /\ frame \in Nat /\ frame + semaphoreCount <= MaxFrameCount
  /\ health \in Nat
  /\ pc \in [Threads -> {"ready", "waiting", "done"}]
  /\ pc[Consumer] = "done" => frame = MaxFrameCount

(* What Committed says of the fields.                                      *)
LEMMA CommittedFields ==
  ASSUME NEW q, Committed(q)
  PROVE  /\ q.messages \in Seq(Producers) /\ Len(q.messages) \in 0 .. 1
         /\ q.overflowMessages = <<>> /\ q.activeMessageStart = 0
         /\ Count(q) = Len(q.messages)
<1>1. PICK list, size :
        /\ list \in Seq(Producers)
        /\ Len(list) <= 1
        /\ q = [messages |-> list, capacity |-> size, overflowMessages |-> <<>>,
                activeMessageStart |-> 0, messageCount |-> Len(list)]
  BY DEF Committed
<1> QED BY <1>1 DEF Count

(* A queue without messages is committed.                                  *)
LEMMA EmptyCommitted ==
  ASSUME NEW size,
         NEW q, q = [messages |-> <<>>, capacity |-> size,
                     overflowMessages |-> <<>>, activeMessageStart |-> 0,
                     messageCount |-> 0]
  PROVE  Committed(q) /\ q.messages = <<>>
<1>1. <<>> \in Seq(Producers) /\ Len(<<>>) = 0 /\ Len(<<>>) <= 1
  OBVIOUS
<1> QED BY <1>1 DEF Committed

(* What the queue's methods do to it when it is empty: a message that is   *)
(* enqueued is the only one when the change is committed, with or without  *)
(* the overflow vector.                                                    *)
LEMMA CommitOne ==
  ASSUME NEW q, Committed(q), q.messages = <<>>,
         NEW r \in Commits(q), NEW p \in Producers,
         NEW next \in Commits(Enqueue(r, p))
  PROVE  Committed(next) /\ next.messages = <<p>>
<1> DEFINE Queue(list, size, overflow, count) ==
             [messages |-> list, capacity |-> size,
              overflowMessages |-> overflow, activeMessageStart |-> 0,
              messageCount |-> count]
           Committing(x, all, c) ==
             [x EXCEPT !.messages = all, !.capacity = c,
                       !.messageCount = Len(all), !.overflowMessages = <<>>]
<1>1. ASSUME NEW x, NEW y \in Commits(x)
      PROVE  \E c : y = Committing(x, x.messages \o x.overflowMessages, c)
  BY <1>1 DEF Commits
<1>2. /\ <<>> \o <<>> = <<>> /\ Len(<<>>) = 0
      /\ <<p>> \o <<>> = <<p>> /\ <<>> \o <<p>> = <<p>>
      /\ <<p>> \in Seq(Producers) /\ Len(<<p>>) = 1
  OBVIOUS
<1>3. PICK list, size : /\ list \in Seq(Producers)
                        /\ q = Queue(list, size, <<>>, Len(list))
  BY DEF Committed
<1>4. list = <<>>
  BY <1>3
<1>5. q = Queue(<<>>, size, <<>>, 0)
  BY <1>2, <1>3, <1>4
<1>6. PICK grown : r = Queue(<<>>, grown, <<>>, 0)
  <2>1. q.messages \o q.overflowMessages = <<>>
    BY <1>2, <1>5
  <2>2. PICK c : r = Committing(q, <<>>, c)
    <3> HIDE DEF Committing
    <3>1. PICK c : r = Committing(q, q.messages \o q.overflowMessages, c)
      BY <1>1
    <3> QED BY <2>1, <3>1
  <2>3. r = Queue(<<>>, c, <<>>, 0)
    BY <2>2, <1>2, <1>5
  <2> HIDE DEF Queue
  <2> QED BY <2>3
<1>7. \/ Enqueue(r, p) = Queue(<<p>>, grown, <<>>, 0)
      \/ Enqueue(r, p) = Queue(<<>>, grown, <<p>>, 0)
  <2>1. Append(<<>>, p) = <<p>>
    OBVIOUS
  <2> QED BY <2>1, <1>6 DEF Enqueue
<1>8. PICK c : next = Queue(<<p>>, c, <<>>, 1)
  <2> DEFINE added == Enqueue(r, p)
  <2>1. added.messages \o added.overflowMessages = <<p>>
    <3>1. CASE added = Queue(<<p>>, grown, <<>>, 0)
      BY <3>1, <1>2
    <3>2. CASE added = Queue(<<>>, grown, <<p>>, 0)
      BY <3>2, <1>2
    <3> QED BY <3>1, <3>2, <1>7
  <2> HIDE DEF added
  <2>2. PICK c : next = Committing(added, <<p>>, c)
    <3> HIDE DEF Committing
    <3>1. PICK c : next =
          Committing(added, added.messages \o added.overflowMessages, c)
      BY <1>1 DEF added
    <3> QED BY <2>1, <3>1
  <2>3. next = Queue(<<p>>, c, <<>>, 1)
    <3>1. CASE added = Queue(<<p>>, grown, <<>>, 0)
      BY <3>1, <2>2, <1>2
    <3>2. CASE added = Queue(<<>>, grown, <<p>>, 0)
      BY <3>2, <2>2, <1>2
    <3> QED BY <3>1, <3>2, <1>7 DEF added
  <2> HIDE DEF Queue
  <2> QED BY <2>3
<1>9. next.messages = <<p>>
  BY <1>8
<1>10. Committed(next)
  <2>1. <<p>> \in Seq(Producers) /\ Len(<<p>>) <= 1
    BY <1>2
  <2>2. next = Queue(<<p>>, c, <<>>, Len(<<p>>))
    BY <1>2, <1>8
  <2> QED BY <2>1, <2>2 DEF Committed
<1> QED BY <1>9, <1>10

(* Draining a queue of one message empties it.                             *)
LEMMA DrainOne ==
  ASSUME NEW q, Committed(q), Len(q.messages) = 1
  PROVE  LET drained == [q EXCEPT !.activeMessageStart = q.messageCount]
         IN  /\ Committed(InactiveCleared(drained))
             /\ InactiveCleared(drained).messages = <<>>
             /\ Len(Inactive(drained)) = 1
             /\ \E p \in Producers :
                  SubSeq(q.messages, q.activeMessageStart + 1, q.messageCount)
                    = <<p>>
<1> DEFINE drained == [q EXCEPT !.activeMessageStart = q.messageCount]
<1>1. PICK p \in Producers : q.messages = <<p>>
  BY CommittedFields
<1>2. PICK list, size :
        /\ list \in Seq(Producers)
        /\ q = [messages |-> list, capacity |-> size, overflowMessages |-> <<>>,
                activeMessageStart |-> 0, messageCount |-> Len(list)]
  BY DEF Committed
<1>3. list = <<p>> /\ Len(list) = 1
  BY <1>1, <1>2
<1> DEFINE first == SubSeq(list, 1, 1)
           rest  == SubSeq(list, 2, 1)
<1>4. first = <<p>> /\ rest = <<>> /\ Len(first) = 1
  <2>1. list \in Seq(Producers) /\ Len(list) = 1 /\ list[1] = p
    BY <1>3
  <2>2. first \in Seq(Producers) /\ Len(first) = 1 /\ first[1] = p
    BY <2>1
  <2>3. rest \in Seq(Producers) /\ Len(rest) = 0
    BY <2>1
  <2> HIDE DEF first, rest
  <2> QED BY <2>2, <2>3
<1>5. drained = [messages |-> list, capacity |-> size,
                 overflowMessages |-> <<>>, activeMessageStart |-> 1,
                 messageCount |-> 1]
  BY <1>2, <1>3
<1>6. SubSeq(drained.messages, drained.activeMessageStart + 1,
             Len(drained.messages)) = <<>>
  <2>1. drained.messages = list /\ drained.activeMessageStart + 1 = 2
    BY <1>5
  <2> HIDE DEF drained
  <2> QED BY <2>1, <1>3, <1>4
<1>7. InactiveCleared(drained) =
        [messages |-> <<>>, capacity |-> size, overflowMessages |-> <<>>,
         activeMessageStart |-> 0, messageCount |-> 0]
  <2> HIDE DEF drained
  <2>1. Len(<<>>) = 0
    OBVIOUS
  <2>2. InactiveCleared(drained) =
          [drained EXCEPT !.messages = <<>>, !.messageCount = 0,
                          !.activeMessageStart = 0]
    BY <2>1, <1>6 DEF InactiveCleared
  <2> QED BY <2>2, <1>5
<1>8. Inactive(drained) = first
  BY <1>5 DEF Inactive
<1>9. SubSeq(q.messages, q.activeMessageStart + 1, q.messageCount) = first
  <2>1. q.messages = list /\ q.activeMessageStart + 1 = 1 /\ q.messageCount = 1
    BY <1>2, <1>3
  <2> QED BY <2>1
<1> HIDE DEF drained, first
<1>10. /\ Committed(InactiveCleared(drained))
       /\ InactiveCleared(drained).messages = <<>>
  BY <1>7, EmptyCommitted
<1> QED BY <1>4, <1>8, <1>9, <1>10 DEF drained

(* The program starts with an empty queue and every thread ready.          *)
LEMMA InitGame ==
  ASSUME ProgramInit
  PROVE  GameInv
<1>1. Committed(messageBus) /\ messageBus.messages = <<>>
  BY EmptyCommitted DEF ProgramInit, EmptyQueue
<1>2. Len(messageBus.messages) = 0
  BY <1>1
<1>3. /\ semaphoreCount = 0 /\ instanceCount = 0 /\ frame = 0
      /\ health \in Nat /\ MaxFrameCount \in Nat
  BY ConsumerProducerAssumption DEF ProgramInit
<1>4. /\ pc \in [Threads -> {"ready", "waiting", "done"}]
      /\ pc[Consumer] = "ready"
  BY DEF ProgramInit, Threads
<1> QED BY <1>1, <1>2, <1>3, <1>4 DEF GameInv

(* A thread that changes pc alone is not the consumer that ends early.     *)
LEMMA PcOnly ==
  ASSUME GameInv, NEW t \in Threads,
         NEW place \in {"ready", "waiting", "done"},
         pc' = [pc EXCEPT ![t] = place],
         UNCHANGED <<messageBus, frame, semaphoreCount, health, instanceCount>>,
         t = Consumer => place # "done"
  PROVE  GameInv'
<1>1. /\ pc' \in [Threads -> {"ready", "waiting", "done"}]
      /\ pc'[Consumer] = "done" => pc[Consumer] = "done"
  BY DEF GameInv, Threads
<1> QED BY <1>1 DEF GameInv

(* GameInv is inductive: one step per thing a thread does with the mutex.  *)
LEMMA NextGame ==
  ASSUME GameInv, [ProgramNext]_programVars
  PROVE  GameInv'
<1>1. /\ Committed(messageBus) /\ messageBus.messages \in Seq(Producers)
      /\ Len(messageBus.messages) \in 0 .. 1
      /\ semaphoreCount = Len(messageBus.messages)
      /\ instanceCount = semaphoreCount
      /\ frame \in Nat /\ frame + semaphoreCount <= MaxFrameCount
      /\ health \in Nat /\ MaxFrameCount \in Nat
      /\ pc \in [Threads -> {"ready", "waiting", "done"}]
      /\ Count(messageBus) = Len(messageBus.messages)
  BY CommittedFields, ConsumerProducerAssumption DEF GameInv
<1>2. ASSUME NEW p \in Producers, ProducerWait(p) \/ ProducerExit(p)
      PROVE  GameInv'
  <2>1. p \in Threads /\ p # Consumer
    BY ConsumerProducerAssumption DEF Threads
  <2> QED BY <2>1, <1>2, PcOnly DEF ProducerWait, ProducerExit, Block
<1>3. ASSUME NEW p \in Producers, Produce(p)
      PROVE  GameInv'
  <2>1. messageBus.messages = <<>> /\ semaphoreCount = 0
    <3>1. Len(messageBus.messages) = 0 /\ semaphoreCount = 0
      BY <1>1, <1>3 DEF Produce, Empty
    <3> QED BY <3>1, <1>1
  <2>2. Committed(messageBus') /\ messageBus'.messages = <<p>>
    BY <2>1, <1>1, <1>3, CommitOne DEF Produce
  <2>3. /\ semaphoreCount' = 1 /\ instanceCount' = 1
        /\ Len(messageBus'.messages) = 1
        /\ UNCHANGED <<frame, health>> /\ frame < MaxFrameCount
    BY <2>1, <2>2, <1>1, <1>3 DEF Produce
  <2>4. frame + 1 <= MaxFrameCount
    BY <2>3, <1>1
  <2>5. /\ pc' \in [Threads -> {"ready", "waiting", "done"}]
        /\ pc'[Consumer] = "done" => pc[Consumer] = "done"
    BY <1>1, <1>3 DEF Produce, NotifyOne, Waiting, Threads
  <2> QED BY <2>2, <2>3, <2>4, <2>5, <1>1 DEF GameInv
<1>4. CASE ConsumerWait
  BY <1>4, PcOnly DEF ConsumerWait, Block, Threads
<1>5. CASE Simulate
  <2> DEFINE drained == [messageBus EXCEPT
                           !.activeMessageStart = messageBus.messageCount]
             active  == SubSeq(messageBus.messages,
                               messageBus.activeMessageStart + 1,
                               messageBus.messageCount)
  <2>1. Len(messageBus.messages) = 1 /\ semaphoreCount = 1
    BY <1>1, <1>5 DEF Simulate
  <2>2. /\ messageBus' = InactiveCleared(drained)
        /\ health' = FoldLeft(Processed, health, active)
        /\ instanceCount' = instanceCount - Len(Inactive(drained))
        /\ frame' = frame + 1 /\ semaphoreCount' = semaphoreCount - 1
        /\ pc' = [u \in Threads |->
                    IF u = Consumer
                    THEN IF frame + 1 < MaxFrameCount THEN "ready" ELSE "done"
                    ELSE IF u \in Waiting THEN "ready" ELSE pc[u]]
    BY <1>5 DEF Simulate, NotifyAll
  <2>3. /\ Committed(messageBus') /\ messageBus'.messages = <<>>
        /\ Len(Inactive(drained)) = 1
        /\ \E p \in Producers : active = <<p>>
    BY <2>1, <2>2, <1>1, DrainOne
  <2> HIDE DEF drained, active
  <2>4. health' \in Nat
    <3>1. PICK p \in Producers : active = <<p>>
      BY <2>3
    <3>2. health' = Processed(health, p)
      BY <3>1, <2>2, FoldOne
    <3>3. Payload[p] \in Int
      BY ConsumerProducerAssumption
    <3> QED BY <3>2, <3>3, <1>1 DEF Processed
  <2>5. /\ semaphoreCount' = 0 /\ instanceCount' = 0
        /\ Len(messageBus'.messages) = 0
        /\ frame' \in Nat /\ frame' <= MaxFrameCount
    BY <2>1, <2>2, <2>3, <1>1
  <2>6. pc' \in [Threads -> {"ready", "waiting", "done"}]
    BY <2>2, <1>1
  <2>7. pc'[Consumer] = "done" => frame' = MaxFrameCount
    <3>1. Consumer \in Threads
      BY DEF Threads
    <3>2. pc'[Consumer] = IF frame + 1 < MaxFrameCount THEN "ready" ELSE "done"
      BY <2>2, <3>1
    <3> QED BY <3>2, <2>2, <2>5, <1>1
  <2>8. frame' + semaphoreCount' <= MaxFrameCount
    <3> DEFINE next == frame'
               left == semaphoreCount'
    <3>1. next \in Nat /\ next <= MaxFrameCount /\ left = 0
      BY <2>5
    <3> HIDE DEF next, left
    <3>2. next + left <= MaxFrameCount
      BY <3>1, <1>1
    <3> QED BY <3>2 DEF next, left
  <2> QED BY <2>3, <2>4, <2>5, <2>6, <2>7, <2>8 DEF GameInv
<1>6. ASSUME NEW t \in Threads, SpuriousWakeup(t)
      PROVE  GameInv'
  BY <1>6, PcOnly DEF SpuriousWakeup
<1>7. CASE Finish
  <2>1. pc[Consumer] = "done"
    BY <1>7 DEF Finish, Threads
  <2>2. semaphoreCount = 0 /\ messageBus.messages = <<>>
    BY <2>1, <1>1 DEF GameInv
  <2>3. /\ Len(messageBus.overflowMessages) = 0 /\ Len(messageBus.messages) = 0
        /\ instanceCount \in Nat
    BY <1>1, <2>2, CommittedFields
  <2>4. /\ messageBus' = Cleared(messageBus) /\ instanceCount' = instanceCount
        /\ UNCHANGED <<frame, semaphoreCount, health, pc>>
    <3>1. instanceCount' = instanceCount - Len(messageBus.messages)
                             - Len(messageBus.overflowMessages)
      BY <1>7 DEF Finish
    <3> QED BY <3>1, <2>3, <1>7 DEF Finish
  <2>5. Committed(messageBus') /\ messageBus'.messages = <<>>
    <3>1. messageBus' = [messages |-> <<>>, capacity |-> messageBus.capacity,
                    overflowMessages |-> <<>>, activeMessageStart |-> 0,
                    messageCount |-> 0]
      BY <2>4 DEF Cleared, EmptyQueue
    <3> QED BY <3>1, EmptyCommitted
  <2> QED BY <2>2, <2>4, <2>5 DEF GameInv
<1>8. CASE UNCHANGED programVars
  BY <1>8 DEF programVars, GameInv
<1> QED BY <1>2, <1>3, <1>4, <1>5, <1>6, <1>7, <1>8
        DEF ProgramNext, Producer, Simulation

(* main.cpp:57-112: whatever the scheduler does, whoever is notified and   *)
(* wakes up, the semaphore counts the messages on the bus, and a frame     *)
(* processes and deletes exactly one.                                      *)
THEOREM FramesTakeOneMessage == ProgramSpec => []OneMessagePerFrame
<1>1. ASSUME GameInv PROVE OneMessagePerFrame
  <2>1. /\ Len(messageBus.messages) \in 0 .. 1
        /\ Count(messageBus) = Len(messageBus.messages)
        /\ messageBus.overflowMessages = <<>>
        /\ messageBus.activeMessageStart = 0
    BY <1>1, CommittedFields DEF GameInv
  <2>2. frame \in 0 .. MaxFrameCount
    BY <2>1, <1>1, ConsumerProducerAssumption DEF GameInv
  <2>3. ProgramTypeOK
    <3>1. semaphoreCount = Len(messageBus.messages)
      BY <1>1 DEF GameInv
    <3> DEFINE n == Len(messageBus.messages)
    <3>2. n \in 0 .. 1
      BY <2>1
    <3> HIDE DEF n
    <3>3. n <= 1
      BY <3>2
    <3> USE DEF n
    <3> QED BY <3>1, <3>3, <2>1, <2>2, <1>1 DEF GameInv, ProgramTypeOK
  <2> QED BY <2>1, <2>3, <1>1 DEF GameInv, OneMessagePerFrame
<1> QED BY <1>1, InitGame, NextGame, PTL DEF ProgramSpec
=============================================================================
