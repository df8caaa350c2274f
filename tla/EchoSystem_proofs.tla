--------------------------- MODULE EchoSystem_proofs ---------------------------
(***************************************************************************)
(* What holds of the producer/consumer client and of the poll server for   *)
(* every number of sockets, length of the queue and size of the array,     *)
(* and of both together.                                                   *)
(***************************************************************************)
EXTENDS EchoSystem, SequenceTheorems, TLAPS

-----------------------------------------------------------------------------
\* The producer and the consumer.

ProducerAt == {"connect", "wait", "lock", "insert", "inserted", "post"}
ConsumerAt ==
  {"wait", "lock", "remove", "removed", "post", "send", "recv", "close"}

\* An insertion is never refused and a removal never finds nothing, so those
\* points of the threads do not occur.
ThreadsTypeOK ==
  /\ empty \in Nat /\ full \in Nat
  /\ mutex \in {"free", "producer", "consumer"}
  /\ queue \in Seq(Sockets)
  /\ producer \in [at : ProducerAt, fd : Sockets \cup {NoSocket}]
  /\ consumer \in [at : ConsumerAt, fd : Sockets \cup {NoSocket}]
  /\ openSockets \subseteq Sockets
  /\ producer.fd = NoSocket <=> producer.at = "connect"
  /\ consumer.fd = NoSocket <=> consumer.at \in {"wait", "lock", "remove"}

MutexExcludes ==
  /\ mutex = "producer" <=> producer.at \in {"insert", "inserted"}
  /\ mutex = "consumer" <=> consumer.at \in {"remove", "removed"}

One(condition) == IF condition THEN 1 ELSE 0

\* full lags behind the items by what a thread has inserted and not posted,
\* or taken by sem_wait and not removed; empty behind the places likewise.
SemaphoresCount ==
  /\ full = Len(queue) - One(producer.at \in {"inserted", "post"})
                       - One(consumer.at \in {"lock", "remove"})
  /\ empty = QueueCapacity - Len(queue)
                - One(producer.at \in {"lock", "insert"})
                - One(consumer.at \in {"removed", "post"})

\* The inductive invariant.
ThreadsInv ==
  /\ ThreadsTypeOK
  /\ MutexExcludes
  /\ SemaphoresCount
  /\ EachSocketHasOneOwner

LEMMA ThreadsInit ==
  ASSUME ProducerConsumerInit
  PROVE  ThreadsInv
<1>1. ThreadsTypeOK
  BY ProducerConsumerAssumption
  DEF ProducerConsumerInit, ThreadsTypeOK, Thread, ProducerAt, ConsumerAt
<1>2. MutexExcludes
  BY DEF ProducerConsumerInit, MutexExcludes, Thread
<1>3. SemaphoresCount
  BY ProducerConsumerAssumption
  DEF ProducerConsumerInit, SemaphoresCount, One, Thread
<1>4. EachSocketHasOneOwner
  BY DEF ProducerConsumerInit, EachSocketHasOneOwner, Thread, Held, Queued,
         HandedOver
<1> QED
  BY <1>1, <1>2, <1>3, <1>4 DEF ThreadsInv

\* The semaphores leave room for every insertion and an item for every
\* removal.
LEMMA RoomAndItem ==
  ASSUME ThreadsInv
  PROVE  /\ Len(queue) \in Nat
         /\ producer.at = "insert" => Len(queue) < QueueCapacity
         /\ consumer.at = "remove" => queue # <<>>
<1>1. Len(queue) \in Nat
  BY LenProperties DEF ThreadsInv, ThreadsTypeOK
<1>2. producer.at = "insert" => Len(queue) < QueueCapacity
  BY <1>1, ProducerConsumerAssumption
  DEF ThreadsInv, ThreadsTypeOK, SemaphoresCount, One
<1>3. consumer.at = "remove" => Len(queue) > 0
  BY <1>1 DEF ThreadsInv, ThreadsTypeOK, SemaphoresCount, One
<1>4. queue = <<>> => Len(queue) = 0
  OBVIOUS
<1> QED
  BY <1>1, <1>2, <1>3, <1>4

\* What an insertion does to the set of queued sockets: the new one was not
\* there.
LEMMA QueuedAfterAppend ==
  ASSUME queue \in Seq(Sockets), NEW s \in Sockets, s \notin Queued,
         \A m, n \in DOMAIN queue : queue[m] = queue[n] => m = n,
         queue' = Append(queue, s)
  PROVE  /\ Queued' = Queued \cup {s}
         /\ \A m, n \in DOMAIN queue' : queue'[m] = queue'[n] => m = n
         /\ Len(queue') = Len(queue) + 1
<1>1. /\ queue' \in Seq(Sockets) /\ Len(queue') = Len(queue) + 1
      /\ \A n \in 1..Len(queue) : queue'[n] = queue[n]
      /\ queue'[Len(queue) + 1] = s
  BY AppendProperties
<1>2. Len(queue) \in Nat /\ DOMAIN queue = 1..Len(queue)
      /\ DOMAIN queue' = 1..Len(queue) + 1
  BY <1>1, LenProperties
<1>3. Queued' = Queued \cup {s}
  BY <1>1, <1>2 DEF Queued
<1>4. ASSUME NEW m \in DOMAIN queue', NEW n \in DOMAIN queue',
             queue'[m] = queue'[n]
      PROVE  m = n
  <2>1. \A k \in DOMAIN queue : queue'[k] # s
    BY <1>1, <1>2 DEF Queued
  <2>2. \A k \in DOMAIN queue' : k \in DOMAIN queue \/ k = Len(queue) + 1
    BY <1>2
  <2>3. CASE m \in DOMAIN queue /\ n \in DOMAIN queue
    BY <1>1, <1>2, <1>4, <2>3
  <2> QED
    BY <1>1, <1>4, <2>1, <2>2, <2>3
<1> QED
  BY <1>1, <1>3, <1>4

\* And what a removal does: the head is there once.
LEMMA QueuedAfterTail ==
  ASSUME queue \in Seq(Sockets), queue # <<>>,
         \A m, n \in DOMAIN queue : queue[m] = queue[n] => m = n,
         queue' = Tail(queue)
  PROVE  /\ Queued = Queued' \cup {Head(queue)}
         /\ Head(queue) \notin Queued'
         /\ \A m, n \in DOMAIN queue' : queue'[m] = queue'[n] => m = n
         /\ Len(queue') = Len(queue) - 1
<1>1. /\ queue' \in Seq(Sockets) /\ Len(queue') = Len(queue) - 1
      /\ Len(queue) \in Nat \ {0}
      /\ Head(queue) = queue[1]
      /\ \A n \in 1..Len(queue) - 1 : queue'[n] = queue[n + 1]
  BY HeadTailProperties, LenProperties, EmptySeq
<1>2. DOMAIN queue = 1..Len(queue) /\ DOMAIN queue' = 1..Len(queue) - 1
  BY <1>1, LenProperties
<1>3. Queued = Queued' \cup {queue[1]}
  <2>1. \A n \in DOMAIN queue' : n + 1 \in DOMAIN queue
    BY <1>1, <1>2
  <2>2. \A n \in DOMAIN queue : n = 1 \/ (n - 1 \in DOMAIN queue' /\ queue'[n - 1] = queue[n])
    BY <1>1, <1>2
  <2>3. 1 \in DOMAIN queue
    BY <1>1, <1>2
  <2>4. Queued' \subseteq Queued
    BY <1>1, <1>2, <2>1 DEF Queued
  <2>5. ASSUME NEW n \in DOMAIN queue
        PROVE  queue[n] \in Queued' \cup {queue[1]}
    BY <2>2 DEF Queued
  <2> QED
    BY <2>3, <2>4, <2>5 DEF Queued
<1>4. queue[1] \notin Queued'
  BY <1>1, <1>2 DEF Queued
<1>5. \A m, n \in DOMAIN queue' : queue'[m] = queue'[n] => m = n
  BY <1>1, <1>2
<1> QED
  BY <1>1, <1>3, <1>4, <1>5

LEMMA ProducerConnectKeeps ==
  ASSUME ThreadsInv, NEW s \in Sockets, ProducerConnect(s)
  PROVE  ThreadsInv'
<1>1. ThreadsTypeOK'
  BY ProducerConsumerAssumption
  DEF ProducerConnect, ThreadsInv, ThreadsTypeOK, ProducerAt, ConsumerAt, Thread
<1>2. MutexExcludes'
  BY DEF ProducerConnect, ThreadsInv, ThreadsTypeOK, MutexExcludes, Thread
<1>3. SemaphoresCount'
  BY DEF ProducerConnect, ThreadsInv, ThreadsTypeOK, SemaphoresCount, One, Thread
<1>4. EachSocketHasOneOwner'
  <2>1. /\ producer.at = "connect" /\ Held(producer) = {} /\ ~HandedOver
        /\ s \notin Queued \cup Held(consumer)
    BY DEF ProducerConnect, ThreadsInv, ThreadsTypeOK, EachSocketHasOneOwner,
           Held, HandedOver
  <2>2. Held(producer)' = {s} /\ ~HandedOver'
    BY ProducerConsumerAssumption DEF ProducerConnect, Thread, Held, HandedOver
  <2>3. Queued' = Queued /\ Held(consumer)' = Held(consumer) /\ queue' = queue
        /\ openSockets' = openSockets \cup {s}
    BY DEF ProducerConnect, Queued, Held
  <2> QED
    BY <2>1, <2>2, <2>3 DEF EachSocketHasOneOwner, ThreadsInv
<1> QED
  BY <1>1, <1>2, <1>3, <1>4 DEF ThreadsInv

LEMMA ProducerWaitKeeps ==
  ASSUME ThreadsInv, ProducerWait
  PROVE  ThreadsInv'
<1>1. ThreadsTypeOK'
  BY ProducerConsumerAssumption
  DEF ProducerWait, ThreadsInv, ThreadsTypeOK, ProducerAt, ConsumerAt, Thread
<1>2. MutexExcludes'
  BY DEF ProducerWait, ThreadsInv, ThreadsTypeOK, MutexExcludes, Thread
<1>3. SemaphoresCount'
  <2> USE DEF ThreadsInv, ThreadsTypeOK
  <2>1. Len(queue) \in Nat
    BY RoomAndItem
  <2> QED
    BY <2>1, ProducerConsumerAssumption
    DEF ProducerWait, SemaphoresCount, One
<1>4. EachSocketHasOneOwner'
  BY DEF ProducerWait, ThreadsInv, ThreadsTypeOK, EachSocketHasOneOwner, Held,
         Queued, HandedOver, Thread
<1> QED
  BY <1>1, <1>2, <1>3, <1>4 DEF ThreadsInv

LEMMA ProducerLockKeeps ==
  ASSUME ThreadsInv, ProducerLock
  PROVE  ThreadsInv'
<1>1. ThreadsTypeOK'
  BY ProducerConsumerAssumption
  DEF ProducerLock, ThreadsInv, ThreadsTypeOK, ProducerAt, ConsumerAt, Thread
<1>2. MutexExcludes'
  BY DEF ProducerLock, ThreadsInv, ThreadsTypeOK, MutexExcludes, Thread
<1>3. SemaphoresCount'
  BY DEF ProducerLock, ThreadsInv, ThreadsTypeOK, SemaphoresCount, One, Thread
<1>4. EachSocketHasOneOwner'
  BY DEF ProducerLock, ThreadsInv, ThreadsTypeOK, EachSocketHasOneOwner, Held,
         Queued, HandedOver, Thread
<1> QED
  BY <1>1, <1>2, <1>3, <1>4 DEF ThreadsInv

LEMMA ProducerInsertKeeps ==
  ASSUME ThreadsInv, ProducerInsert
  PROVE  ThreadsInv'
<1>1. /\ producer.at = "insert" /\ producer.fd \in Sockets
      /\ queue \in Seq(Sockets)
      /\ queue' = Append(queue, producer.fd)
      /\ producer' = [producer EXCEPT !.at = "inserted"]
      /\ producer.fd \notin Queued
      /\ UNCHANGED <<empty, full, mutex, consumer, openSockets>>
  BY RoomAndItem
  DEF ProducerInsert, ThreadsInv, ThreadsTypeOK, EachSocketHasOneOwner, Held,
      HandedOver
<1>2. /\ Queued' = Queued \cup {producer.fd}
      /\ \A m, n \in DOMAIN queue' : queue'[m] = queue'[n] => m = n
      /\ Len(queue') = Len(queue) + 1
  BY <1>1, QueuedAfterAppend DEF ThreadsInv, EachSocketHasOneOwner
<1>3. ThreadsTypeOK'
  <2>1. queue' \in Seq(Sockets)
    BY <1>1, AppendProperties
  <2> QED
    BY <1>1, <2>1 DEF ThreadsInv, ThreadsTypeOK, ProducerAt
<1>4. MutexExcludes'
  BY <1>1 DEF ThreadsInv, ThreadsTypeOK, MutexExcludes
<1>5. SemaphoresCount'
  <2>1. producer'.at = "inserted" /\ Len(queue) \in Nat
    BY <1>1, RoomAndItem DEF ThreadsInv, ThreadsTypeOK
  <2> QED
    BY <1>1, <1>2, <2>1, ProducerConsumerAssumption
    DEF ThreadsInv, SemaphoresCount, One
<1>6. EachSocketHasOneOwner'
  <2>1. HandedOver' /\ ~HandedOver
    BY <1>1 DEF HandedOver, ThreadsInv, ThreadsTypeOK
  <2>2. Held(producer) = {producer.fd} /\ Held(consumer)' = Held(consumer)
    BY <1>1, ProducerConsumerAssumption DEF Held
  <2> QED
    BY <1>1, <1>2, <2>1, <2>2 DEF EachSocketHasOneOwner, ThreadsInv
<1> QED
  BY <1>3, <1>4, <1>5, <1>6 DEF ThreadsInv

LEMMA ProducerUnlockKeeps ==
  ASSUME ThreadsInv, ProducerUnlock
  PROVE  ThreadsInv'
<1>1. ThreadsTypeOK'
  BY ProducerConsumerAssumption
  DEF ProducerUnlock, ThreadsInv, ThreadsTypeOK, ProducerAt, ConsumerAt, Thread
<1>2. MutexExcludes'
  <2>1. /\ mutex = "producer" /\ mutex' = "free" /\ consumer' = consumer
        /\ producer'.at = "post"
    BY DEF ProducerUnlock, ThreadsInv, ThreadsTypeOK, ProducerAt, MutexExcludes
  <2> QED
    BY <2>1 DEF ThreadsInv, MutexExcludes
<1>3. SemaphoresCount'
  BY DEF ProducerUnlock, ThreadsInv, ThreadsTypeOK, SemaphoresCount, One, Thread
<1>4. EachSocketHasOneOwner'
  BY DEF ProducerUnlock, ThreadsInv, ThreadsTypeOK, EachSocketHasOneOwner, Held,
         Queued, HandedOver, Thread
<1> QED
  BY <1>1, <1>2, <1>3, <1>4 DEF ThreadsInv

LEMMA ProducerPostKeeps ==
  ASSUME ThreadsInv, ProducerPost
  PROVE  ThreadsInv'
<1>1. ThreadsTypeOK'
  <2>1. producer' = Thread("connect", NoSocket) /\ full' = full + 1
        /\ UNCHANGED <<empty, openSockets, mutex, queue, consumer>>
    BY DEF ProducerPost, ThreadsInv, ThreadsTypeOK, ProducerAt
  <2> QED
    BY <2>1 DEF ThreadsInv, ThreadsTypeOK, ProducerAt, Thread
<1>2. MutexExcludes'
  BY DEF ProducerPost, ThreadsInv, ThreadsTypeOK, MutexExcludes, Thread
<1>3. SemaphoresCount'
  <2>1. /\ producer.at = "post" /\ producer'.at = "connect" /\ full' = full + 1
        /\ UNCHANGED <<empty, queue, consumer>>
    BY DEF ProducerPost, ThreadsInv, ThreadsTypeOK, ProducerAt, Thread
  <2>2. Len(queue) \in Nat
    BY RoomAndItem
  <2> QED
    BY <2>1, <2>2, ProducerConsumerAssumption DEF ThreadsInv, SemaphoresCount, One
<1>4. EachSocketHasOneOwner'
  BY DEF ProducerPost, ThreadsInv, ThreadsTypeOK, EachSocketHasOneOwner, Held,
         Queued, HandedOver, Thread
<1> QED
  BY <1>1, <1>2, <1>3, <1>4 DEF ThreadsInv

LEMMA ConsumerWaitKeeps ==
  ASSUME ThreadsInv, ConsumerWait
  PROVE  ThreadsInv'
<1>1. ThreadsTypeOK'
  BY ProducerConsumerAssumption
  DEF ConsumerWait, ThreadsInv, ThreadsTypeOK, ProducerAt, ConsumerAt, Thread
<1>2. MutexExcludes'
  BY DEF ConsumerWait, ThreadsInv, ThreadsTypeOK, MutexExcludes, Thread
<1>3. SemaphoresCount'
  BY DEF ConsumerWait, ThreadsInv, ThreadsTypeOK, SemaphoresCount, One, Thread
<1>4. EachSocketHasOneOwner'
  BY DEF ConsumerWait, ThreadsInv, ThreadsTypeOK, EachSocketHasOneOwner, Held,
         Queued, HandedOver, Thread
<1> QED
  BY <1>1, <1>2, <1>3, <1>4 DEF ThreadsInv

LEMMA ConsumerLockKeeps ==
  ASSUME ThreadsInv, ConsumerLock
  PROVE  ThreadsInv'
<1>1. ThreadsTypeOK'
  BY ProducerConsumerAssumption
  DEF ConsumerLock, ThreadsInv, ThreadsTypeOK, ProducerAt, ConsumerAt, Thread
<1>2. MutexExcludes'
  BY DEF ConsumerLock, ThreadsInv, ThreadsTypeOK, MutexExcludes, Thread
<1>3. SemaphoresCount'
  BY DEF ConsumerLock, ThreadsInv, ThreadsTypeOK, SemaphoresCount, One, Thread
<1>4. EachSocketHasOneOwner'
  BY DEF ConsumerLock, ThreadsInv, ThreadsTypeOK, EachSocketHasOneOwner, Held,
         Queued, HandedOver, Thread
<1> QED
  BY <1>1, <1>2, <1>3, <1>4 DEF ThreadsInv

LEMMA ConsumerRemoveKeeps ==
  ASSUME ThreadsInv, ConsumerRemove
  PROVE  ThreadsInv'
<1>1. /\ consumer.at = "remove" /\ consumer.fd = NoSocket
      /\ queue \in Seq(Sockets) /\ queue # <<>>
      /\ queue' = Tail(queue)
      /\ consumer' = Thread("removed", Head(queue))
      /\ UNCHANGED <<empty, full, mutex, producer, openSockets>>
  BY RoomAndItem DEF ConsumerRemove, ThreadsInv, ThreadsTypeOK
<1>2. /\ Queued = Queued' \cup {Head(queue)}
      /\ Head(queue) \notin Queued'
      /\ \A m, n \in DOMAIN queue' : queue'[m] = queue'[n] => m = n
      /\ Len(queue') = Len(queue) - 1
  BY <1>1, QueuedAfterTail DEF ThreadsInv, EachSocketHasOneOwner
<1>3. Head(queue) \in Sockets /\ queue' \in Seq(Sockets)
  BY <1>1, HeadTailProperties
<1>4. ThreadsTypeOK'
  <2>1. /\ consumer' \in [at : ConsumerAt, fd : Sockets \cup {NoSocket}]
        /\ consumer'.fd # NoSocket /\ consumer'.at = "removed"
    BY <1>1, <1>3, ProducerConsumerAssumption DEF Thread, ConsumerAt
  <2> QED
    BY <1>1, <1>3, <2>1 DEF ThreadsInv, ThreadsTypeOK
<1>5. MutexExcludes'
  BY <1>1 DEF ThreadsInv, ThreadsTypeOK, MutexExcludes, Thread
<1>6. SemaphoresCount'
  <2>1. consumer'.at = "removed" /\ Len(queue) \in Nat
    BY <1>1, RoomAndItem DEF Thread
  <2> QED
    BY <1>1, <1>2, <2>1, ProducerConsumerAssumption
    DEF ThreadsInv, SemaphoresCount, One
<1>7. EachSocketHasOneOwner'
  <2>1. Held(consumer) = {} /\ Held(consumer)' = {Head(queue)}
    BY <1>1, <1>3, ProducerConsumerAssumption DEF Held, Thread
  <2>2. Held(producer)' = Held(producer) /\ HandedOver' = HandedOver
    BY <1>1 DEF Held, HandedOver
  <2> QED
    BY <1>1, <1>2, <2>1, <2>2 DEF EachSocketHasOneOwner, ThreadsInv
<1> QED
  BY <1>4, <1>5, <1>6, <1>7 DEF ThreadsInv

LEMMA ConsumerUnlockKeeps ==
  ASSUME ThreadsInv, ConsumerUnlock
  PROVE  ThreadsInv'
<1>1. ThreadsTypeOK'
  BY ProducerConsumerAssumption
  DEF ConsumerUnlock, ThreadsInv, ThreadsTypeOK, ProducerAt, ConsumerAt, Thread
<1>2. MutexExcludes'
  BY DEF ConsumerUnlock, ThreadsInv, ThreadsTypeOK, MutexExcludes, Thread
<1>3. SemaphoresCount'
  BY DEF ConsumerUnlock, ThreadsInv, ThreadsTypeOK, SemaphoresCount, One, Thread
<1>4. EachSocketHasOneOwner'
  BY DEF ConsumerUnlock, ThreadsInv, ThreadsTypeOK, EachSocketHasOneOwner, Held,
         Queued, HandedOver, Thread
<1> QED
  BY <1>1, <1>2, <1>3, <1>4 DEF ThreadsInv

LEMMA ConsumerPostKeeps ==
  ASSUME ThreadsInv, ConsumerPost
  PROVE  ThreadsInv'
<1>1. ThreadsTypeOK'
  <2>1. /\ consumer' = [consumer EXCEPT !.at = "send"] /\ consumer.fd # NoSocket
        /\ empty' = empty + 1
        /\ UNCHANGED <<full, mutex, queue, producer, openSockets>>
    BY DEF ConsumerPost, ThreadsInv, ThreadsTypeOK, ConsumerAt
  <2> QED
    BY <2>1 DEF ThreadsInv, ThreadsTypeOK, ConsumerAt
<1>2. MutexExcludes'
  BY DEF ConsumerPost, ThreadsInv, ThreadsTypeOK, MutexExcludes, Thread
<1>3. SemaphoresCount'
  <2>1. /\ consumer.at = "post" /\ consumer'.at = "send" /\ empty' = empty + 1
        /\ UNCHANGED <<full, queue, producer>>
    BY DEF ConsumerPost, ThreadsInv, ThreadsTypeOK, ConsumerAt
  <2>2. Len(queue) \in Nat
    BY RoomAndItem
  <2> QED
    BY <2>1, <2>2, ProducerConsumerAssumption DEF ThreadsInv, SemaphoresCount, One
<1>4. EachSocketHasOneOwner'
  BY DEF ConsumerPost, ThreadsInv, ThreadsTypeOK, EachSocketHasOneOwner, Held,
         Queued, HandedOver, Thread
<1> QED
  BY <1>1, <1>2, <1>3, <1>4 DEF ThreadsInv

LEMMA ConsumerSendKeeps ==
  ASSUME ThreadsInv, NEW ok \in BOOLEAN, ConsumerSend(ok)
  PROVE  ThreadsInv'
<1>1. ThreadsTypeOK'
  BY ProducerConsumerAssumption
  DEF ConsumerSend, ThreadsInv, ThreadsTypeOK, ProducerAt, ConsumerAt, Thread
<1>2. MutexExcludes'
  BY DEF ConsumerSend, ThreadsInv, ThreadsTypeOK, MutexExcludes, Thread
<1>3. SemaphoresCount'
  BY DEF ConsumerSend, ThreadsInv, ThreadsTypeOK, SemaphoresCount, One, Thread
<1>4. EachSocketHasOneOwner'
  BY DEF ConsumerSend, ThreadsInv, ThreadsTypeOK, EachSocketHasOneOwner, Held,
         Queued, HandedOver, Thread
<1> QED
  BY <1>1, <1>2, <1>3, <1>4 DEF ThreadsInv

LEMMA ConsumerRecvKeeps ==
  ASSUME ThreadsInv, ConsumerRecv
  PROVE  ThreadsInv'
<1>1. ThreadsTypeOK'
  BY ProducerConsumerAssumption
  DEF ConsumerRecv, ThreadsInv, ThreadsTypeOK, ProducerAt, ConsumerAt, Thread
<1>2. MutexExcludes'
  BY DEF ConsumerRecv, ThreadsInv, ThreadsTypeOK, MutexExcludes, Thread
<1>3. SemaphoresCount'
  BY DEF ConsumerRecv, ThreadsInv, ThreadsTypeOK, SemaphoresCount, One, Thread
<1>4. EachSocketHasOneOwner'
  BY DEF ConsumerRecv, ThreadsInv, ThreadsTypeOK, EachSocketHasOneOwner, Held,
         Queued, HandedOver, Thread
<1> QED
  BY <1>1, <1>2, <1>3, <1>4 DEF ThreadsInv

LEMMA ConsumerCloseKeeps ==
  ASSUME ThreadsInv, ConsumerClose
  PROVE  ThreadsInv'
<1>1. ThreadsTypeOK'
  BY ProducerConsumerAssumption
  DEF ConsumerClose, ThreadsInv, ThreadsTypeOK, ProducerAt, ConsumerAt, Thread
<1>2. MutexExcludes'
  BY DEF ConsumerClose, ThreadsInv, ThreadsTypeOK, MutexExcludes, Thread
<1>3. SemaphoresCount'
  BY DEF ConsumerClose, ThreadsInv, ThreadsTypeOK, SemaphoresCount, One, Thread
<1>4. EachSocketHasOneOwner'
  BY DEF ConsumerClose, ThreadsInv, ThreadsTypeOK, EachSocketHasOneOwner, Held,
         Queued, HandedOver, Thread
<1> QED
  BY <1>1, <1>2, <1>3, <1>4 DEF ThreadsInv

LEMMA ThreadsStep ==
  ASSUME ThreadsInv, [ProducerConsumerNext]_threadVars
  PROVE  ThreadsInv'
<1>1. CASE \E s \in Sockets : ProducerConnect(s)
  BY <1>1, ProducerConnectKeeps
<1>2. CASE ProducerInside
  BY <1>2, ProducerWaitKeeps, ProducerLockKeeps, ProducerInsertKeeps,
     ProducerUnlockKeeps, ProducerPostKeeps
  DEF ProducerInside
<1>3. CASE ConsumerInside
  BY <1>3, ConsumerWaitKeeps, ConsumerLockKeeps, ConsumerRemoveKeeps,
     ConsumerUnlockKeeps, ConsumerPostKeeps
  DEF ConsumerInside
<1>4. CASE \E ok \in BOOLEAN : ConsumerSend(ok)
  BY <1>4, ConsumerSendKeeps
<1>5. CASE ConsumerRecv \/ ConsumerClose
  BY <1>5, ConsumerRecvKeeps, ConsumerCloseKeeps
<1>6. CASE UNCHANGED threadVars
  BY <1>6
  DEF threadVars, ThreadsInv, ThreadsTypeOK, MutexExcludes, SemaphoresCount,
      EachSocketHasOneOwner, Held, Queued, HandedOver
<1> QED
  BY <1>1, <1>2, <1>3, <1>4, <1>5, <1>6 DEF ProducerConsumerNext

LEMMA ThreadsInvariant == ProducerConsumerSpec => []ThreadsInv
<1>1. ProducerConsumerInit => ThreadsInv
  BY ThreadsInit
<1>2. ThreadsInv /\ [ProducerConsumerNext]_threadVars => ThreadsInv'
  BY ThreadsStep
<1> QED
  BY <1>1, <1>2, PTL DEF ProducerConsumerSpec

\* The semaphores and the mutex do their work, whatever the capacity: no
\* insertion meets a full queue, no removal an empty one, and no two calls on
\* the queue overlap.
THEOREM QueueCallsNeverFail == ProducerConsumerSpec => []QueueCallsSucceed
<1>1. ThreadsInv => QueueCallsSucceed
  BY RoomAndItem
  DEF QueueCallsSucceed, ThreadsInv, MutexExcludes
<1> QED
  BY <1>1, ThreadsInvariant, PTL

\* No socket the client has opened is lost on its way through the queue, and
\* none is closed twice.
THEOREM SocketsHaveOneOwner == ProducerConsumerSpec => []EachSocketHasOneOwner
<1>1. ThreadsInv => EachSocketHasOneOwner
  BY DEF ThreadsInv
<1> QED
  BY <1>1, ThreadsInvariant, PTL

-----------------------------------------------------------------------------
\* The poll server.

Descriptors == Clients \cup {ServerSock}

PollTypeOK ==
  /\ conn \in [Clients -> Connection]
  /\ backlog \in Seq(Clients)
  /\ fds \in [Entries -> [fd : Descriptors, revents : SUBSET {"in", "err"}]]
  /\ pc \in {"poll", "accept", "serve"}
  /\ i \in Nat \ {0}
  /\ pc = "accept" => i = 1
  /\ unserved \subseteq Clients

\* The backlog holds each waiting client once.
BacklogWaits ==
  /\ \A n \in DOMAIN backlog : conn[backlog[n]].phase = "queued"
  /\ \A m, n \in DOMAIN backlog : backlog[m] = backlog[n] => m = n

\* The inductive invariant.
PollInv ==
  /\ PollTypeOK
  /\ BacklogWaits
  /\ EntriesMatchConnections
  /\ ReportsServedOnce

LEMMA PollInitial ==
  ASSUME PollServerInit
  PROVE  PollInv
<1>1. MaxClients \in Nat /\ ServerSock \notin Clients
  BY PollServerAssumption
<1>2. Down \in Connection /\ Down.phase = "down"
  BY DEF Down, Connection
<1>3. PollTypeOK
  <2>1. \A e \in Entries :
          Entry(ServerSock, IF e = 0 THEN {} ELSE {"in"})
            \in [fd : Descriptors, revents : SUBSET {"in", "err"}]
    BY DEF Entry, Descriptors
  <2>2. fds \in [Entries -> [fd : Descriptors, revents : SUBSET {"in", "err"}]]
    BY <2>1 DEF PollServerInit
  <2>3. conn \in [Clients -> Connection] /\ backlog \in Seq(Clients)
    BY <1>2 DEF PollServerInit
  <2>4. pc = "poll" /\ i = 1 /\ unserved = {}
    BY DEF PollServerInit
  <2> QED
    BY <2>2, <2>3, <2>4 DEF PollTypeOK
<1>4. BacklogWaits
  BY DEF PollServerInit, BacklogWaits
<1>5. ClientEntries = {}
  BY DEF PollServerInit, ClientEntries
<1>6. EntriesMatchConnections
  BY <1>1, <1>2, <1>5
  DEF PollServerInit, EntriesMatchConnections, Entries, Entry
<1>7. ReportsServedOnce
  BY DEF PollServerInit, ReportsServedOnce
<1> QED
  BY <1>3, <1>4, <1>6, <1>7 DEF PollInv

\* Whether a client's descriptor is readable.
Readable(k) == k.message \/ k.end # "up"

EventsTellReadable ==
  /\ \A c \in Clients : Events(c) # {} <=> Readable(conn[c])
  /\ \A fd \in Descriptors : Events(fd) \subseteq {"in", "err"}

LEMMA EventsAreReadable == EventsTellReadable
<1>1. \A c \in Clients : c # ServerSock
  BY PollServerAssumption
<1>2. \A c \in Clients : conn[c].end = "rst" => conn[c].end # "up"
  OBVIOUS
<1> QED
  BY <1>1, <1>2 DEF EventsTellReadable, Events, Readable

\* What the kernel's and the server's operations make of a connection.
LEMMA OnConnections ==
  ASSUME NEW k \in Connection
  PROVE  /\ Released(k) \in Connection
         /\ Released(k).phase \notin {"open", "queued"}
         /\ Gone(k) \in Connection
         /\ k.phase # "closed" => Gone(k).phase = k.phase /\ Readable(Gone(k))
         /\ k.phase = "closed" => Gone(k).phase = "down"
         /\ Answered(k) \in Connection /\ Answered(k).phase = k.phase
  BY DEF Connection, Released, Gone, Answered, Down, Readable

\* A step of a client changes that client's connection alone, opens and
\* closes nothing in the server and takes no report back.
ClientStep(c) ==
  \E k \in Connection :
    /\ conn' = [conn EXCEPT ![c] = k]
    /\ k.phase = "open" <=> conn[c].phase = "open"
    /\ conn[c].phase = "open" /\ Readable(conn[c]) => Readable(k)
    /\ \/ backlog' = backlog /\ (conn[c].phase = "queued" => k.phase = "queued")
       \/ /\ conn[c].phase = "down" /\ k.phase = "queued"
          /\ backlog' = Append(backlog, c)
    /\ UNCHANGED serverVars

LEMMA ClientsStep ==
  ASSUME PollTypeOK, NEW c \in Clients, Client(c)
  PROVE  ClientStep(c)
<1>1. conn[c] \in Connection
  BY DEF PollTypeOK
<1>2. CASE Connect(c)
  <2> DEFINE k == [conn[c] EXCEPT !.phase = "queued"]
  <2>1. k \in Connection /\ k.phase = "queued" /\ conn[c].phase = "down"
    BY <1>1, <1>2 DEF Connection, Connect
  <2>2. conn' = [conn EXCEPT ![c] = k]
    BY <1>2 DEF Connect
  <2> QED
    BY <1>2, <2>1, <2>2 DEF Connect, ClientStep
<1>3. CASE Send(c)
  <2> DEFINE k == [conn[c] EXCEPT !.message = (conn[c].phase # "closed")]
  <2>1. k \in Connection /\ k.phase = conn[c].phase
        /\ (conn[c].phase = "open" => k.message)
    BY <1>1 DEF Connection
  <2>2. conn' = [conn EXCEPT ![c] = k]
    BY <1>3 DEF Send
  <2> QED
    BY <1>3, <2>1, <2>2 DEF Send, ClientStep, Readable
<1>4. CASE Receive(c)
  <2> DEFINE k == [conn[c] EXCEPT !.reply = FALSE]
  <2>1. k \in Connection /\ k.phase = conn[c].phase
        /\ k.message = conn[c].message /\ k.end = conn[c].end
    BY <1>1 DEF Connection
  <2>2. conn' = [conn EXCEPT ![c] = k]
    BY <1>4 DEF Receive
  <2> QED
    BY <1>4, <2>1, <2>2 DEF Receive, ClientStep, Readable
<1>5. CASE Close(c)
  <2> DEFINE k == Gone(conn[c])
  <2>1. k \in Connection /\ (conn[c].phase # "closed" => k.phase = conn[c].phase /\ Readable(k))
        /\ (conn[c].phase = "closed" => k.phase = "down")
    BY <1>1, OnConnections
  <2>2. conn' = [conn EXCEPT ![c] = k]
    BY <1>5 DEF Close
  <2> HIDE DEF k
  <2> QED
    BY <1>5, <2>1, <2>2 DEF Close, ClientStep
<1> QED
  BY <1>2, <1>3, <1>4, <1>5 DEF Client

LEMMA ClientKeeps ==
  ASSUME PollInv, NEW c \in Clients, Client(c)
  PROVE  PollInv'
<1>1. PICK k \in Connection :
        /\ conn' = [conn EXCEPT ![c] = k]
        /\ k.phase = "open" <=> conn[c].phase = "open"
        /\ conn[c].phase = "open" /\ Readable(conn[c]) => Readable(k)
        /\ \/ backlog' = backlog /\ (conn[c].phase = "queued" => k.phase = "queued")
           \/ /\ conn[c].phase = "down" /\ k.phase = "queued"
              /\ backlog' = Append(backlog, c)
        /\ UNCHANGED serverVars
  BY ClientsStep DEF ClientStep, PollInv
<1>2. /\ conn \in [Clients -> Connection] /\ conn' \in [Clients -> Connection]
      /\ \A d \in Clients : conn'[d] = IF d = c THEN k ELSE conn[d]
  BY <1>1 DEF PollInv, PollTypeOK
<1>3. backlog \in Seq(Clients) /\ DOMAIN backlog = 1..Len(backlog)
  BY LenProperties DEF PollInv, PollTypeOK
<1>4. BacklogWaits' /\ backlog' \in Seq(Clients)
  <2>1. \A n \in DOMAIN backlog :
          backlog[n] \in Clients /\ conn[backlog[n]].phase = "queued"
    BY <1>3, ElementOfSeq DEF PollInv, BacklogWaits
  <2>2. CASE backlog' = backlog /\ (conn[c].phase = "queued" => k.phase = "queued")
    BY <1>2, <1>3, <2>1, <2>2 DEF PollInv, BacklogWaits
  <2>3. CASE /\ conn[c].phase = "down" /\ k.phase = "queued"
             /\ backlog' = Append(backlog, c)
    <3>1. /\ backlog' \in Seq(Clients) /\ Len(backlog') = Len(backlog) + 1
          /\ \A n \in 1..Len(backlog) : backlog'[n] = backlog[n]
          /\ backlog'[Len(backlog) + 1] = c
          /\ Len(backlog) \in Nat
      BY <1>3, <2>3, AppendProperties, LenProperties
    <3>2. DOMAIN backlog' = 1..Len(backlog) + 1
      BY <3>1, LenProperties
    <3>3. \A n \in DOMAIN backlog : backlog[n] # c
      BY <2>1, <2>3
    <3>4. \A n \in DOMAIN backlog' : n \in DOMAIN backlog \/ n = Len(backlog) + 1
      BY <1>3, <3>1, <3>2
    <3>5. \A n \in DOMAIN backlog' : conn'[backlog'[n]].phase = "queued"
      BY <1>2, <1>3, <2>1, <2>3, <3>1, <3>3, <3>4
    <3>6. ASSUME NEW m \in DOMAIN backlog', NEW n \in DOMAIN backlog',
                 backlog'[m] = backlog'[n]
          PROVE  m = n
      <4>1. CASE m \in DOMAIN backlog /\ n \in DOMAIN backlog
        BY <1>3, <3>1, <3>6, <4>1 DEF PollInv, BacklogWaits
      <4> QED
        BY <1>3, <3>1, <3>3, <3>4, <3>6, <4>1
    <3> QED
      BY <3>1, <3>5, <3>6 DEF BacklogWaits
  <2> QED
    BY <1>1, <2>2, <2>3
<1>5. /\ UNCHANGED <<fds, nfds, pc, i, unserved>>
      /\ ClientEntries' = ClientEntries /\ StillToServe' = StillToServe
  BY <1>1 DEF serverVars, ClientEntries, StillToServe
<1>6. PollTypeOK'
  BY <1>2, <1>4, <1>5 DEF PollInv, PollTypeOK
<1>7. EntriesMatchConnections'
  <2>1. {d \in Clients : conn'[d].phase = "open"}
          = {d \in Clients : conn[d].phase = "open"}
    BY <1>1, <1>2
  <2> QED
    BY <1>5, <2>1 DEF PollInv, EntriesMatchConnections
<1>8. ReportsServedOnce'
  <2>1. unserved \subseteq {d \in Clients : conn[d].phase = "open" /\ Readable(conn[d])}
    <3>1. CASE pc = "poll"
      BY <3>1 DEF PollInv, ReportsServedOnce
    <3>2. CASE pc # "poll"
      <4>1. /\ unserved = StillToServe
            /\ StillToServe \subseteq {d \in Clients : conn[d].phase = "open"}
        BY <3>2 DEF PollInv, ReportsServedOnce, StillToServe,
                    EntriesMatchConnections
      <4>2. \A d \in unserved : d \in Clients /\ Readable(conn[d])
        BY <3>2, <4>1, EventsAreReadable
        DEF PollInv, ReportsServedOnce, EventsTellReadable
      <4> QED
        BY <4>1, <4>2
    <3> QED
      BY <3>1, <3>2
  <2>2. \A d \in unserved : Readable(conn'[d])
    BY <1>1, <1>2, <2>1
  <2>3. \A d \in Clients : (Events(d) # {})' <=> Readable(conn'[d])
    <3>1. EventsTellReadable'
      BY EventsAreReadable, PTL
    <3> QED
      BY <3>1 DEF EventsTellReadable, Readable
  <2> QED
    BY <1>5, <2>1, <2>2, <2>3 DEF PollInv, ReportsServedOnce
<1> QED
  BY <1>4, <1>6, <1>7, <1>8 DEF PollInv

\* The server's entries and the clients in them.
LEMMA EntryFacts ==
  ASSUME PollInv
  PROVE  /\ MaxClients \in Nat /\ nfds \in Nat /\ 1 <= nfds /\ nfds <= MaxClients + 1
         /\ ClientEntries = 1..nfds - 1
         /\ \A e \in ClientEntries :
              /\ e \in Entries /\ e # 0
              /\ fds[e].fd \in Clients /\ conn[fds[e].fd].phase = "open"
         /\ \A c \in Clients : conn[c].phase = "open" =>
              \E e \in ClientEntries : fds[e].fd = c
<1>1. MaxClients \in Nat /\ nfds \in 1..MaxClients + 1
  BY PollServerAssumption DEF PollInv, EntriesMatchConnections
<1>2. {fds[e].fd : e \in ClientEntries} = {c \in Clients : conn[c].phase = "open"}
  BY DEF PollInv, EntriesMatchConnections
<1>3. \A e \in ClientEntries : e \in Entries /\ e # 0
  BY <1>1 DEF ClientEntries, Entries
<1> QED
  BY <1>1, <1>2, <1>3 DEF ClientEntries

\* What is still to be served is open and readable.
LEMMA UnservedFacts ==
  ASSUME PollInv
  PROVE  /\ unserved \subseteq Clients
         /\ \A c \in unserved : conn[c].phase = "open" /\ Readable(conn[c])
         /\ pc # "poll" => StillToServe = unserved
<1>1. CASE pc = "poll"
  BY <1>1 DEF PollInv, ReportsServedOnce
<1>2. CASE pc # "poll"
  <2>1. /\ unserved = StillToServe
        /\ StillToServe \subseteq {d \in Clients : conn[d].phase = "open"}
    BY <1>2 DEF PollInv, ReportsServedOnce, StillToServe, EntriesMatchConnections
  <2>2. \A d \in unserved : d \in Clients /\ Readable(conn[d])
    BY <1>2, <2>1, EventsAreReadable
    DEF PollInv, ReportsServedOnce, EventsTellReadable
  <2> QED
    BY <1>2, <2>1, <2>2
<1> QED
  BY <1>1, <1>2

LEMMA PollKeeps ==
  ASSUME PollInv, Poll
  PROVE  PollInv'
<1>1. /\ \A e \in Entries : /\ fds'[e].fd = fds[e].fd
                            /\ e \in Used => fds'[e].revents = Events(fds[e].fd)
      /\ fds' \in [Entries -> [fd : Descriptors, revents : SUBSET {"in", "err"}]]
  <2>1. ASSUME NEW e \in Entries
        PROVE  /\ fds'[e].fd = fds[e].fd
               /\ e \in Used => fds'[e].revents = Events(fds[e].fd)
               /\ fds'[e] \in [fd : Descriptors, revents : SUBSET {"in", "err"}]
    <3>1. /\ fds[e] \in [fd : Descriptors, revents : SUBSET {"in", "err"}]
          /\ fds[e].fd \in Descriptors
      BY DEF PollInv, PollTypeOK
    <3>2. fds'[e] = IF e \in Used THEN Entry(fds[e].fd, Events(fds[e].fd)) ELSE fds[e]
      BY DEF Poll
    <3>3. Events(fds[e].fd) \in SUBSET {"in", "err"}
      BY <3>1, EventsAreReadable DEF EventsTellReadable
    <3> QED
      BY <3>1, <3>2, <3>3 DEF Entry
  <2>2. fds' = [e \in Entries |-> fds'[e]]
    BY DEF Poll
  <2> QED
    BY <2>1, <2>2
<1>2. /\ UNCHANGED <<conn, backlog, nfds>> /\ i' = 1 /\ pc' \in {"accept", "serve"}
      /\ unserved' = {fds[e].fd : e \in {x \in ClientEntries : Events(fds[x].fd) # {}}}
  BY DEF Poll, clientVars
<1>3. /\ ClientEntries' = ClientEntries
      /\ \A e \in ClientEntries : /\ e \in Entries /\ e \in Used /\ e >= 1
                                  /\ fds[e].fd \in Clients
  BY <1>2, EntryFacts DEF ClientEntries, Used
<1>4. PollTypeOK'
  <2>1. unserved' \subseteq Clients
    BY <1>2, <1>3
  <2>2. fds' \in [Entries -> [fd : Descriptors, revents : SUBSET {"in", "err"}]]
    BY <1>1
  <2>3. /\ conn' \in [Clients -> Connection] /\ backlog' \in Seq(Clients)
        /\ pc' \in {"poll", "accept", "serve"} /\ i' = 1
    BY <1>2 DEF PollInv, PollTypeOK
  <2> QED
    BY <2>1, <2>2, <2>3 DEF PollTypeOK
<1>5. BacklogWaits'
  BY <1>2 DEF PollInv, BacklogWaits
<1>6. EntriesMatchConnections'
  <2>1. 0 \in Entries
    BY PollServerAssumption DEF Entries
  <2>2. {fds'[e].fd : e \in ClientEntries} = {fds[e].fd : e \in ClientEntries}
    BY <1>1, <1>3
  <2> QED
    BY <1>1, <1>2, <1>3, <2>1, <2>2 DEF PollInv, EntriesMatchConnections
<1>7. ReportsServedOnce'
  <2>1. StillToServe' = {fds'[e].fd : e \in {x \in ClientEntries : fds'[x].revents # {}}}
    BY <1>2, <1>3 DEF StillToServe
  <2>2. StillToServe' = unserved'
    BY <1>1, <1>2, <1>3, <2>1
  <2>3. \A c \in unserved' : Events(c)' = Events(c)
    BY <1>2 DEF Events
  <2>4. \A c \in unserved' : Events(c) # {}
    BY <1>2
  <2> QED
    BY <1>2, <2>2, <2>3, <2>4 DEF ReportsServedOnce
<1> QED
  BY <1>4, <1>5, <1>6, <1>7 DEF PollInv

LEMMA AcceptKeeps ==
  ASSUME PollInv, AcceptNewClient
  PROVE  PollInv'
<1> DEFINE c == Head(backlog)
<1>1. /\ pc = "accept" /\ pc' = "accept" /\ i' = i /\ i = 1 /\ unserved' = unserved
      /\ backlog \in Seq(Clients) /\ backlog # <<>> /\ backlog' = Tail(backlog)
      /\ conn \in [Clients -> Connection]
  BY DEF AcceptNewClient, PollInv, PollTypeOK
<1>2. /\ backlog' \in Seq(Clients) /\ Len(backlog) \in Nat \ {0}
      /\ DOMAIN backlog = 1..Len(backlog) /\ DOMAIN backlog' = 1..Len(backlog) - 1
      /\ \A n \in 1..Len(backlog) - 1 : backlog'[n] = backlog[n + 1]
      /\ c = backlog[1] /\ c \in Clients
  BY <1>1, HeadTailProperties, LenProperties, EmptySeq
<1>3. conn[c].phase = "queued"
  BY <1>2 DEF PollInv, BacklogWaits
<1>4. PICK k \in Connection : /\ conn' = [conn EXCEPT ![c] = k]
                              /\ k.phase # "queued"
                              /\ k.phase = "open" <=> nfds < MaxClients + 1
  <2>1. CASE nfds < MaxClients + 1
    <3> DEFINE k == [conn[c] EXCEPT !.phase = "open"]
    <3>1. k \in Connection /\ k.phase = "open"
      BY <1>1, <1>2 DEF Connection
    <3>2. conn' = [conn EXCEPT ![c] = k]
      BY <2>1 DEF AcceptNewClient
    <3> QED
      BY <2>1, <3>1, <3>2
  <2>2. CASE ~(nfds < MaxClients + 1)
    <3> DEFINE k == Released(conn[c])
    <3>1. k \in Connection /\ k.phase \notin {"open", "queued"}
      BY <1>1, <1>2, OnConnections
    <3>2. conn' = [conn EXCEPT ![c] = k]
      BY <2>2 DEF AcceptNewClient
    <3> HIDE DEF k
    <3> QED
      BY <2>2, <3>1, <3>2
  <2> QED
    BY <2>1, <2>2
<1>5. /\ conn' \in [Clients -> Connection]
      /\ \A d \in Clients : conn'[d] = IF d = c THEN k ELSE conn[d]
  BY <1>1, <1>4
<1>6. /\ IF nfds < MaxClients + 1
           THEN nfds' = nfds + 1 /\ fds' = [fds EXCEPT ![nfds] = Entry(c, {})]
           ELSE nfds' = nfds /\ fds' = fds
      /\ nfds \in Nat /\ 1 <= nfds /\ nfds <= MaxClients + 1 /\ MaxClients \in Nat
      /\ ClientEntries = 1..nfds - 1
      /\ ClientEntries' = IF nfds < MaxClients + 1 THEN 1..nfds ELSE 1..nfds - 1
  BY EntryFacts DEF AcceptNewClient, AddClient, ClientEntries
<1>7. fds' \in [Entries -> [fd : Descriptors, revents : SUBSET {"in", "err"}]]
  <2>1. Entry(c, {}) \in [fd : Descriptors, revents : SUBSET {"in", "err"}]
    BY <1>2 DEF Entry, Descriptors
  <2> QED
    BY <1>6, <2>1 DEF PollInv, PollTypeOK
<1>8. PollTypeOK'
  BY <1>1, <1>2, <1>5, <1>7 DEF PollInv, PollTypeOK
<1>9. BacklogWaits'
  <2>1. \A n \in DOMAIN backlog' :
          n + 1 \in DOMAIN backlog /\ backlog'[n] = backlog[n + 1] /\ backlog[n + 1] # c
    BY <1>2 DEF PollInv, BacklogWaits
  <2>2. \A n \in DOMAIN backlog' : backlog'[n] \in Clients
    BY <1>2, LenProperties, ElementOfSeq
  <2>3. \A n \in DOMAIN backlog' : conn'[backlog'[n]].phase = "queued"
    BY <1>5, <2>1, <2>2 DEF PollInv, BacklogWaits
  <2>4. \A m, n \in DOMAIN backlog' : backlog'[m] = backlog'[n] => m = n
    BY <1>2, <2>1 DEF PollInv, BacklogWaits
  <2> QED
    BY <2>3, <2>4 DEF BacklogWaits
<1>10. /\ \A e \in ClientEntries : /\ fds'[e] = fds[e] /\ e \in ClientEntries'
                                   /\ fds[e].fd \in Clients /\ fds[e].fd # c
       /\ nfds < MaxClients + 1 =>
            /\ nfds \in ClientEntries' /\ fds'[nfds].fd = c /\ fds'[nfds].revents = {}
            /\ \A e \in ClientEntries' : e \in ClientEntries \/ e = nfds
       /\ nfds >= MaxClients + 1 => ClientEntries' = ClientEntries
       /\ fds'[0] = fds[0]
  <2>1. fds \in [Entries -> [fd : Descriptors, revents : SUBSET {"in", "err"}]]
    BY DEF PollInv, PollTypeOK
  <2>2. \A e \in ClientEntries : /\ e \in Entries /\ fds[e].fd \in Clients
                                 /\ fds[e].fd # c
    BY <1>3, EntryFacts
  <2>3. 0 \in Entries /\ (nfds < MaxClients + 1 => nfds \in Entries)
    BY <1>6 DEF Entries
  <2> QED
    BY <1>6, <2>1, <2>2, <2>3 DEF Entry
<1>11. EntriesMatchConnections'
  <2>1. nfds' \in 1..MaxClients + 1
    BY <1>6
  <2>2. {fds'[e].fd : e \in ClientEntries'} = {d \in Clients : conn'[d].phase = "open"}
    <3>1. {fds[e].fd : e \in ClientEntries} = {d \in Clients : conn[d].phase = "open"}
      BY DEF PollInv, EntriesMatchConnections
    <3>2. CASE nfds < MaxClients + 1
      <4>1. {fds'[e].fd : e \in ClientEntries'} = {fds[e].fd : e \in ClientEntries} \cup {c}
        BY <1>10, <3>2
      <4>2. {d \in Clients : conn'[d].phase = "open"}
              = {d \in Clients : conn[d].phase = "open"} \cup {c}
        BY <1>2, <1>4, <1>5, <3>2
      <4> QED
        BY <3>1, <4>1, <4>2
    <3>3. CASE nfds >= MaxClients + 1
      <4>1. {fds'[e].fd : e \in ClientEntries'} = {fds[e].fd : e \in ClientEntries}
        BY <1>10, <3>3
      <4>2. {d \in Clients : conn'[d].phase = "open"}
              = {d \in Clients : conn[d].phase = "open"}
        BY <1>3, <1>4, <1>5, <1>6, <3>3
      <4> QED
        BY <3>1, <4>1, <4>2
    <3> QED
      BY <1>6, <3>2, <3>3
  <2>3. \A d, e \in ClientEntries' : fds'[d].fd = fds'[e].fd => d = e
    <3>1. \A d, e \in ClientEntries : fds[d].fd = fds[e].fd => d = e
      BY DEF PollInv, EntriesMatchConnections
    <3>2. CASE nfds < MaxClients + 1
      BY <1>10, <3>1, <3>2
    <3>3. CASE nfds >= MaxClients + 1
      BY <1>10, <3>1, <3>3
    <3> QED
      BY <1>6, <3>2, <3>3
  <2> QED
    BY <1>10, <2>1, <2>2, <2>3 DEF PollInv, EntriesMatchConnections
<1>12. ReportsServedOnce'
  <2>1. StillToServe' = StillToServe
    <3>1. /\ StillToServe = {fds[e].fd : e \in {x \in ClientEntries : fds[x].revents # {}}}
          /\ StillToServe' = {fds'[e].fd : e \in {x \in ClientEntries' : fds'[x].revents # {}}}
      BY <1>1 DEF StillToServe
    <3>2. CASE nfds < MaxClients + 1
      <4>1. {x \in ClientEntries' : fds'[x].revents # {}}
              = {x \in ClientEntries : fds[x].revents # {}}
        BY <1>10, <3>2
      <4> QED
        BY <1>10, <3>1, <4>1
    <3>3. CASE nfds >= MaxClients + 1
      BY <1>10, <3>1, <3>3
    <3> QED
      BY <1>6, <3>2, <3>3
  <2>2. \A d \in unserved : d \in Clients /\ d # c /\ Readable(conn[d])
    BY <1>3, UnservedFacts
  <2>3. EventsTellReadable'
    BY EventsAreReadable, PTL
  <2>4. \A d \in unserved : (Events(d) # {})'
    BY <1>5, <2>2, <2>3 DEF EventsTellReadable, Readable
  <2> QED
    BY <1>1, <2>1, <2>4, UnservedFacts DEF ReportsServedOnce
<1> QED
  BY <1>8, <1>9, <1>11, <1>12 DEF PollInv

\* The loop's entry is the reported one that comes next, if it is reported.
LEMMA ServedEntry ==
  ASSUME PollInv, pc = "serve", i < nfds
  PROVE  /\ i \in ClientEntries /\ i \in Nat /\ i >= 1
         /\ fds[i].fd \in Clients
         /\ \A e \in ClientEntries : fds[e].fd = fds[i].fd => e = i
         /\ StillToServe =
              {fds[e].fd : e \in {x \in ClientEntries : fds[x].revents # {} /\ x >= i}}
         /\ StillToServe = unserved
<1>1. i \in ClientEntries /\ i \in Nat /\ i >= 1
  BY EntryFacts DEF PollInv, PollTypeOK
<1>2. \A e \in ClientEntries : fds[e].fd = fds[i].fd => e = i
  BY <1>1 DEF PollInv, EntriesMatchConnections
<1>3. StillToServe =
        {fds[e].fd : e \in {x \in ClientEntries : fds[x].revents # {} /\ x >= i}}
  BY DEF StillToServe
<1> QED
  BY <1>1, <1>2, <1>3, EntryFacts, UnservedFacts

LEMMA RemoveKeeps ==
  ASSUME PollInv, pc = "serve", i < nfds, RemoveClient(i),
         unserved' = unserved \ {fds[i].fd}, UNCHANGED <<backlog, pc>>
  PROVE  PollInv'
<1> DEFINE c == fds[i].fd
           k == Released(conn[c])
<1>1. /\ MaxClients \in Nat /\ nfds \in Nat /\ 1 <= nfds /\ nfds <= MaxClients + 1
      /\ ClientEntries = 1..nfds - 1 /\ ClientEntries' = 1..nfds - 2
      /\ i \in ClientEntries /\ i \in Nat /\ i >= 1 /\ i' = i /\ nfds' = nfds - 1
      /\ c \in Clients /\ conn[c].phase = "open"
      /\ conn \in [Clients -> Connection]
  <2>1. nfds' = nfds - 1 /\ i' = i
    BY DEF RemoveClient
  <2>2. conn \in [Clients -> Connection]
    BY DEF PollInv, PollTypeOK
  <2> QED
    BY <2>1, <2>2, EntryFacts, ServedEntry DEF ClientEntries
<1>2. k \in Connection /\ k.phase \notin {"open", "queued"}
  BY <1>1, OnConnections
<1>3. conn' = [conn EXCEPT ![c] = k]
  BY DEF RemoveClient
<1> HIDE DEF k
<1>4. /\ conn' \in [Clients -> Connection]
      /\ \A d \in Clients : conn'[d] = IF d = c THEN k ELSE conn[d]
  BY <1>1, <1>2, <1>3
<1>5. /\ fds' \in [Entries -> [fd : Descriptors, revents : SUBSET {"in", "err"}]]
      /\ \A e \in Entries : fds'[e] = IF e = i THEN fds[nfds - 1] ELSE fds[e]
      /\ \A e \in ClientEntries : e \in Entries /\ e # 0
      /\ 0 \in Entries /\ nfds - 1 \in ClientEntries
  <2>1. \A e \in ClientEntries : e \in Entries /\ e # 0
    BY EntryFacts
  <2>2. 0 \in Entries /\ nfds - 1 \in ClientEntries
    BY <1>1 DEF Entries
  <2> QED
    BY <1>1, <2>1, <2>2 DEF RemoveClient, PollInv, PollTypeOK
\* Where the entry e of another client is afterwards.
<1> DEFINE Moved(e) == IF e = nfds - 1 THEN i ELSE e
<1>6. /\ \A e \in ClientEntries : e # i =>
           /\ Moved(e) \in ClientEntries' /\ fds'[Moved(e)] = fds[e]
           /\ Moved(e) >= i <=> e >= i
      /\ \A e \in ClientEntries' : \E x \in ClientEntries :
           x # i /\ Moved(x) = e /\ fds'[e] = fds[x]
  <2>1. ASSUME NEW e \in ClientEntries, e # i
        PROVE  /\ Moved(e) \in ClientEntries' /\ fds'[Moved(e)] = fds[e]
               /\ Moved(e) >= i <=> e >= i
    <3>1. CASE e = nfds - 1
      BY <1>1, <1>5, <2>1, <3>1
    <3>2. CASE e # nfds - 1
      BY <1>1, <1>5, <2>1, <3>2
    <3> QED
      BY <3>1, <3>2
  <2>2. ASSUME NEW e \in ClientEntries'
        PROVE  \E x \in ClientEntries : x # i /\ Moved(x) = e /\ fds'[e] = fds[x]
    <3>1. e \in ClientEntries /\ e # nfds - 1
      BY <1>1, <2>2
    <3>2. CASE e = i
      BY <1>1, <1>5, <3>1, <3>2
    <3>3. CASE e # i
      BY <1>1, <1>5, <3>1, <3>3
    <3> QED
      BY <3>2, <3>3
  <2> QED
    BY <2>1, <2>2
<1> HIDE DEF Moved
<1>7. \A d, e \in ClientEntries : fds[d].fd = fds[e].fd => d = e
  BY DEF PollInv, EntriesMatchConnections
<1>8. PollTypeOK'
  <2>1. /\ backlog' \in Seq(Clients) /\ pc' = "serve" /\ i' \in Nat \ {0}
        /\ unserved' \subseteq Clients
    BY <1>1 DEF PollInv, PollTypeOK
  <2> QED
    BY <1>4, <1>5, <2>1 DEF PollTypeOK
<1>9. BacklogWaits'
  <2>1. \A n \in DOMAIN backlog : backlog[n] \in Clients
    BY LenProperties, ElementOfSeq DEF PollInv, PollTypeOK
  <2>2. \A n \in DOMAIN backlog : backlog[n] # c
    BY <1>1 DEF PollInv, BacklogWaits
  <2> QED
    BY <1>4, <2>1, <2>2 DEF PollInv, BacklogWaits
<1>10. EntriesMatchConnections'
  <2>1. nfds' \in 1..MaxClients + 1
    BY <1>1
  <2>2. fds'[0].fd = ServerSock
    BY <1>1, <1>5 DEF PollInv, EntriesMatchConnections
  <2>3. {fds'[e].fd : e \in ClientEntries'} = {d \in Clients : conn'[d].phase = "open"}
    <3>1. {fds[e].fd : e \in ClientEntries} = {d \in Clients : conn[d].phase = "open"}
      BY DEF PollInv, EntriesMatchConnections
    <3>2. {d \in Clients : conn'[d].phase = "open"}
            = {d \in Clients : conn[d].phase = "open"} \ {c}
      BY <1>2, <1>4
    <3>3. ASSUME NEW e \in ClientEntries'
          PROVE  fds'[e].fd \in {fds[x].fd : x \in ClientEntries} \ {c}
      BY <1>1, <1>6, <1>7
    <3>4. ASSUME NEW x \in ClientEntries, fds[x].fd # c
          PROVE  fds[x].fd \in {fds'[e].fd : e \in ClientEntries'}
      BY <1>6, <3>4
    <3>5. {fds'[e].fd : e \in ClientEntries'} = {fds[x].fd : x \in ClientEntries} \ {c}
      BY <3>3, <3>4
    <3> QED
      BY <3>1, <3>2, <3>5
  <2>4. \A d, e \in ClientEntries' : fds'[d].fd = fds'[e].fd => d = e
    BY <1>6, <1>7
  <2> QED
    BY <2>1, <2>2, <2>3, <2>4 DEF EntriesMatchConnections
<1>11. ReportsServedOnce'
  <2>1. /\ StillToServe =
             {fds[e].fd : e \in {x \in ClientEntries : fds[x].revents # {} /\ x >= i}}
        /\ StillToServe' =
             {fds'[e].fd : e \in {x \in ClientEntries' : fds'[x].revents # {} /\ x >= i}}
        /\ StillToServe = unserved
    BY <1>1, ServedEntry DEF StillToServe
  <2>2. ASSUME NEW e \in ClientEntries', fds'[e].revents # {}, e >= i
        PROVE  fds'[e].fd \in StillToServe \ {c}
    BY <1>1, <1>6, <1>7, <2>1, <2>2
  <2>3. ASSUME NEW x \in ClientEntries, fds[x].revents # {}, x >= i, fds[x].fd # c
        PROVE  fds[x].fd \in StillToServe'
    BY <1>6, <2>1, <2>3
  <2>4. StillToServe' = StillToServe \ {c}
    BY <2>1, <2>2, <2>3
  <2>5. EventsTellReadable'
    BY EventsAreReadable, PTL
  <2>6. \A d \in unserved' : (Events(d) # {})'
    BY <1>4, <2>5, UnservedFacts DEF EventsTellReadable, Readable
  <2>7. pc' = "serve"
    OBVIOUS
  <2> QED
    BY <2>1, <2>4, <2>6, <2>7 DEF ReportsServedOnce
<1> QED
  BY <1>8, <1>9, <1>10, <1>11 DEF PollInv

\* The entry stays: the client was answered, or there was nothing to do.
LEMMA PassKeeps ==
  ASSUME PollInv, pc = "serve", i < nfds,
         NEW k \in Connection, k.phase = conn[fds[i].fd].phase,
         conn' = [conn EXCEPT ![fds[i].fd] = k],
         i' = i + 1, unserved' = unserved \ {fds[i].fd},
         UNCHANGED <<backlog, pc, fds, nfds>>
  PROVE  PollInv'
<1> DEFINE c == fds[i].fd
<1>1. /\ i \in ClientEntries /\ i \in Nat /\ i >= 1 /\ c \in Clients
      /\ conn \in [Clients -> Connection] /\ ClientEntries' = ClientEntries
  BY ServedEntry DEF PollInv, PollTypeOK, ClientEntries
<1>2. /\ conn' \in [Clients -> Connection]
      /\ \A d \in Clients : /\ conn'[d].phase = conn[d].phase
                            /\ d # c => conn'[d] = conn[d]
  BY <1>1
<1>3. PollTypeOK'
  BY <1>1, <1>2 DEF PollInv, PollTypeOK
<1>4. BacklogWaits'
  <2>1. \A n \in DOMAIN backlog : backlog[n] \in Clients
    BY LenProperties, ElementOfSeq DEF PollInv, PollTypeOK
  <2> QED
    BY <1>2, <2>1 DEF PollInv, BacklogWaits
<1>5. EntriesMatchConnections'
  <2>1. {d \in Clients : conn'[d].phase = "open"} = {d \in Clients : conn[d].phase = "open"}
    BY <1>2
  <2> QED
    BY <1>1, <2>1 DEF PollInv, EntriesMatchConnections
<1>6. ReportsServedOnce'
  <2>1. /\ StillToServe =
             {fds[e].fd : e \in {x \in ClientEntries : fds[x].revents # {} /\ x >= i}}
        /\ StillToServe' =
             {fds[e].fd : e \in {x \in ClientEntries : fds[x].revents # {} /\ x >= i + 1}}
        /\ StillToServe = unserved
    BY <1>1, ServedEntry DEF StillToServe
  <2>2. \A e \in ClientEntries : e >= i + 1 <=> e >= i /\ fds[e].fd # c
    <3>1. \A e \in ClientEntries : e \in Nat /\ (fds[e].fd = c => e = i)
      BY ServedEntry, EntryFacts
    <3> QED
      BY <1>1, <3>1
  <2>3. StillToServe' = StillToServe \ {c}
    BY <2>1, <2>2
  <2>4. EventsTellReadable'
    BY EventsAreReadable, PTL
  <2>5. \A d \in unserved' : (Events(d) # {})'
    BY <1>2, <2>4, UnservedFacts DEF EventsTellReadable, Readable
  <2>6. pc' = "serve"
    OBVIOUS
  <2> QED
    BY <2>1, <2>3, <2>5, <2>6 DEF ReportsServedOnce
<1> QED
  BY <1>3, <1>4, <1>5, <1>6 DEF PollInv

LEMMA ServeKeeps ==
  ASSUME PollInv, ServeEntry
  PROVE  PollInv'
<1> DEFINE c == fds[i].fd
<1>1. /\ pc = "serve" /\ i < nfds /\ unserved' = unserved \ {c}
      /\ UNCHANGED <<backlog, pc>>
  BY DEF ServeEntry
<1>2. c \in Clients /\ conn \in [Clients -> Connection] /\ conn[c] \in Connection
  BY <1>1, ServedEntry DEF PollInv, PollTypeOK
<1>3. \/ RemoveClient(i)
      \/ /\ conn' = [conn EXCEPT ![c] = Answered(conn[c])]
         /\ i' = i + 1 /\ UNCHANGED <<fds, nfds>>
      \/ i' = i + 1 /\ UNCHANGED <<conn, fds, nfds>>
  BY DEF ServeEntry, HandleClientMessage
<1>4. CASE RemoveClient(i)
  BY <1>1, <1>4, RemoveKeeps
<1>5. CASE /\ conn' = [conn EXCEPT ![c] = Answered(conn[c])]
           /\ i' = i + 1 /\ UNCHANGED <<fds, nfds>>
  <2>1. Answered(conn[c]) \in Connection /\ Answered(conn[c]).phase = conn[c].phase
    BY <1>2, OnConnections
  <2> QED
    BY <1>1, <1>5, <2>1, PassKeeps
<1>6. CASE i' = i + 1 /\ UNCHANGED <<conn, fds, nfds>>
  <2>1. conn' = [conn EXCEPT ![c] = conn[c]]
    BY <1>2, <1>6
  <2> QED
    BY <1>1, <1>2, <1>6, <2>1, PassKeeps
<1> QED
  BY <1>3, <1>4, <1>5, <1>6

LEMMA DoneKeeps ==
  ASSUME PollInv, AcceptDone \/ RoundDone
  PROVE  PollInv'
<1>1. /\ UNCHANGED <<conn, backlog, fds, nfds, i, unserved>>
      /\ pc # "poll" /\ pc' \in {"poll", "serve"}
      /\ ClientEntries' = ClientEntries
  BY DEF AcceptDone, RoundDone, clientVars, ClientEntries
<1>2. PollTypeOK' /\ BacklogWaits' /\ EntriesMatchConnections'
  BY <1>1 DEF PollInv, PollTypeOK, BacklogWaits, EntriesMatchConnections
<1>3. \A c \in unserved : (Events(c) # {})'
  BY <1>1 DEF PollInv, ReportsServedOnce, Events
<1>4. CASE AcceptDone
  <2>1. \A e \in ClientEntries : e >= i
    BY <1>4, EntryFacts DEF AcceptDone, PollInv, PollTypeOK
  <2>2. StillToServe' = StillToServe
    BY <1>1, <1>4, <2>1 DEF AcceptDone, StillToServe
  <2> QED
    BY <1>1, <1>2, <1>3, <1>4, <2>2 DEF AcceptDone, PollInv, ReportsServedOnce
<1>5. CASE RoundDone
  <2>1. \A e \in ClientEntries : ~(e >= i)
    BY <1>5, EntryFacts DEF RoundDone, PollInv, PollTypeOK
  <2>2. StillToServe = {}
    BY <1>5, <2>1 DEF RoundDone, StillToServe
  <2> QED
    BY <1>1, <1>2, <1>5, <2>2 DEF RoundDone, PollInv, ReportsServedOnce
<1> QED
  BY <1>4, <1>5

LEMMA PollStep ==
  ASSUME PollInv, [PollServerNext]_pollVars
  PROVE  PollInv'
<1>1. CASE Server
  BY <1>1, PollKeeps, AcceptKeeps, ServeKeeps, DoneKeeps DEF Server
<1>2. CASE \E c \in Clients : Client(c)
  BY <1>2, ClientKeeps
<1>3. CASE UNCHANGED pollVars
  <2>1. UNCHANGED <<conn, backlog, fds, nfds, pc, i, unserved>>
    BY <1>3 DEF pollVars
  <2>2. PollTypeOK' /\ BacklogWaits' /\ EntriesMatchConnections'
    BY <2>1
    DEF PollInv, PollTypeOK, BacklogWaits, EntriesMatchConnections, ClientEntries
  <2>3. StillToServe' = StillToServe
    BY <2>1 DEF StillToServe, ClientEntries
  <2>4. \A c \in unserved : Events(c)' = Events(c)
    BY <2>1 DEF Events
  <2>5. ReportsServedOnce'
    BY <2>1, <2>3, <2>4 DEF PollInv, ReportsServedOnce
  <2> QED
    BY <2>2, <2>5 DEF PollInv
<1> QED
  BY <1>1, <1>2, <1>3 DEF PollServerNext

LEMMA PollInvariant == PollServerSpec => []PollInv
<1>1. PollServerInit => PollInv
  BY PollInitial
<1>2. PollInv /\ [PollServerNext]_pollVars => PollInv'
  BY PollStep
<1> QED
  BY <1>1, <1>2, PTL DEF PollServerSpec

\* The array and its length describe the connections, however many clients
\* come and go and whichever entry is overwritten by the last.
THEOREM EntriesAlwaysMatch == PollServerSpec => []EntriesMatchConnections
<1>1. PollInv => EntriesMatchConnections
  BY DEF PollInv
<1> QED
  BY <1>1, PollInvariant, PTL

\* Every report of poll is served once, in its round, and is true then.
THEOREM ReportsAlwaysServedOnce == PollServerSpec => []ReportsServedOnce
<1>1. PollInv => ReportsServedOnce
  BY DEF PollInv
<1> QED
  BY <1>1, PollInvariant, PTL

-----------------------------------------------------------------------------
\* Both together.

\* To the threads, the server is the end of a send or recv.
LEMMA EchoThreadsStep ==
  ASSUME [EchoNext]_echoVars
  PROVE  [ProducerConsumerNext]_threadVars
<1>1. CASE Producing
  BY <1>1, EchoSystemAssumption
  DEF Producing, ProducerConnects, ProducerConsumerNext
<1>2. CASE Consuming
  BY <1>2
  DEF Consuming, ConsumerSays, ConsumerReads, ConsumerCloses, ProducerConsumerNext
<1>3. CASE Serving
  BY <1>3 DEF Serving
<1>4. CASE UNCHANGED echoVars
  BY <1>4 DEF echoVars
<1> QED
  BY <1>1, <1>2, <1>3, <1>4 DEF EchoNext

\* To the server, the threads are clients: it is always an open socket of
\* theirs that they use.
LEMMA EchoServerStep ==
  ASSUME ThreadsInv, [EchoNext]_echoVars
  PROVE  [PollServerNext]_pollVars
<1>1. CASE Producing
  <2>1. CASE \E c \in Clients : ProducerConnects(c)
    BY <2>1 DEF ProducerConnects, PollServerNext, Client
  <2> QED
    BY <1>1, <2>1 DEF Producing
<1>2. CASE Consuming
  <2>1. CASE ConsumerInside /\ UNCHANGED pollVars
    BY <2>1
  <2>2. CASE ConsumerSays \/ ConsumerReads \/ ConsumerCloses
    <3>1. consumer.fd \in Clients
      BY <2>2, EchoSystemAssumption
      DEF ConsumerSays, ConsumerReads, ConsumerCloses, ConsumerSend, ConsumerRecv,
          ConsumerClose, ThreadsInv, ThreadsTypeOK
    <3>2. \/ Send(consumer.fd) \/ Receive(consumer.fd) \/ Close(consumer.fd)
          \/ UNCHANGED pollVars
      BY <2>2 DEF ConsumerSays, ConsumerReads, ConsumerCloses
    <3> QED
      BY <3>1, <3>2 DEF PollServerNext, Client
  <2> QED
    BY <1>2, <2>1, <2>2 DEF Consuming
<1>3. CASE Serving
  BY <1>3 DEF Serving, PollServerNext
<1>4. CASE UNCHANGED echoVars
  BY <1>4 DEF echoVars
<1> QED
  BY <1>1, <1>2, <1>3, <1>4 DEF EchoNext

\* The exercise's two programs, connected, are each what they are alone: the
\* threads are clients the server is made for, and the server's answers, its
\* refusals included, are among those the threads are made for.
THEOREM EchoImplementsBoth == EchoSpec => ProducerConsumerSpec /\ PollServerSpec
<1>1. EchoInit => ProducerConsumerInit /\ PollServerInit
  BY DEF EchoInit
<1>2. [EchoNext]_echoVars => [ProducerConsumerNext]_threadVars
  BY EchoThreadsStep
<1>3. ThreadsInv /\ [EchoNext]_echoVars => [PollServerNext]_pollVars
  BY EchoServerStep
<1> QED
  BY <1>1, <1>2, <1>3, ThreadsInvariant, PTL
  DEF EchoSpec, ProducerConsumerSpec, PollServerSpec

\* So everything proved of the parts holds of the pair.
THEOREM EchoSystemSafe ==
  EchoSpec => [](/\ QueueCallsSucceed /\ EachSocketHasOneOwner
                 /\ EntriesMatchConnections /\ ReportsServedOnce)
  BY EchoImplementsBoth, QueueCallsNeverFail, SocketsHaveOneOwner,
     EntriesAlwaysMatch, ReportsAlwaysServedOnce, PTL

=============================================================================
