-------------------------- MODULE ProducerConsumer --------------------------
(***************************************************************************)
(* The client of assignment 15's producer/consumer exercise (client.c): a  *)
(* thread that connects sockets and puts them into a queue, a thread that  *)
(* takes them out, says hello, reads the reply and closes them.  The       *)
(* semaphores empty and full count the queue's places and items, the mutex *)
(* guards the queue.  The queue is the shared library's (CircularQueue);   *)
(* here it is the sequence it implements.                                  *)
(*                                                                         *)
(* Every call that may wait, or that the other thread can see, is a step.  *)
(***************************************************************************)
EXTENDS Integers, Sequences, FiniteSets

CONSTANTS Sockets,
          QueueCapacity,
          NoSocket

ASSUME ProducerConsumerAssumption ==
  /\ QueueCapacity \in Nat \ {0}
  /\ NoSocket \notin Sockets

VARIABLES empty, full,      \* the semaphores
          mutex,            \* "free", or the thread that holds it
          queue,
          producer, consumer,   \* each thread: where it is, and its fd
          openSockets           \* the descriptors of the process

threadVars == <<empty, full, mutex, queue, producer, consumer, openSockets>>

Thread(at, fd) == [at |-> at, fd |-> fd]

ProducerConsumerInit ==
  /\ empty = QueueCapacity /\ full = 0
  /\ mutex = "free"
  /\ queue = <<>>
  /\ producer = Thread("connect", NoSocket)
  /\ consumer = Thread("wait", NoSocket)
  /\ openSockets = {}

-----------------------------------------------------------------------------
\* ProducerConnectAndInsert.

\* connect and malloc succeed; when one fails, the descriptor is closed
\* again and the thread tries anew: nothing has changed.
ProducerConnect(s) ==
  /\ producer.at = "connect"
  /\ s \notin openSockets
  /\ openSockets' = openSockets \cup {s}
  /\ producer' = Thread("wait", s)
  /\ UNCHANGED <<empty, full, mutex, queue, consumer>>

\* sem_wait(&empty)
ProducerWait ==
  /\ producer.at = "wait"
  /\ empty > 0
  /\ empty' = empty - 1
  /\ producer' = [producer EXCEPT !.at = "lock"]
  /\ UNCHANGED <<full, mutex, queue, consumer, openSockets>>

ProducerLock ==
  /\ producer.at = "lock"
  /\ mutex = "free"
  /\ mutex' = "producer"
  /\ producer' = [producer EXCEPT !.at = "insert"]
  /\ UNCHANGED <<empty, full, queue, consumer, openSockets>>

\* QueueInsert; a full queue is QUEUE_OVERFLOW.
ProducerInsert ==
  /\ producer.at = "insert"
  /\ IF Len(queue) < QueueCapacity
       THEN /\ queue' = Append(queue, producer.fd)
            /\ producer' = [producer EXCEPT !.at = "inserted"]
       ELSE /\ producer' = [producer EXCEPT !.at = "refused"]
            /\ UNCHANGED queue
  /\ UNCHANGED <<empty, full, mutex, consumer, openSockets>>

ProducerUnlock ==
  /\ producer.at \in {"inserted", "refused"}
  /\ mutex' = "free"
  /\ producer' = [producer EXCEPT
                    !.at = IF @ = "inserted" THEN "post" ELSE "giveUp"]
  /\ UNCHANGED <<empty, full, queue, consumer, openSockets>>

\* sem_post(&full), or, when the insertion failed, sem_post(&empty) and
\* close(fd).
ProducerPost ==
  /\ producer.at \in {"post", "giveUp"}
  /\ IF producer.at = "post"
       THEN full' = full + 1 /\ UNCHANGED <<empty, openSockets>>
       ELSE /\ empty' = empty + 1
            /\ openSockets' = openSockets \ {producer.fd}
            /\ UNCHANGED full
  /\ producer' = Thread("connect", NoSocket)
  /\ UNCHANGED <<mutex, queue, consumer>>

-----------------------------------------------------------------------------
\* ConsumerConsumeSocket.

\* sem_wait(&full)
ConsumerWait ==
  /\ consumer.at = "wait"
  /\ full > 0
  /\ full' = full - 1
  /\ consumer' = [consumer EXCEPT !.at = "lock"]
  /\ UNCHANGED <<empty, mutex, queue, producer, openSockets>>

\* Mutant: the lock is not waited for.
ConsumerLock_NoWait ==
  /\ consumer.at = "lock"
  /\ mutex' = "consumer"
  /\ consumer' = [consumer EXCEPT !.at = "remove"]
  /\ UNCHANGED <<empty, full, queue, producer, openSockets>>

ConsumerLock ==
  /\ consumer.at = "lock"
  /\ mutex = "free"
  /\ mutex' = "consumer"
  /\ consumer' = [consumer EXCEPT !.at = "remove"]
  /\ UNCHANGED <<empty, full, queue, producer, openSockets>>

\* QueueRemove; an empty queue leaves item NULL.
ConsumerRemove ==
  /\ consumer.at = "remove"
  /\ IF queue # <<>>
       THEN /\ consumer' = Thread("removed", Head(queue))
            /\ queue' = Tail(queue)
       ELSE /\ consumer' = Thread("removed", NoSocket)
            /\ UNCHANGED queue
  /\ UNCHANGED <<empty, full, mutex, producer, openSockets>>

ConsumerUnlock ==
  /\ consumer.at = "removed"
  /\ mutex' = "free"
  /\ consumer' = [consumer EXCEPT !.at = "post"]
  /\ UNCHANGED <<empty, full, queue, producer, openSockets>>

\* sem_post(&empty), and the return when there was no item.
ConsumerPost ==
  /\ consumer.at = "post"
  /\ empty' = empty + 1
  /\ consumer' = [consumer EXCEPT
                    !.at = IF consumer.fd = NoSocket THEN "wait" ELSE "send"]
  /\ UNCHANGED <<full, mutex, queue, producer, openSockets>>

\* send succeeds, or fails and goes to the close at once.
ConsumerSend(ok) ==
  /\ consumer.at = "send"
  /\ consumer' = [consumer EXCEPT !.at = IF ok THEN "recv" ELSE "close"]
  /\ UNCHANGED <<empty, full, mutex, queue, producer, openSockets>>

\* recv returns: a reply, 0 or an error.
ConsumerRecv ==
  /\ consumer.at = "recv"
  /\ consumer' = [consumer EXCEPT !.at = "close"]
  /\ UNCHANGED <<empty, full, mutex, queue, producer, openSockets>>

\* Mutant: the descriptor is not closed.
ConsumerClose_Leak ==
  /\ consumer.at = "close"
  /\ consumer' = Thread("wait", NoSocket)
  /\ UNCHANGED <<empty, full, mutex, queue, producer, openSockets>>

ConsumerClose ==
  /\ consumer.at = "close"
  /\ openSockets' = openSockets \ {consumer.fd}
  /\ consumer' = Thread("wait", NoSocket)
  /\ UNCHANGED <<empty, full, mutex, queue, producer>>

-----------------------------------------------------------------------------
\* The steps that concern the threads alone, and those that have a part in
\* the server too.

ProducerInside ==
  \/ ProducerWait \/ ProducerLock \/ ProducerInsert \/ ProducerUnlock
  \/ ProducerPost

ConsumerInside ==
  ConsumerWait \/ ConsumerLock \/ ConsumerRemove \/ ConsumerUnlock \/ ConsumerPost

ProducerConsumerNext ==
  \/ \E s \in Sockets : ProducerConnect(s)
  \/ ProducerInside
  \/ ConsumerInside
  \/ \E ok \in BOOLEAN : ConsumerSend(ok)
  \/ ConsumerRecv
  \/ ConsumerClose

ProducerConsumerSpec ==
  ProducerConsumerInit /\ [][ProducerConsumerNext]_threadVars

-----------------------------------------------------------------------------
\* Properties.

Held(thread) == {thread.fd} \ {NoSocket}
Queued == {queue[n] : n \in DOMAIN queue}

\* A descriptor still in the producer's hands when the queue has it too.
HandedOver == producer.at \in {"inserted", "post"}

\* The calls on the queue never meet a full or an empty one, and never
\* overlap: the semaphores count the places and items exactly.
QueueCallsSucceed ==
  /\ producer.at = "insert" => Len(queue) < QueueCapacity /\ mutex = "producer"
  /\ consumer.at = "remove" => queue # <<>> /\ mutex = "consumer"

\* Every open descriptor has exactly one owner: the producer, one place of
\* the queue, or the consumer.  None is lost, none is closed twice.
EachSocketHasOneOwner ==
  /\ openSockets = (IF HandedOver THEN {} ELSE Held(producer))
                     \cup Queued \cup Held(consumer)
  /\ \A m, n \in DOMAIN queue : queue[m] = queue[n] => m = n
  /\ Queued \cap Held(consumer) = {}
  /\ HandedOver \/ Held(producer) \cap (Queued \cup Held(consumer)) = {}
=============================================================================
