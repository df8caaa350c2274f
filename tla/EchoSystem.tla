----------------------------- MODULE EchoSystem -----------------------------
(***************************************************************************)
(* The producer/consumer client and the poll server it talks to: each      *)
(* socket of the client is a connection of the server.  The queue is as    *)
(* long as the server's array (both 100 in the code), and the client holds *)
(* two sockets more, so that the server must refuse some of them: they are *)
(* closed, but stay in the queue until the consumer reads the end.         *)
(***************************************************************************)
EXTENDS PollServer, ProducerConsumer

ASSUME EchoSystemAssumption == Clients = Sockets

echoVars == <<pollVars, threadVars>>

EchoInit == PollServerInit /\ ProducerConsumerInit

\* connect waits while the listener's backlog is full.
ProducerConnects(c) == ProducerConnect(c) /\ Connect(c)

ConsumerSays == ConsumerSend(TRUE) /\ Send(consumer.fd)

\* Mutant: the consumer does not notice that the server has closed.
ConsumerReads_OnlyReplies ==
  /\ ConsumerRecv
  /\ Receive(consumer.fd)

\* A reply, or the end of the connection.
ConsumerReads ==
  /\ ConsumerRecv
  /\ \/ Receive(consumer.fd)
     \/ conn[consumer.fd].phase = "closed" /\ UNCHANGED pollVars

ConsumerCloses == ConsumerClose /\ Close(consumer.fd)

Producing ==
  \/ \E c \in Clients : ProducerConnects(c)
  \/ ProducerInside /\ UNCHANGED pollVars

Consuming ==
  \/ ConsumerInside /\ UNCHANGED pollVars
  \/ ConsumerSays \/ ConsumerReads \/ ConsumerCloses

Serving == Server /\ UNCHANGED threadVars

EchoNext == Producing \/ Consuming \/ Serving

EchoSpec == EchoInit /\ [][EchoNext]_echoVars

\* Both threads and the server run unless they wait in a call.
EchoFairSpec ==
  /\ EchoSpec
  /\ WF_echoVars(Producing)
  /\ WF_echoVars(Consuming)
  /\ WF_echoVars(Serving)

-----------------------------------------------------------------------------
\* Properties.

\* Every socket that waits in the queue is closed in the end, whether the
\* server took it or refused it, and the producer never waits for ever.
EverySocketIsClosed ==
  /\ \A c \in Sockets : c \in Queued ~> c \notin openSockets
  /\ producer.at = "wait" ~> producer.at = "connect"
=============================================================================
