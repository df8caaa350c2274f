------------------------------ MODULE MCNetwork ------------------------------
\* Model-checking instance of the programs that only exchange bytes: the
\* framing of the chat's packets, the poll server among clients that do as
\* they like, and the poll server with the producer/consumer client.  A
\* behaviour is about one of them and the others rest.
EXTENDS EchoSystem, PacketFraming

VARIABLE subject

networkVars == <<subject, echoVars, framingVars>>

NetworkInit ==
  /\ subject \in {"framing", "poll", "echo"}
  /\ EchoInit
  /\ FramingInit /\ (subject # "framing" => receiver = "client")

\* A step of one subject.
Framing(step) == /\ subject = "framing" /\ step
                 /\ UNCHANGED <<subject, echoVars>>
Echoing(step) == /\ subject = "echo" /\ step
                 /\ UNCHANGED <<subject, framingVars>>

NetworkNext ==
  \/ Framing(FramingNext)
  \/ Echoing(EchoNext)
  \/ /\ subject = "poll" /\ PollServerNext
     /\ UNCHANGED <<subject, threadVars, framingVars>>

\* The fairness of FramingFairSpec and of EchoFairSpec.
NetworkSpec ==
  /\ NetworkInit
  /\ [][NetworkNext]_networkVars
  /\ WF_networkVars(Framing(Arrive))
  /\ WF_networkVars(Framing(Receiving))
  /\ WF_networkVars(Echoing(Producing))
  /\ WF_networkVars(Echoing(Consuming))
  /\ WF_networkVars(Echoing(Serving))

-----------------------------------------------------------------------------
\* Values of the constants.

\* A request without a value, one with two bytes, of which the second could
\* be taken for a tag, and one with a byte that could be a length.
ThreePackets == {<<1, 0>>, <<2, 2, 1, 0>>, <<3, 1, 2>>}
=============================================================================
