---------------------------- MODULE PacketFraming ----------------------------
(***************************************************************************)
(* One direction of a chat connection, byte by byte: a packet is its tag,  *)
(* the length of its value and the value, and RecvTcpPacket reads the      *)
(* three parts with a loop of recv calls each (RecvAll).  The client's     *)
(* socket blocks; the server's does not, so there a recv that finds        *)
(* nothing returns EAGAIN, ProcessClient keeps the connection, and the     *)
(* bytes of the packet read so far are gone (the TODO of AcceptNewClient). *)
(*                                                                         *)
(* The network delivers the bytes in order and in pieces of any size.      *)
(* (Connections that are reset are in ChatServer.)                         *)
(***************************************************************************)
EXTENDS Integers, Sequences, SequencesExt

CONSTANTS Packets,        \* packets as their bytes: <<tag, length>> \o value
          MostPackets     \* the run stops sending after so many

ASSUME PacketFramingAssumption ==
  /\ \A p \in Packets : p \in Seq(Nat) /\ Len(p) >= 2 /\ Len(p) = 2 + p[2]
  /\ MostPackets \in Nat

VARIABLES receiver,    \* which RecvTcpPacket this is: "server" or "client"
          sent,        \* the packets sent so far
          wire,        \* bytes on their way
          arrived,     \* bytes the receiver's kernel holds
          gone,        \* the sender has closed its end
          state,       \* "idle", "reading" in RecvTcpPacket, or "closed"
          reading,     \* bytes of the packet this call has read so far
          received,    \* the packets handed to the caller so far
          torn,        \* a call gave up in the middle of a packet
          split        \* a packet has arrived in more than one piece

framingVars == <<receiver, sent, wire, arrived, gone, state, reading,
                 received, torn, split>>
link == <<wire, arrived, gone, split>>

FramingInit ==
  /\ receiver \in {"server", "client"}
  /\ sent = <<>> /\ wire = <<>> /\ arrived = <<>> /\ gone = FALSE
  /\ state = "idle" /\ reading = <<>> /\ received = <<>>
  /\ torn = FALSE /\ split = FALSE

\* The sender waits for the answer to a packet before it sends another.
SendTcpPacket(packet) ==
  /\ ~gone
  /\ Len(sent) < MostPackets /\ Len(sent) <= Len(received)
  /\ sent' = Append(sent, packet)
  /\ wire' = wire \o packet
  /\ UNCHANGED <<receiver, arrived, gone, state, reading, received, torn, split>>

Deliver(n) ==
  /\ n \in 1..Len(wire)
  /\ arrived' = arrived \o SubSeq(wire, 1, n)
  /\ wire' = SubSeq(wire, n + 1, Len(wire))
  /\ split' = (split \/ n < Len(wire))
  /\ UNCHANGED <<receiver, sent, gone, state, reading, received, torn>>

HangUp ==
  /\ ~gone
  /\ gone' = TRUE
  /\ UNCHANGED <<receiver, sent, wire, arrived, state, reading, received,
                 torn, split>>

\* Mutant: the connection is taken to have ended with bytes still unread.
EndOfStream_DropUnread == gone /\ wire = <<>>

EndOfStream == gone /\ wire = <<>> /\ arrived = <<>>

-----------------------------------------------------------------------------
\* RecvTcpPacket and RecvAll.

\* The bytes the next recv asks for: the tag, the length, or what is
\* missing of the value.
Wanted(bytes) == IF Len(bytes) < 2 THEN 1 ELSE 2 + bytes[2] - Len(bytes)

\* Mutant: one recv for the value, whatever it returns.
Complete_ShortRead(bytes) ==
  Len(bytes) > 2 \/ (Len(bytes) = 2 /\ bytes[2] = 0)

Complete(bytes) == Len(bytes) >= 2 /\ Wanted(bytes) = 0

\* The server comes here when select reports the socket, the client as soon
\* as it has sent its request.
RecvTcpPacket ==
  /\ state = "idle"
  /\ receiver = "server" => arrived # <<>> \/ EndOfStream
  /\ state' = "reading"
  /\ UNCHANGED <<receiver, sent, link, reading, received, torn>>

\* recv returns what there is, up to what was asked for.
RecvMore ==
  LET n == IF Wanted(reading) < Len(arrived) THEN Wanted(reading)
                                             ELSE Len(arrived)
      bytes == reading \o SubSeq(arrived, 1, n)
  IN  /\ state = "reading"
      /\ arrived # <<>>
      /\ arrived' = SubSeq(arrived, n + 1, Len(arrived))
      /\ IF Complete(bytes)
           THEN /\ received' = Append(received, bytes)
                /\ reading' = <<>>
                /\ state' = "idle"
           ELSE /\ reading' = bytes
                /\ UNCHANGED <<received, state>>
      /\ UNCHANGED <<receiver, sent, wire, gone, torn, split>>

\* EAGAIN: the call fails and what it has read is forgotten.
RecvWouldBlock ==
  /\ receiver = "server" /\ state = "reading"
  /\ arrived = <<>> /\ ~EndOfStream
  /\ state' = "idle"
  /\ reading' = <<>>
  /\ torn' = (torn \/ reading # <<>>)
  /\ UNCHANGED <<receiver, sent, link, received>>

\* recv returns 0, in the middle of a packet or not: the connection is closed.
RecvClosed ==
  /\ state = "reading"
  /\ EndOfStream
  /\ state' = "closed"
  /\ reading' = <<>>
  /\ UNCHANGED <<receiver, sent, link, received, torn>>

Receiving == RecvTcpPacket \/ RecvMore \/ RecvWouldBlock \/ RecvClosed
Arrive == \E n \in 1..Len(wire) : Deliver(n)

FramingNext ==
  \/ \E packet \in Packets : SendTcpPacket(packet)
  \/ HangUp
  \/ Arrive
  \/ Receiving

FramingSpec == FramingInit /\ [][FramingNext]_framingVars

\* TCP delivers what was sent, and a receiver with something to read runs.
FramingFairSpec ==
  /\ FramingSpec
  /\ WF_framingVars(Arrive)
  /\ WF_framingVars(Receiving)

-----------------------------------------------------------------------------
\* Properties.

\* What the receiver takes for packets are the packets that were sent, in
\* their order and none twice.  The one exception is the server's, and only
\* when a packet arrived in pieces: then a call may have given up half-way,
\* and what it left is read as if it began with a tag.  In particular the
\* client always reads whole answers, and packets that arrive whole (the
\* assumption of ChatServer) are never torn.
PacketsKeepTheirBounds ==
  IF torn THEN receiver = "server" /\ split ELSE IsPrefix(received, sent)

\* Every packet sent reaches the receiver's caller, also when the sender ends
\* right after it, unless a packet was torn (the sender then waits for an
\* answer for ever).
PacketsArrive ==
  \A k \in 1..MostPackets : Len(sent) >= k ~> Len(received) >= k \/ torn
=============================================================================
