------------------------- MODULE PacketFraming_proofs -------------------------
(***************************************************************************)
(* A packet keeps its bounds, for every set of packets and however the     *)
(* network cuts their bytes.                                               *)
(***************************************************************************)
EXTENDS PacketFraming, SequenceTheorems, TLAPS

-----------------------------------------------------------------------------
\* Stop-and-wait: everything sent was received, or all but the last packet,
\* whose bytes are the ones read of it, those that arrived and those on the
\* wire.

Delivered == received = sent /\ reading = <<>> /\ arrived = <<>> /\ wire = <<>>

InTransit(p) ==
  /\ sent = Append(received, p)
  /\ reading \o (arrived \o wire) = p
  /\ ~Complete(reading)

Intact ==
  /\ sent \in Seq(Packets) /\ received \in Seq(Packets)
  /\ reading \in Seq(Nat) /\ arrived \in Seq(Nat) /\ wire \in Seq(Nat)
  /\ Delivered \/ \E p \in Packets : InTransit(p)
  /\ (reading # <<>> \/ arrived # <<>>) /\ wire # <<>> => split = TRUE

\* The inductive invariant.  Nothing is known of the bytes once a packet was
\* torn, and none is torn but the server's, in pieces.
FramingInv ==
  /\ torn \in BOOLEAN /\ split \in BOOLEAN
  /\ torn = TRUE => receiver = "server" /\ split = TRUE
  /\ torn = FALSE => Intact

-----------------------------------------------------------------------------
\* Bytes.

LEMMA Grouping ==
  ASSUME NEW a \in Seq(Nat), NEW b \in Seq(Nat), NEW c \in Seq(Nat)
  PROVE  (a \o b) \o c = a \o (b \o c)
BY ConcatAssociative

\* The first n elements of b, and the rest, when the first go to the end of a.
Moves(a, b, n, first, rest) ==
  /\ rest \in Seq(Nat) /\ Len(rest) = Len(b) - n
  /\ a \o first \in Seq(Nat)
  /\ (a \o first) \o rest = a \o b

LEMMA Moved ==
  ASSUME NEW a \in Seq(Nat), NEW b \in Seq(Nat), NEW n \in 0..Len(b)
  PROVE  Moves(a, b, n, SubSeq(b, 1, n), SubSeq(b, n + 1, Len(b)))
<1> DEFINE first == SubSeq(b, 1, n)
           rest  == SubSeq(b, n + 1, Len(b))
<1>1. /\ Len(b) \in Nat /\ Len(a) \in Nat /\ n \in Nat /\ n \in Int /\ n + 1 \in Int
      /\ Len(b) \in Int /\ 1 \in Int
  BY LenProperties
<1>2. \A i \in 1..n : b[i] \in Nat
  BY <1>1, ElementOfSeq
<1>3. \A i \in n + 1..Len(b) : b[i] \in Nat
  BY <1>1, ElementOfSeq
<1>4. first \in Seq(Nat) /\ Len(first) = n
  BY <1>1, <1>2, SubSeqProperties
<1>5. rest \in Seq(Nat) /\ Len(rest) = Len(b) - n
  BY <1>1, <1>3, SubSeqProperties
<1>6. first \o rest = b
  <2>1. SubSeq(b, 1, n) \o SubSeq(b, n + 1, Len(b)) = SubSeq(b, 1, Len(b))
    <3>1. /\ 1 \in 1..Len(b) + 1 /\ n \in 1 - 1..Len(b) /\ Len(b) \in n..Len(b)
      BY <1>1
    <3> QED
      BY <3>1, ConcatAdjacentSubSeq
  <2> QED
    BY <2>1, SubSeqFull
<1> HIDE DEF first, rest
<1>7. a \o first \in Seq(Nat)
  BY <1>4, ConcatProperties
<1>8. (a \o first) \o rest = a \o b
  <2>1. (a \o first) \o rest = a \o (first \o rest)
    BY <1>4, <1>5, Grouping
  <2> QED
    BY <1>6, <2>1
<1>9. Moves(a, b, n, first, rest)
  BY <1>5, <1>7, <1>8 DEF Moves
<1> QED
  BY <1>9 DEF first, rest

\* The length in a packet's second byte: what has been read of it is not too
\* much, and complete only when it is all.
LEMMA Bounds ==
  ASSUME NEW p \in Packets, NEW a \in Seq(Nat), NEW b \in Seq(Nat), a \o b = p
  PROVE  /\ Len(a) \in Nat /\ Len(a) + Len(b) = Len(p)
         /\ Wanted(a) \in Nat /\ Wanted(a) <= Len(p) - Len(a)
         /\ Complete(a) => a = p /\ b = <<>>
         /\ b = <<>> => Complete(a)
<1>1. p \in Seq(Nat) /\ Len(p) >= 2 /\ Len(p) = 2 + p[2] /\ p[2] \in Nat
  BY PacketFramingAssumption, ElementOfSeq
<1>2. /\ Len(a) \in Nat /\ Len(b) \in Nat /\ Len(a) + Len(b) = Len(p)
      /\ \A i \in 1..Len(a) : p[i] = a[i]
  BY LenProperties, ConcatProperties
<1>3. Len(a) >= 2 => Wanted(a) = Len(p) - Len(a)
  BY <1>1, <1>2 DEF Wanted
<1>4. Len(a) < 2 => Wanted(a) = 1
  BY DEF Wanted
<1>5. Len(b) = 0 => b = <<>> /\ a = p
  BY EmptySeq, ConcatEmptySeq
<1>6. b = <<>> => Len(b) = 0
  BY EmptySeq
<1>7. Wanted(a) \in Nat /\ Wanted(a) <= Len(p) - Len(a)
  <2>1. Len(p) \in Nat /\ Len(p) - Len(a) = Len(b)
    BY <1>2
  <2>2. CASE Len(a) >= 2
    BY <1>2, <1>3, <2>1, <2>2
  <2>3. CASE Len(a) < 2
    BY <1>1, <1>2, <1>4, <2>1, <2>3
  <2> QED
    BY <1>2, <2>2, <2>3
<1>8. Complete(a) => a = p /\ b = <<>>
  BY <1>1, <1>2, <1>3, <1>5 DEF Complete
<1>9. b = <<>> => Complete(a)
  BY <1>1, <1>2, <1>3, <1>6 DEF Complete
<1> QED
  BY <1>2, <1>7, <1>8, <1>9

-----------------------------------------------------------------------------
\* The steps.

LEMMA FramingStarts ==
  ASSUME FramingInit
  PROVE  FramingInv
<1>1. Delivered
  BY DEF FramingInit, Delivered
<1>2. <<>> \in Seq(Packets) /\ <<>> \in Seq(Nat)
  BY EmptySeq
<1> QED
  BY <1>1, <1>2 DEF FramingInit, FramingInv, Intact

LEMMA SendKeeps ==
  ASSUME Intact, NEW p \in Packets, SendTcpPacket(p)
  PROVE  Intact'
<1>1. /\ sent' = Append(sent, p) /\ wire' = wire \o p
      /\ Len(sent) <= Len(received)
      /\ UNCHANGED <<reading, arrived, received, split>>
  BY DEF SendTcpPacket
<1>2. /\ sent \in Seq(Packets) /\ received \in Seq(Packets)
      /\ p \in Seq(Nat)
  BY PacketFramingAssumption DEF Intact
<1>3. Delivered
  <2>1. ASSUME NEW q \in Packets, InTransit(q)
        PROVE  FALSE
    <3>1. Len(sent) = Len(received) + 1
      BY <1>2, <2>1, AppendProperties DEF InTransit
    <3> QED
      BY <1>1, <1>2, <3>1, LenProperties
  <2> QED
    BY <2>1 DEF Intact
<1>4. <<>> \o p = p
  BY <1>2, ConcatEmptySeq
<1>5. wire' = p /\ reading' = <<>> /\ arrived' = <<>> /\ received' = received
  BY <1>1, <1>3, <1>4 DEF Delivered
<1>6. ~Complete(<<>>)
  BY DEF Complete
<1>7. InTransit(p)'
  BY <1>1, <1>3, <1>4, <1>5, <1>6 DEF InTransit, Delivered
<1>8. sent' \in Seq(Packets)
  BY <1>1, <1>2, AppendProperties
<1> QED
  BY <1>1, <1>2, <1>5, <1>7, <1>8 DEF Intact

LEMMA DeliverKeeps ==
  ASSUME Intact, split \in BOOLEAN, NEW n \in 1..Len(wire), Deliver(n)
  PROVE  Intact'
<1>1. /\ arrived' = arrived \o SubSeq(wire, 1, n)
      /\ wire' = SubSeq(wire, n + 1, Len(wire))
      /\ split' = (split \/ n < Len(wire))
      /\ UNCHANGED <<sent, reading, received>>
  BY DEF Deliver
<1>2. arrived \in Seq(Nat) /\ wire \in Seq(Nat) /\ Len(wire) \in Nat
  BY LenProperties DEF Intact
<1>3. /\ arrived' \in Seq(Nat) /\ wire' \in Seq(Nat)
      /\ Len(wire') = Len(wire) - n
      /\ arrived' \o wire' = arrived \o wire
  <2> DEFINE first == SubSeq(wire, 1, n)
             rest  == SubSeq(wire, n + 1, Len(wire))
  <2>1. n \in 0..Len(wire)
    BY <1>2
  <2>2. arrived' = arrived \o first /\ wire' = rest
    BY <1>1
  <2>3. Moves(arrived, wire, n, first, rest)
    BY <1>2, <2>1, Moved
  <2> HIDE DEF first, rest
  <2> QED
    BY <2>2, <2>3 DEF Moves
<1>4. wire' # <<>> => split' = TRUE
  <2>1. wire' # <<>> => Len(wire') # 0
    BY <1>3, EmptySeq
  <2>2. Len(wire') # 0 => n < Len(wire)
    BY <1>2, <1>3
  <2>3. n < Len(wire) => split' = TRUE
    BY <1>1
  <2> QED
    BY <2>1, <2>2, <2>3
<1>5. wire # <<>>
  BY <1>2, EmptySeq
<1>6. PICK p \in Packets : InTransit(p)
  BY <1>5 DEF Intact, Delivered
<1>7. InTransit(p)'
  BY <1>1, <1>3, <1>6 DEF InTransit
<1> QED
  BY <1>1, <1>3, <1>4, <1>7 DEF Intact

\* A recv within the packet: the bytes stay its bytes.
LEMMA RecvKeeps ==
  ASSUME Intact, RecvMore
  PROVE  Intact'
<1> DEFINE n == IF Wanted(reading) < Len(arrived) THEN Wanted(reading)
                                                  ELSE Len(arrived)
           bytes == reading \o SubSeq(arrived, 1, n)
<1>1. /\ arrived # <<>> /\ arrived' = SubSeq(arrived, n + 1, Len(arrived))
      /\ UNCHANGED <<sent, wire, split>>
      /\ Complete(bytes) => received' = Append(received, bytes) /\ reading' = <<>>
      /\ ~Complete(bytes) => received' = received /\ reading' = bytes
  BY DEF RecvMore
<1>2. /\ reading \in Seq(Nat) /\ arrived \in Seq(Nat) /\ wire \in Seq(Nat)
      /\ Len(arrived) \in Nat /\ sent \in Seq(Packets) /\ received \in Seq(Packets)
  BY LenProperties DEF Intact
<1>3. PICK p \in Packets : InTransit(p)
  BY <1>1 DEF Intact, Delivered
<1>4. arrived \o wire \in Seq(Nat)
  BY <1>2, ConcatProperties
<1>5. Wanted(reading) \in Nat
  BY <1>2, <1>3, <1>4, Bounds DEF InTransit
<1>6. n \in 0..Len(arrived)
  BY <1>2, <1>5
<1> HIDE DEF n
<1>7. /\ bytes \in Seq(Nat) /\ arrived' \in Seq(Nat)
      /\ bytes \o arrived' = reading \o arrived
  <2> DEFINE first == SubSeq(arrived, 1, n)
             rest  == SubSeq(arrived, n + 1, Len(arrived))
  <2>1. bytes = reading \o first /\ arrived' = rest
    BY <1>1
  <2>2. Moves(reading, arrived, n, first, rest)
    BY <1>2, <1>6, Moved
  <2> HIDE DEF first, rest, bytes
  <2> QED
    BY <2>1, <2>2 DEF Moves
<1> HIDE DEF bytes
<1>8. bytes \o (arrived' \o wire) = p
  <2>1. bytes \o (arrived' \o wire) = (bytes \o arrived') \o wire
    BY <1>2, <1>7, Grouping
  <2>2. (reading \o arrived) \o wire = reading \o (arrived \o wire)
    BY <1>2, Grouping
  <2> QED
    BY <1>3, <1>7, <2>1, <2>2 DEF InTransit
<1>9. arrived' \o wire \in Seq(Nat)
  BY <1>2, <1>7, ConcatProperties
<1>10. CASE Complete(bytes)
  <2>1. bytes = p /\ arrived' \o wire = <<>>
    BY <1>7, <1>8, <1>9, <1>10, Bounds
  <2>2. arrived' = <<>> /\ wire = <<>>
    BY <1>2, <1>7, <2>1, ConcatEqualIffEmpty
  <2>3. received' = sent
    BY <1>1, <1>3, <1>10, <2>1 DEF InTransit
  <2>4. Delivered'
    BY <1>1, <1>10, <2>2, <2>3 DEF Delivered
  <2>5. <<>> \in Seq(Nat)
    BY EmptySeq
  <2> QED
    BY <1>1, <1>2, <1>10, <2>2, <2>3, <2>4, <2>5 DEF Intact
<1>11. CASE ~Complete(bytes)
  <2>1. InTransit(p)'
    BY <1>1, <1>3, <1>8, <1>11 DEF InTransit
  <2>2. wire' # <<>> => split' = TRUE
    BY <1>1 DEF Intact
  <2> QED
    BY <1>1, <1>2, <1>7, <1>11, <2>1, <2>2 DEF Intact
<1> QED
  BY <1>10, <1>11

\* A call that gives up or finds the connection closed has read nothing of a
\* packet, except the server's from a packet in pieces.
LEMMA GivingUp ==
  ASSUME Intact, arrived = <<>>, wire = <<>> \/ split # TRUE
  PROVE  reading = <<>>
<1>1. ASSUME NEW p \in Packets, InTransit(p), reading # <<>>
      PROVE  FALSE
  <2>1. wire = <<>>
    BY <1>1 DEF Intact
  <2>2. arrived \o wire = <<>> /\ <<>> \in Seq(Nat) /\ reading \in Seq(Nat)
    <3>1. <<>> \in Seq(Nat)
      BY EmptySeq
    <3>2. <<>> \o <<>> = <<>>
      BY <3>1, ConcatEmptySeq
    <3> QED
      BY <2>1, <3>1, <3>2 DEF Intact
  <2>3. Complete(reading)
    BY <1>1, <2>2, Bounds DEF InTransit
  <2> QED
    BY <1>1, <2>3 DEF InTransit
<1> QED
  BY <1>1 DEF Intact, Delivered

LEMMA SameBytes ==
  ASSUME Intact, UNCHANGED <<sent, received, reading, arrived, wire, split>>
  PROVE  Intact'
BY DEF Intact, Delivered, InTransit

LEMMA FramingStep ==
  ASSUME FramingInv, [FramingNext]_framingVars
  PROVE  FramingInv'
<1>1. torn \in BOOLEAN /\ split \in BOOLEAN
  BY DEF FramingInv
<1>2. CASE UNCHANGED framingVars
  BY <1>2, SameBytes DEF framingVars, FramingInv
<1>3. ASSUME NEW p \in Packets, SendTcpPacket(p)
      PROVE  FramingInv'
  <2>1. UNCHANGED <<receiver, torn, split>>
    BY <1>3 DEF SendTcpPacket
  <2> QED
    BY <1>3, <2>1, SendKeeps DEF FramingInv
<1>4. CASE HangUp
  BY <1>4, SameBytes DEF HangUp, FramingInv
<1>5. ASSUME NEW n \in 1..Len(wire), Deliver(n)
      PROVE  FramingInv'
  <2>1. UNCHANGED <<receiver, torn>> /\ split' \in BOOLEAN /\ (split = TRUE => split' = TRUE)
    BY <1>5 DEF Deliver
  <2> QED
    BY <1>1, <1>5, <2>1, DeliverKeeps DEF FramingInv
<1>6. CASE RecvTcpPacket
  BY <1>6, SameBytes DEF RecvTcpPacket, link, FramingInv
<1>7. CASE RecvMore
  <2>1. UNCHANGED <<receiver, torn, split>>
    BY <1>7 DEF RecvMore
  <2> QED
    BY <1>7, <2>1, RecvKeeps DEF FramingInv
<1>8. CASE RecvWouldBlock
  <2>1. /\ receiver = "server" /\ arrived = <<>> /\ reading' = <<>>
        /\ torn' = (torn \/ reading # <<>>)
        /\ UNCHANGED <<receiver, sent, wire, arrived, split, received>>
    BY <1>8 DEF RecvWouldBlock, link
  <2>2. torn' \in BOOLEAN
    BY <1>1, <2>1
  <2>3. CASE torn = TRUE
    BY <1>1, <2>1, <2>2, <2>3 DEF FramingInv
  <2>4. CASE torn = FALSE /\ reading = <<>>
    BY <1>1, <2>1, <2>2, <2>4, SameBytes DEF FramingInv
  <2>5. CASE torn = FALSE /\ reading # <<>>
    <3>1. split = TRUE
      BY <2>1, <2>5, GivingUp DEF FramingInv
    <3> QED
      BY <1>1, <2>1, <2>2, <2>5, <3>1 DEF FramingInv
  <2> QED
    BY <1>1, <2>3, <2>4, <2>5
<1>9. CASE RecvClosed
  <2>1. /\ arrived = <<>> /\ wire = <<>> /\ reading' = <<>>
        /\ UNCHANGED <<receiver, sent, wire, arrived, split, received, torn>>
    BY <1>9 DEF RecvClosed, EndOfStream, link
  <2>2. CASE torn = TRUE
    BY <1>1, <2>1, <2>2 DEF FramingInv
  <2>3. CASE torn = FALSE
    <3>1. reading = <<>>
      BY <2>1, <2>3, GivingUp DEF FramingInv
    <3> QED
      BY <1>1, <2>1, <2>3, <3>1, SameBytes DEF FramingInv
  <2> QED
    BY <1>1, <2>2, <2>3
<1> QED
  BY <1>2, <1>3, <1>4, <1>5, <1>6, <1>7, <1>8, <1>9
  DEF FramingNext, Arrive, Receiving

LEMMA FramingInvariant == FramingSpec => []FramingInv
<1>1. FramingInit => FramingInv
  BY FramingStarts
<1>2. FramingInv /\ [FramingNext]_framingVars => FramingInv'
  BY FramingStep
<1> QED
  BY <1>1, <1>2, PTL DEF FramingSpec

-----------------------------------------------------------------------------
\* The theorem.

\* What was received is a prefix of what was sent.
LEMMA ReceivedInOrder ==
  ASSUME Intact
  PROVE  IsPrefix(received, sent)
<1>1. received \in Seq(Packets) /\ sent \in Seq(Packets) /\ Len(received) \in Nat
  BY LenProperties DEF Intact
<1>2. CASE received = sent
  BY <1>1, <1>2 DEF IsPrefix
<1>3. ASSUME NEW p \in Packets, sent = Append(received, p)
      PROVE  IsPrefix(received, sent)
  <2>1. Len(sent) = Len(received) + 1
    BY <1>1, <1>3, AppendProperties
  <2>2. SubSeq(received, 1, Len(received)) = SubSeq(sent, 1, Len(received))
    <3>1. CASE Len(received) = 0
      BY <3>1, SubSeqEmpty
    <3>2. CASE Len(received) # 0
      <4>1. sent = received \o <<p>> /\ <<p>> \in Seq(Packets)
        BY <1>1, <1>3, AppendIsConcat
      <4>2. 1 \in 1..Len(received) /\ Len(received) \in 1..Len(received)
        BY <1>1, <3>2
      <4> QED
        BY <1>1, <4>1, <4>2, SubSeqOfConcat1
    <3> QED
      BY <3>1, <3>2
  <2> QED
    BY <1>1, <2>1, <2>2 DEF IsPrefix
<1> QED
  BY <1>2, <1>3 DEF Intact, Delivered, InTransit

\* The packets received are the packets sent, in their order and none twice,
\* unless the server gave up on one that came in pieces (RecvTcpPacket and
\* RecvAll in tcp.c); the client reads whole answers.
THEOREM PacketsStayWhole == FramingSpec => []PacketsKeepTheirBounds
<1>1. FramingInv => PacketsKeepTheirBounds
  <2> SUFFICES ASSUME FramingInv
               PROVE  PacketsKeepTheirBounds
    OBVIOUS
  <2>1. torn = TRUE \/ torn = FALSE
    BY DEF FramingInv
  <2> QED
    BY <2>1, ReceivedInOrder DEF FramingInv, PacketsKeepTheirBounds
<1> QED
  BY <1>1, FramingInvariant, PTL
=============================================================================
