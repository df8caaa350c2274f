------------------------- MODULE ChatServer_proofs -------------------------
(***************************************************************************)
(* Proofs about ChatServer, for every number of clients, users, groups and *)
(* descriptors and every choice of allocation failures.                    *)
(*                                                                         *)
(* The inductive invariant ServerInv joins the invariants of the two       *)
(* managers (their operation lemmas are used here once per handler) and    *)
(* NetInv, which relates the connections, the accept queue and the         *)
(* descriptor sets.  NetInv strengthens DescriptorsTracked and             *)
(* ReportedStillReadable by what they need to be inductive: who is in the  *)
(* accept queue is "queued" there exactly once, an open connection has a   *)
(* real descriptor, and everything left in tempSet, also above maxFd, is   *)
(* readable.  AnsweredInv counts what is in flight on each connection;     *)
(* UnreadInv says that answers wait only for a peer that is there, and     *)
(* GrantInv that a grant among them still holds.  The lemmas before        *)
(* GrantInv say, operation by operation, which logins and memberships a    *)
(* step of the server keeps.                                               *)
(***************************************************************************)
EXTENDS ChatServer, UserManager_proofs, GroupManager_proofs,
        WellFoundedInduction

QueueOK ==
  /\ \A i \in 1..Len(acceptQueue) : conn[acceptQueue[i]].phase = "queued"
  /\ \A i, j \in 1..Len(acceptQueue) :
       acceptQueue[i] = acceptQueue[j] => i = j

OpenHaveDescriptors ==
  \A c \in Clients : conn[c].phase = "open" => conn[c].fd \in Sockets

ReportedReadable == \A fd \in tempSet : fd \in masterSet /\ Readable(fd)

NetInv ==
  /\ conn \in [Clients -> Connection]
  /\ acceptQueue \in Seq(Clients)
  /\ QueueOK
  /\ OpenHaveDescriptors
  /\ DescriptorsTracked
  /\ ReportedReadable

ServerInv == UsersInv(userManager) /\ ManagerInv(groupManager) /\ NetInv

-----------------------------------------------------------------------------
\* What the updates of one connection do to it.

LEMMA ConnectionFields ==
  ASSUME NEW k \in Connection
  PROVE  /\ \A x \in {"down", "queued", "open", "closed"} :
              [k EXCEPT !.phase = x] \in Connection
         /\ \A x \in Sockets \cup {NoSocket} : [k EXCEPT !.fd = x] \in Connection
         /\ \A x \in Seq(Request) : [k EXCEPT !.toServer = x] \in Connection
         /\ \A x \in Seq(Response) : [k EXCEPT !.toClient = x] \in Connection
         /\ \A x \in {"up", "fin", "rst"} : [k EXCEPT !.end = x] \in Connection
         /\ \A x \in BOOLEAN : [k EXCEPT !.awaiting = x] \in Connection
BY DEF Connection

LEMMA DownConnection == Down \in Connection
BY DEF Down, Connection, NoSocket

LEMMA WithRequestFields ==
  ASSUME NEW k \in Connection, NEW r \in Request
  PROVE  /\ WithRequest(k, r) \in Connection
         /\ WithRequest(k, r).phase = k.phase
         /\ WithRequest(k, r).fd = k.fd
         /\ WithRequest(k, r).end = k.end
         /\ WithRequest(k, r).toServer # <<>>
<1>1. k.toServer \in Seq(Request)
  BY DEF Connection
<1>2. Append(k.toServer, r) \in Seq(Request) /\ Append(k.toServer, r) # <<>>
  BY <1>1
<1> DEFINE s == Append(k.toServer, r)
<1> HIDE DEF s
<1>3. WithRequest(k, r) = [[k EXCEPT !.toServer = s] EXCEPT !.awaiting = TRUE]
  BY DEF WithRequest, Connection, s
<1>4. WithRequest(k, r) \in Connection
  BY <1>2, <1>3, ConnectionFields DEF s
<1>5. /\ WithRequest(k, r).phase = k.phase
      /\ WithRequest(k, r).fd = k.fd
      /\ WithRequest(k, r).end = k.end
      /\ WithRequest(k, r).toServer = s
  BY DEF WithRequest, Connection, s
<1> QED
  BY <1>2, <1>4, <1>5 DEF s

LEMMA WithoutResponseFields ==
  ASSUME NEW k \in Connection, k.toClient # <<>>
  PROVE  /\ WithoutResponse(k) \in Connection
         /\ WithoutResponse(k).phase = k.phase
         /\ WithoutResponse(k).fd = k.fd
         /\ WithoutResponse(k).end = k.end
         /\ WithoutResponse(k).toServer = k.toServer
<1>1. k.toClient \in Seq(Response)
  BY DEF Connection
<1>2. Tail(k.toClient) \in Seq(Response)
  BY <1>1
<1> DEFINE s == Tail(k.toClient)
<1> HIDE DEF s
<1>3. WithoutResponse(k) =
        [[k EXCEPT !.toClient = s] EXCEPT !.awaiting = FALSE]
  BY DEF WithoutResponse, Connection, s
<1>4. WithoutResponse(k) \in Connection
  BY <1>2, <1>3, ConnectionFields DEF s
<1>5. /\ WithoutResponse(k).phase = k.phase
      /\ WithoutResponse(k).fd = k.fd
      /\ WithoutResponse(k).end = k.end
      /\ WithoutResponse(k).toServer = k.toServer
  BY DEF WithoutResponse, Connection
<1> QED
  BY <1>4, <1>5

LEMMA EndedFields ==
  ASSUME NEW k \in Connection
  PROVE  /\ Ended(k) \in Connection
         /\ k.phase # "closed" =>
              /\ Ended(k).phase = k.phase
              /\ Ended(k).fd = k.fd
              /\ Ended(k).end # "up"
         /\ k.phase = "closed" => Ended(k).phase = "down"
<1> DEFINE x == IF k.toClient = <<>> THEN "fin" ELSE "rst"
           e == [k EXCEPT !.end = x, !.toClient = <<>>, !.awaiting = FALSE]
<1>1. x \in {"up", "fin", "rst"} /\ x # "up" /\ <<>> \in Seq(Response)
  OBVIOUS
<1> HIDE DEF x
<1>2. e = [[[k EXCEPT !.end = x] EXCEPT !.toClient = <<>>]
              EXCEPT !.awaiting = FALSE]
  BY DEF Connection
<1>3. e \in Connection
  BY <1>1, <1>2, ConnectionFields
<1>4. e.phase = k.phase /\ e.fd = k.fd /\ e.end = x
  BY DEF Connection
<1> QED
  BY <1>1, <1>3, <1>4, DownConnection DEF Ended, Down, x

LEMMA OpenedFields ==
  ASSUME NEW k \in Connection, NEW fd \in Sockets
  PROVE  /\ Opened(k, fd) \in Connection
         /\ Opened(k, fd).phase = "open"
         /\ Opened(k, fd).fd = fd
<1> DEFINE o == [k EXCEPT !.phase = "open"]
<1>1. o \in Connection
  BY ConnectionFields
<1>2. Opened(k, fd) \in Connection
  <2>1. Opened(k, fd) = [o EXCEPT !.fd = fd]
    BY DEF Opened, Connection
  <2>2. fd \in Sockets \cup {NoSocket}
    OBVIOUS
  <2> HIDE DEF o
  <2>3. [o EXCEPT !.fd = fd] \in Connection
    BY <1>1, <2>2, ConnectionFields, Zenon
  <2> QED
    BY <2>1, <2>3
<1>3. Opened(k, fd).phase = "open" /\ Opened(k, fd).fd = fd
  BY DEF Opened, Connection
<1> QED
  BY <1>2, <1>3

LEMMA AnsweredFields ==
  ASSUME NEW k \in Connection, k.toServer # <<>>, NEW rs \in Seq(Response)
  PROVE  /\ Answered(k, rs) \in Connection
         /\ Answered(k, rs).phase = k.phase
         /\ Answered(k, rs).fd = k.fd
         /\ Answered(k, rs).end = k.end
<1>1. k.toServer \in Seq(Request) /\ k.toClient \in Seq(Response)
  BY DEF Connection
<1> DEFINE s == Tail(k.toServer)
           t == IF k.end = "up" THEN k.toClient \o rs ELSE k.toClient
<1>2. s \in Seq(Request)
  BY <1>1
<1>3. t \in Seq(Response)
  BY <1>1
<1> HIDE DEF s, t
<1>4. Answered(k, rs) = [[k EXCEPT !.toServer = s] EXCEPT !.toClient = t]
  BY DEF Answered, Connection, s, t
<1>5. Answered(k, rs) \in Connection
  <2> DEFINE o == [k EXCEPT !.toServer = s]
  <2>1. o \in Connection
    BY <1>2, ConnectionFields
  <2>2. Answered(k, rs) = [o EXCEPT !.toClient = t]
    BY <1>4
  <2> HIDE DEF o
  <2> QED
    BY <1>3, <2>1, <2>2, ConnectionFields
<1>6. /\ Answered(k, rs).phase = k.phase
      /\ Answered(k, rs).fd = k.fd
      /\ Answered(k, rs).end = k.end
  BY DEF Answered, Connection
<1> QED
  BY <1>5, <1>6

LEMMA ClosedFields ==
  ASSUME NEW k \in Connection
  PROVE  /\ Closed(k) \in Connection
         /\ Closed(k).phase \in {"closed", "down"}
<1> DEFINE e == [k EXCEPT !.phase = "closed", !.fd = NoSocket]
<1>1. e = [[k EXCEPT !.phase = "closed"] EXCEPT !.fd = NoSocket]
  BY DEF Connection
<1>2. e \in Connection
  BY <1>1, ConnectionFields
<1>3. e.phase = "closed"
  BY DEF Connection
<1> QED
  BY <1>2, <1>3, DownConnection DEF Closed, Down

-----------------------------------------------------------------------------
\* The connections and the descriptor sets.

\* UpdateMaxFd finds the largest element up to a bound: the set of distances
\* to the bound has a least element.
LEMMA LargestUpTo ==
  ASSUME NEW S \in SUBSET Nat, NEW n \in Nat, NEW a \in S, a <= n
  PROVE  /\ UpdateMaxFd(S, n) \in S
         /\ UpdateMaxFd(S, n) <= n
         /\ \A x \in S : x <= n => x <= UpdateMaxFd(S, n)
<1> DEFINE Distances == {d \in Nat : n - d \in S}
<1>1. n - a \in Distances
  BY n - (n - a) = a
<1> DEFINE Less == {p \in Nat \X Nat : p[1] < p[2]}
<1>2. IsWellFoundedOn(Less, Nat)
  BY NatLessThanWellFounded DEF OpToRel
<1>3. PICK d \in Distances : \A e \in Distances : ~(<<e, d>> \in Less)
  <2> HIDE DEF Less
  <2> QED
    BY <1>1, <1>2, WFMin
<1>4. \A e \in Distances : d <= e
  <2>1. \A x, y \in Nat : x < y => <<x, y>> \in Less
    OBVIOUS
  <2> HIDE DEF Less
  <2>2. \A e \in Distances : ~(e < d)
    BY <1>3, <2>1
  <2> QED
    BY <2>2
<1>5. \A x \in S : x <= n => x <= n - d
  <2> SUFFICES ASSUME NEW x \in S, x <= n
               PROVE  x <= n - d
    OBVIOUS
  <2>1. n - x \in Distances
    BY n - (n - x) = x
  <2> QED
    BY <1>4, <2>1
<1>6. n - d \in S /\ n - d <= n
  OBVIOUS
<1> QED
  BY <1>5, <1>6 DEF UpdateMaxFd

\* A connection that changes but stays where it is: its descriptor remains
\* readable if it was, or the loop passes it in this step.
LEMMA SameDescriptors ==
  ASSUME NetInv, NEW c \in Clients, NEW k \in Connection,
         conn' = [conn EXCEPT ![c] = k],
         UNCHANGED <<acceptQueue, masterSet, maxFd>>,
         k.phase = "open" <=> conn[c].phase = "open",
         k.phase = "queued" <=> conn[c].phase = "queued",
         k.phase = "open" => k.fd = conn[c].fd,
         \/ /\ tempSet' = tempSet
            /\ /\ conn[c].phase = "open"
               /\ conn[c].toServer # <<>> \/ conn[c].end # "up"
               => k.toServer # <<>> \/ k.end # "up"
         \/ /\ conn[c].phase = "open"
            /\ tempSet' = tempSet \ {conn[c].fd}
  PROVE  NetInv'
<1>1. /\ conn' \in [Clients -> Connection]
      /\ conn'[c] = k
      /\ \A d \in Clients : d # c => conn'[d] = conn[d]
  BY DEF NetInv
<1>2. Accepted' = Accepted
  BY <1>1 DEF Accepted
<1>3. \A d \in Accepted : conn'[d].fd = conn[d].fd
  BY <1>1 DEF Accepted
<1>4. OpenFds' = OpenFds
  BY <1>2, <1>3 DEF OpenFds
<1>5. acceptQueue' \in Seq(Clients)
  BY DEF NetInv
<1>6. QueueOK'
  <2>1. \A i \in 1..Len(acceptQueue) : acceptQueue[i] \in Clients
    BY DEF NetInv
  <2> QED
    BY <1>1, <2>1 DEF NetInv, QueueOK
<1>7. OpenHaveDescriptors'
  BY <1>1 DEF NetInv, OpenHaveDescriptors
<1>8. DescriptorsTracked'
  BY <1>2, <1>3, <1>4 DEF NetInv, DescriptorsTracked
<1>9. ReportedReadable'
  <2> SUFFICES ASSUME NEW fd \in tempSet'
               PROVE  fd \in masterSet' /\ Readable(fd)'
    BY DEF ReportedReadable
  <2>1. fd \in tempSet /\ fd \in masterSet /\ Readable(fd)
    BY DEF NetInv, ReportedReadable
  <2>2. CASE fd = Listener
    BY <2>1, <2>2 DEF Readable
  <2>3. CASE fd # Listener
    <3>1. PICK d \in Accepted : /\ conn[d].fd = fd
                                /\ \/ conn[d].toServer # <<>>
                                   \/ conn[d].end # "up"
      BY <2>1, <2>3 DEF Readable
    <3>2. /\ d \in Clients
          /\ conn'[d].fd = fd
          /\ conn'[d].toServer # <<>> \/ conn'[d].end # "up"
      BY <1>1, <1>3, <3>1 DEF Accepted
    <3> QED
      BY <1>2, <2>1, <2>3, <3>1, <3>2 DEF Readable
  <2> QED
    BY <2>2, <2>3
<1> QED
  BY <1>1, <1>5, <1>6, <1>7, <1>8, <1>9 DEF NetInv

\* close(): the descriptor leaves all three sets together.
LEMMA ConnectionClosed ==
  ASSUME NetInv, NEW c \in Accepted, NEW k \in Connection,
         conn' = [conn EXCEPT ![c] = k],
         k.phase \notin {"open", "queued"},
         CloseConnection(c)
  PROVE  NetInv'
<1> DEFINE fd == conn[c].fd
<1>1. /\ conn' \in [Clients -> Connection]
      /\ conn'[c] = k
      /\ \A d \in Clients : d # c => conn'[d] = conn[d]
      /\ c \in Clients
      /\ conn[c].phase = "open"
  BY DEF NetInv, Accepted
<1>2. Accepted' = Accepted \ {c}
  BY <1>1 DEF Accepted
<1>3. \A d \in Accepted' : conn'[d].fd = conn[d].fd
  BY <1>1, <1>2
<1>4. fd \in Sockets /\ Listener < fd /\ Sockets \subseteq Nat /\ Listener \in Nat
  BY <1>1, ChatServerAssumption, UserManagerAssumption
     DEF NetInv, OpenHaveDescriptors
<1>5. OpenFds' = OpenFds \ {fd}
  BY <1>2, <1>3 DEF OpenFds, NetInv, DescriptorsTracked
<1>6. /\ masterSet' = masterSet \ {fd}
      /\ tempSet' = tempSet \ {fd}
      /\ maxFd' = IF fd = maxFd THEN UpdateMaxFd(masterSet', maxFd) ELSE maxFd
      /\ acceptQueue' = acceptQueue
  BY DEF CloseConnection
<1>7. /\ masterSet = {Listener} \cup OpenFds
      /\ maxFd \in masterSet
      /\ \A f \in masterSet : f <= maxFd
      /\ masterSet \subseteq Nat
      /\ \A d1, d2 \in Accepted : conn[d1].fd = conn[d2].fd => d1 = d2
  BY <1>4 DEF NetInv, DescriptorsTracked, OpenFds, Accepted, OpenHaveDescriptors
<1>8. masterSet' = {Listener} \cup OpenFds'
  BY <1>4, <1>5, <1>6, <1>7
<1>9. maxFd' \in masterSet' /\ \A f \in masterSet' : f <= maxFd'
  <2>1. CASE fd = maxFd
    <3>1. Listener \in masterSet' /\ Listener <= maxFd
      BY <1>7, <1>8
    <3>2. masterSet' \in SUBSET Nat /\ maxFd \in Nat
      BY <1>6, <1>7
    <3>3. /\ UpdateMaxFd(masterSet', maxFd) \in masterSet'
          /\ \A x \in masterSet' :
               x <= maxFd => x <= UpdateMaxFd(masterSet', maxFd)
      BY <3>1, <3>2, LargestUpTo
    <3> QED
      BY <1>6, <1>7, <2>1, <3>3
  <2>2. CASE fd # maxFd
    BY <1>6, <1>7, <2>2
  <2> QED
    BY <2>1, <2>2
<1>10. DescriptorsTracked'
  BY <1>2, <1>3, <1>7, <1>8, <1>9 DEF DescriptorsTracked
<1>11. acceptQueue' \in Seq(Clients) /\ QueueOK'
  <2>1. \A i \in 1..Len(acceptQueue) : acceptQueue[i] \in Clients
    BY DEF NetInv
  <2> QED
    BY <1>1, <1>6, <2>1 DEF NetInv, QueueOK
<1>12. OpenHaveDescriptors'
  BY <1>1 DEF NetInv, OpenHaveDescriptors
<1>13. ReportedReadable'
  <2> SUFFICES ASSUME NEW f \in tempSet'
               PROVE  f \in masterSet' /\ Readable(f)'
    BY DEF ReportedReadable
  <2>1. f \in tempSet /\ f # fd /\ f \in masterSet' /\ Readable(f)
    BY <1>6 DEF NetInv, ReportedReadable
  <2>2. CASE f = Listener
    BY <1>6, <2>1, <2>2 DEF Readable
  <2>3. CASE f # Listener
    <3>1. PICK d \in Accepted : /\ conn[d].fd = f
                                /\ \/ conn[d].toServer # <<>>
                                   \/ conn[d].end # "up"
      BY <2>1, <2>3 DEF Readable
    <3>2. d \in Accepted' /\ d # c /\ conn'[d] = conn[d]
      BY <1>1, <1>2, <2>1, <3>1 DEF Accepted
    <3> QED
      BY <2>1, <2>3, <3>1, <3>2 DEF Readable
  <2> QED
    BY <2>2, <2>3
<1> QED
  BY <1>1, <1>10, <1>11, <1>12, <1>13 DEF NetInv

\* accept(): the head of the queue gets a descriptor that no open connection
\* has, so it is not among those reported either.
LEMMA ConnectionAccepted ==
  ASSUME NetInv, AcceptNewClient
  PROVE  NetInv'
<1> DEFINE c == Head(acceptQueue)
<1>1. PICK fd \in Sockets :
        /\ IsLeastFree(fd)
        /\ conn' = [conn EXCEPT ![c] = Opened(@, fd)]
        /\ masterSet' = masterSet \cup {fd}
        /\ maxFd' = IF fd > maxFd THEN fd ELSE maxFd
  BY DEF AcceptNewClient
<1>2. /\ acceptQueue # <<>>
      /\ acceptQueue \in Seq(Clients)
      /\ acceptQueue' = Tail(acceptQueue)
      /\ tempSet' = tempSet \ {Listener}
  BY DEF AcceptNewClient, NetInv
<1>3. /\ Len(acceptQueue) \in Nat \ {0}
      /\ c \in Clients
      /\ c = acceptQueue[1]
      /\ Tail(acceptQueue) \in Seq(Clients)
      /\ Len(Tail(acceptQueue)) = Len(acceptQueue) - 1
      /\ \A i \in 1..Len(acceptQueue) - 1 :
           Tail(acceptQueue)[i] = acceptQueue[i + 1]
      /\ \A i \in 1..Len(acceptQueue) : acceptQueue[i] \in Clients
  BY <1>2
<1>4. conn[c].phase = "queued"
  BY <1>3 DEF NetInv, QueueOK
<1> HIDE DEF c
<1>5. /\ conn' \in [Clients -> Connection]
      /\ conn'[c].phase = "open"
      /\ conn'[c].fd = fd
      /\ \A d \in Clients : d # c => conn'[d] = conn[d]
  <2>1. Opened(conn[c], fd) \in Connection
        /\ Opened(conn[c], fd).phase = "open"
        /\ Opened(conn[c], fd).fd = fd
    BY <1>3, OpenedFields DEF NetInv
  <2> QED
    BY <1>1, <1>3, <2>1 DEF NetInv
<1>6. Accepted' = Accepted \cup {c} /\ c \notin Accepted
  BY <1>3, <1>4, <1>5 DEF Accepted
<1>7. \A d \in Accepted : conn'[d] = conn[d]
  BY <1>5, <1>6 DEF Accepted
<1>8. OpenFds' = OpenFds \cup {fd} /\ fd \notin OpenFds
  BY <1>1, <1>5, <1>6, <1>7 DEF OpenFds, IsLeastFree
<1>9. /\ masterSet = {Listener} \cup OpenFds
      /\ maxFd \in masterSet
      /\ \A f \in masterSet : f <= maxFd
      /\ masterSet \subseteq Nat
      /\ fd \in Nat /\ fd # Listener
      /\ \A d1, d2 \in Accepted : conn[d1].fd = conn[d2].fd => d1 = d2
  BY ChatServerAssumption, UserManagerAssumption
     DEF NetInv, DescriptorsTracked, OpenFds, Accepted, OpenHaveDescriptors
<1>10. DescriptorsTracked'
  <2>1. masterSet' = {Listener} \cup OpenFds'
    BY <1>1, <1>8, <1>9
  <2>2. \A d1, d2 \in Accepted' : conn'[d1].fd = conn'[d2].fd => d1 = d2
    BY <1>5, <1>6, <1>7, <1>8, <1>9 DEF OpenFds
  <2>3. maxFd' \in masterSet' /\ \A f \in masterSet' : f <= maxFd'
    BY <1>1, <1>9
  <2> QED
    BY <2>1, <2>2, <2>3 DEF DescriptorsTracked
<1>11. QueueOK'
  <2>1. \A i \in 1..Len(acceptQueue) - 1 : acceptQueue[i + 1] # c
    BY <1>3 DEF NetInv, QueueOK, c
  <2>2. \A i \in 1..Len(acceptQueue) - 1 :
          conn'[acceptQueue[i + 1]].phase = "queued"
    BY <1>3, <1>5, <2>1 DEF NetInv, QueueOK
  <2>3. \A i, j \in 1..Len(acceptQueue) - 1 :
          acceptQueue[i + 1] = acceptQueue[j + 1] => i = j
    BY <1>3 DEF NetInv, QueueOK
  <2> QED
    BY <1>2, <1>3, <2>2, <2>3 DEF QueueOK
<1>12. OpenHaveDescriptors'
  BY <1>5 DEF NetInv, OpenHaveDescriptors
<1>13. ReportedReadable'
  <2> SUFFICES ASSUME NEW f \in tempSet'
               PROVE  f \in masterSet' /\ Readable(f)'
    BY DEF ReportedReadable
  <2>1. f \in masterSet' /\ f # Listener /\ Readable(f)
    BY <1>1, <1>2 DEF NetInv, ReportedReadable
  <2>2. PICK d \in Accepted : /\ conn[d].fd = f
                              /\ \/ conn[d].toServer # <<>>
                                 \/ conn[d].end # "up"
    BY <2>1 DEF Readable
  <2>3. d \in Accepted' /\ conn'[d] = conn[d]
    BY <1>6, <1>7
  <2> QED
    BY <2>1, <2>2, <2>3 DEF Readable
<1> QED
  BY <1>2, <1>3, <1>5, <1>10, <1>11, <1>12, <1>13 DEF NetInv

\* connect(): one more in the queue.
LEMMA ConnectionQueued ==
  ASSUME NetInv, NEW c \in Clients, ConnectToServer(c)
  PROVE  NetInv'
<1>1. /\ conn[c].phase = "down"
      /\ conn' = [conn EXCEPT ![c].phase = "queued"]
      /\ acceptQueue' = Append(acceptQueue, c)
      /\ UNCHANGED loopVars
      /\ acceptQueue \in Seq(Clients)
  BY DEF ConnectToServer, NetInv
<1>2. /\ conn' \in [Clients -> Connection]
      /\ conn'[c].phase = "queued"
      /\ \A d \in Clients : d # c => conn'[d] = conn[d]
  <2>1. /\ [conn[c] EXCEPT !.phase = "queued"] \in Connection
        /\ [conn[c] EXCEPT !.phase = "queued"].phase = "queued"
    BY DEF NetInv, Connection
  <2> QED
    BY <1>1, <2>1 DEF NetInv
<1>3. Accepted' = Accepted /\ \A d \in Accepted : conn'[d] = conn[d]
  BY <1>1, <1>2 DEF Accepted
<1>4. OpenFds' = OpenFds
  BY <1>3 DEF OpenFds
<1>5. acceptQueue' \in Seq(Clients) /\ acceptQueue' # <<>>
  BY <1>1
<1>6. QueueOK'
  <2>1. /\ Len(acceptQueue') = Len(acceptQueue) + 1
        /\ Len(acceptQueue) \in Nat
        /\ \A i \in 1..Len(acceptQueue) :
             /\ acceptQueue'[i] = acceptQueue[i]
             /\ acceptQueue[i] \in Clients
        /\ acceptQueue'[Len(acceptQueue) + 1] = c
    BY <1>1
  <2>2. \A i \in 1..Len(acceptQueue) : acceptQueue[i] # c
    BY <1>1 DEF NetInv, QueueOK
  <2>3. \A i \in 1..Len(acceptQueue) + 1 :
          i = Len(acceptQueue) + 1 \/ i \in 1..Len(acceptQueue)
    BY <2>1
  <2>4. \A i \in 1..Len(acceptQueue) + 1 :
          conn'[acceptQueue'[i]].phase = "queued"
    BY <1>2, <2>1, <2>2, <2>3 DEF NetInv, QueueOK
  <2>5. \A i, j \in 1..Len(acceptQueue) + 1 :
          acceptQueue'[i] = acceptQueue'[j] => i = j
    BY <2>1, <2>2, <2>3 DEF NetInv, QueueOK
  <2> QED
    BY <2>1, <2>4, <2>5 DEF QueueOK
<1>7. OpenHaveDescriptors'
  BY <1>2 DEF NetInv, OpenHaveDescriptors
<1>8. DescriptorsTracked'
  BY <1>1, <1>3, <1>4 DEF NetInv, DescriptorsTracked, loopVars
<1>9. ReportedReadable'
  <2>1. \A fd \in tempSet : Readable(fd) => Readable(fd)'
    BY <1>3, <1>5 DEF Readable
  <2> QED
    BY <1>1, <2>1 DEF NetInv, ReportedReadable, loopVars
<1> QED
  BY <1>2, <1>5, <1>6, <1>7, <1>8, <1>9 DEF NetInv

\* select() reports readable descriptors of masterSet only.
LEMMA SelectReturns ==
  ASSUME NetInv, Select
  PROVE  NetInv'
<1>1. UNCHANGED <<conn, acceptQueue, masterSet, maxFd>>
  BY DEF Select, netVars
<1>2. \A fd \in tempSet' : fd \in masterSet /\ Readable(fd)
  BY DEF Select
<1>3. ReportedReadable'
  BY <1>1, <1>2 DEF ReportedReadable, Readable, Accepted
<1>4. QueueOK' /\ OpenHaveDescriptors' /\ DescriptorsTracked'
  BY <1>1 DEF NetInv, QueueOK, OpenHaveDescriptors, DescriptorsTracked,
              OpenFds, Accepted
<1> QED
  BY <1>1, <1>3, <1>4 DEF NetInv

LEMMA DescriptorPassed ==
  ASSUME NetInv, UNCHANGED <<conn, acceptQueue, masterSet, maxFd>>,
         tempSet' \subseteq tempSet
  PROVE  NetInv'
<1>1. ReportedReadable'
  BY DEF NetInv, ReportedReadable, Readable, Accepted
<1>2. QueueOK' /\ OpenHaveDescriptors' /\ DescriptorsTracked'
  BY DEF NetInv, QueueOK, OpenHaveDescriptors, DescriptorsTracked,
         OpenFds, Accepted
<1> QED
  BY <1>1, <1>2 DEF NetInv

-----------------------------------------------------------------------------
\* The handlers.

LEMMA Booleans == \A x : (x = "success") \in BOOLEAN
OBVIOUS

LEMMA StatusTyped ==
  ASSUME NEW tag \in {"register", "login", "logout", "exit", "leave",
                      "create", "join"},
         NEW result
  PROVE  Status(tag, result) \in Seq(Response)
<1> DEFINE ok == result = "success"
<1>1. ok \in BOOLEAN
  BY Booleans
<1> HIDE DEF ok
<1>2. [tag |-> tag, ok |-> ok] \in StatusResponse
  BY <1>1 DEF StatusResponse
<1>3. [tag |-> tag, ok |-> ok] \in Response
  BY <1>2 DEF Response
<1>4. <<[tag |-> tag, ok |-> ok]>> \in Seq(Response)
  BY <1>3
<1> QED
  BY <1>4 DEF Status, ok

LEMMA GroupInfoTyped ==
  ASSUME NEW tag \in {"create", "join"}, NEW result, NEW info,
         result = "success" => info.ip \in MulticastIps /\ info.port \in Nat
  PROVE  GroupInfo(tag, result, info) \in Seq(Response)
<1>1. CASE result # "success"
  BY <1>1, StatusTyped DEF GroupInfo
<1>2. CASE result = "success"
  <2> DEFINE r == [tag |-> tag, ok |-> TRUE, ip |-> info.ip, port |-> info.port]
  <2>1. r \in GroupInfoResponse
    BY <1>2 DEF GroupInfoResponse
  <2>2. r \in Response
    BY <2>1 DEF Response
  <2> HIDE DEF r
  <2>3. <<r>> \in Seq(Response) /\ <<>> \in Seq(Response)
    BY <2>2
  <2> QED
    BY <1>2, <2>3 DEF GroupInfo, r
<1> QED
  BY <1>1, <1>2

\* After a member was added, the group is found with a proper address.
LEMMA AddedUserFound ==
  ASSUME NEW m, ManagerInv(m), NEW name, NEW user \in Users, NEW fault,
         GroupManagerAddUserToGroup(m, name, user, fault).result = "success"
  PROVE  LET m2 == GroupManagerAddUserToGroup(m, name, user, fault).manager
         IN  /\ GroupManagerFindGroup(m2, name).ip \in MulticastIps
             /\ GroupManagerFindGroup(m2, name).port \in Nat
             /\ GroupManagerFindGroup(m2, name).port < m2.nextMulticastPort
<1> DEFINE added == GroupManagerAddUserToGroup(m, name, user, fault)
           m2 == added.manager
           g == [m.groups EXCEPT ![name] = WithMember(@, user)]
<1>1. /\ name \in DOMAIN m.groups
      /\ m2 = [m EXCEPT !.groups[name] = WithMember(@, user)]
  BY DEF GroupManagerAddUserToGroup, Outcome
<1>2. m2 = [m EXCEPT !.groups = g]
  BY <1>1
<1>3. DOMAIN g = DOMAIN m.groups
  OBVIOUS
<1> HIDE DEF g
<1>4. m2.groups = g
  BY <1>2, FieldsUpdated DEF ManagerInv
<1>5. ManagerInv(m2) /\ name \in DOMAIN m2.groups
  BY <1>1, <1>3, <1>4, AddUserInv
<1> HIDE DEF m2
<1>6. m2.groups[name] \in Group
  BY <1>5, LiveGroup
<1>7. /\ GroupManagerFindGroup(m2, name).ip \in MulticastIps
      /\ GroupManagerFindGroup(m2, name).port \in Nat
  BY <1>5, <1>6 DEF GroupManagerFindGroup, Group
<1>8. GroupManagerFindGroup(m2, name).port < m2.nextMulticastPort
  BY <1>5 DEF GroupManagerFindGroup, ManagerInv, PortsDistinct
<1> QED
  BY <1>7, <1>8 DEF m2

\* The request a handler works on is well formed.
LEMMA PacketTyped ==
  ASSUME NetInv, NEW c \in Clients, NEW tag, Handling(c, tag)
  PROVE  /\ c \in Accepted
         /\ conn[c] \in Connection
         /\ conn[c].toServer # <<>>
         /\ conn[c].phase = "open"
         /\ conn[c].fd \in Sockets
         /\ tag \in {"register", "login"} =>
              Packet(c).user \in Users /\ Packet(c).password \in Passwords
         /\ tag \in {"create", "join", "leave"} => Packet(c).group \in GroupNames
<1>1. /\ c \in Accepted
      /\ conn[c].toServer # <<>>
      /\ Packet(c).tag = tag
      /\ conn[c].phase = "open"
      /\ conn[c].fd \in Sockets
      /\ conn[c] \in Connection
  BY DEF Handling, Serving, Accepted, NetInv, OpenHaveDescriptors
<1>2. conn[c].toServer \in Seq(Request)
  BY <1>1 DEF Connection
<1>3. Packet(c) \in Request
  BY <1>1, <1>2 DEF Packet
<1>4. /\ tag \in {"register", "login"} => Packet(c) \in UserRequest
      /\ tag \in {"create", "join", "leave"} => Packet(c) \in GroupRequest
  BY <1>1, <1>3 DEF Request, UserRequest, GroupRequest, PlainRequest
<1>5. /\ tag \in {"register", "login"} =>
           Packet(c).user \in Users /\ Packet(c).password \in Passwords
      /\ tag \in {"create", "join", "leave"} => Packet(c).group \in GroupNames
  BY <1>4 DEF UserRequest, GroupRequest
<1> QED
  BY <1>1, <1>5

\* A handler that answers keeps the network invariant.
LEMMA AnswerKeepsNet ==
  ASSUME NetInv, NEW c \in Clients, NEW tag, Handling(c, tag),
         NEW rs \in Seq(Response), Answer(c, rs)
  PROVE  NetInv'
<1> DEFINE k == Answered(conn[c], rs)
<1>1. /\ c \in Accepted
      /\ conn[c] \in Connection
      /\ conn[c].toServer # <<>>
      /\ conn[c].phase = "open"
  BY PacketTyped
<1>2. k \in Connection /\ k.phase = "open" /\ k.fd = conn[c].fd
  BY <1>1, AnsweredFields
<1>3. /\ conn' = [conn EXCEPT ![c] = k]
      /\ tempSet' = tempSet \ {conn[c].fd}
      /\ UNCHANGED <<acceptQueue, masterSet, maxFd>>
  BY DEF Answer
<1> HIDE DEF k
<1> QED
  BY <1>1, <1>2, <1>3, SameDescriptors

LEMMA UsernameTyped ==
  ASSUME NEW m, UsersInv(m), NEW s, IsLoggedIn(m, s)
  PROVE  UsernameBySocket(m, s) \in Users
BY DEF UsersInv, UsersTypeOK, IsLoggedIn, UsernameBySocket

LEMMA RegisterStep ==
  ASSUME ServerInv, NEW c \in Clients, HandleRegisterRequest(c)
  PROVE  ServerInv'
<1> USE DEF ServerInv
<1>1. Handling(c, "register") /\ UNCHANGED groupManager
  BY DEF HandleRegisterRequest
<1>2. PICK fault \in Faults :
        LET call == UserManagerRegister(userManager, Packet(c).user,
                                        Packet(c).password, fault)
        IN  /\ userManager' = call.manager
            /\ Answer(c, Status("register", call.result))
  BY DEF HandleRegisterRequest
<1>3. UsersInv(userManager')
  BY <1>1, <1>2, PacketTyped, RegisterGood DEF Good
<1>4. NetInv'
  BY <1>1, <1>2, StatusTyped, AnswerKeepsNet
<1> QED
  BY <1>1, <1>3, <1>4

LEMMA LoginStep ==
  ASSUME ServerInv, NEW c \in Clients, HandleLoginRequest(c)
  PROVE  ServerInv'
<1> USE DEF ServerInv
<1>1. Handling(c, "login") /\ UNCHANGED groupManager
  BY DEF HandleLoginRequest
<1>2. PICK fault \in Faults :
        LET call == UserManagerLogin(userManager, Packet(c).user,
                                     Packet(c).password, conn[c].fd, fault)
        IN  /\ userManager' = call.manager
            /\ Answer(c, Status("login", call.result))
  BY DEF HandleLoginRequest
<1>3. UsersInv(userManager')
  BY <1>1, <1>2, PacketTyped, LoginGood DEF Good
<1>4. NetInv'
  BY <1>1, <1>2, StatusTyped, AnswerKeepsNet
<1> QED
  BY <1>1, <1>3, <1>4

LEMMA LogoutStep ==
  ASSUME ServerInv, NEW c \in Clients, HandleLogoutRequest(c)
  PROVE  ServerInv'
<1> USE DEF ServerInv
<1>1. Handling(c, "logout") /\ conn[c].fd \in Sockets
  BY PacketTyped DEF HandleLogoutRequest
<1>2. /\ userManager' = UserManagerLogout(userManager, conn[c].fd).manager
      /\ Answer(c, Status("logout",
                          UserManagerLogout(userManager, conn[c].fd).result))
  BY DEF HandleLogoutRequest
<1>3. UsersInv(userManager')
  BY <1>1, <1>2, LogoutGood DEF Good
<1>4. NetInv'
  BY <1>1, <1>2, StatusTyped, AnswerKeepsNet
<1>5. ManagerInv(groupManager')
  <2>1. CASE ~IsLoggedIn(userManager, conn[c].fd)
    BY <2>1 DEF HandleLogoutRequest
  <2>2. CASE IsLoggedIn(userManager, conn[c].fd)
    <3> DEFINE user == UsernameBySocket(userManager, conn[c].fd)
    <3>1. user \in Users
      BY <2>2, UsernameTyped
    <3>2. PICK order \in VisitOrders(EmptyGroups(LeaveAll(groupManager, user))) :
            groupManager' = GroupManagerRemoveUserFromAllGroups(
                              groupManager, user, order).manager
      BY <2>2 DEF HandleLogoutRequest
    <3> HIDE DEF user
    <3> QED
      BY <3>1, <3>2, RemoveUserFromAllInv
  <2> QED
    BY <2>1, <2>2
<1> QED
  BY <1>3, <1>4, <1>5

LEMMA ExitStep ==
  ASSUME ServerInv, NEW c \in Clients, HandleExitRequest(c)
  PROVE  ServerInv'
<1> USE DEF ServerInv
<1> DEFINE answered == Answered(conn[c], Status("exit", "success"))
<1>1. /\ Handling(c, "exit")
      /\ UNCHANGED groupManager
      /\ CloseConnection(c)
      /\ conn' = [conn EXCEPT ![c] = Closed(answered)]
  BY DEF HandleExitRequest
<1>2. /\ c \in Accepted
      /\ conn[c] \in Connection
      /\ conn[c].toServer # <<>>
      /\ conn[c].fd \in Sockets
  BY <1>1, PacketTyped
<1>3. UsersInv(userManager')
  <2> DEFINE once == UserManagerLogout(userManager, conn[c].fd).manager
  <2>1. UsersInv(once)
    BY <1>2, LogoutGood DEF Good
  <2>2. userManager' = UserManagerLogout(once, conn[c].fd).manager
    BY DEF HandleExitRequest
  <2> HIDE DEF once
  <2> QED
    BY <1>2, <2>1, <2>2, LogoutGood DEF Good
<1>4. answered \in Connection
  BY <1>2, StatusTyped, AnsweredFields
<1> HIDE DEF answered
<1>5. Closed(answered) \in Connection /\ Closed(answered).phase \in {"closed", "down"}
  BY <1>4, ClosedFields
<1>6. NetInv'
  BY <1>1, <1>2, <1>5, ConnectionClosed
<1> QED
  BY <1>1, <1>3, <1>6

LEMMA CreateStep ==
  ASSUME ServerInv, NEW c \in Clients, HandleCreateGroupRequest(c)
  PROVE  ServerInv'
<1> USE DEF ServerInv
<1>1. /\ Handling(c, "create")
      /\ UNCHANGED userManager
      /\ Packet(c).group \in GroupNames
  BY PacketTyped DEF HandleCreateGroupRequest
<1>2. CASE ~IsLoggedIn(userManager, conn[c].fd)
  BY <1>1, <1>2, StatusTyped, AnswerKeepsNet DEF HandleCreateGroupRequest
<1>3. CASE IsLoggedIn(userManager, conn[c].fd)
  <2> DEFINE name == Packet(c).group
             user == UsernameBySocket(userManager, conn[c].fd)
             New(fault) == GroupManagerCreateGroup(groupManager, name, fault)
             Added(fault) == IF New(fault).result = "success"
                               THEN GroupManagerAddUserToGroup(
                                      New(fault).manager, name, user, fault)
                               ELSE New(fault)
  <2>1. PICK fault \in Faults :
          /\ groupManager' = Added(fault).manager
          /\ Answer(c, GroupInfo("create", Added(fault).result,
                         GroupManagerFindGroup(Added(fault).manager, name)))
    BY <1>3 DEF HandleCreateGroupRequest
  <2>2. user \in Users
    BY <1>3, UsernameTyped
  <2>3. ManagerInv(New(fault).manager)
    BY <1>1, CreateGroupInv
  <2> HIDE DEF user, name, New
  <2>4. ManagerInv(Added(fault).manager)
    BY <2>2, <2>3, AddUserInv
  <2>5. Added(fault).result = "success" =>
          /\ GroupManagerFindGroup(Added(fault).manager, name).ip \in MulticastIps
          /\ GroupManagerFindGroup(Added(fault).manager, name).port \in Nat
    BY <2>2, <2>3, AddedUserFound
  <2> HIDE DEF Added
  <2>6. NetInv'
    BY <1>1, <2>1, <2>5, GroupInfoTyped, AnswerKeepsNet
  <2> QED
    BY <1>1, <2>1, <2>4, <2>6
<1> QED
  BY <1>2, <1>3

LEMMA JoinStep ==
  ASSUME ServerInv, NEW c \in Clients, HandleJoinGroupRequest(c)
  PROVE  ServerInv'
<1> USE DEF ServerInv
<1>1. Handling(c, "join") /\ UNCHANGED userManager
  BY DEF HandleJoinGroupRequest
<1>2. CASE ~IsLoggedIn(userManager, conn[c].fd)
  BY <1>1, <1>2, StatusTyped, AnswerKeepsNet DEF HandleJoinGroupRequest
<1>3. CASE IsLoggedIn(userManager, conn[c].fd)
  <2> DEFINE name == Packet(c).group
             user == UsernameBySocket(userManager, conn[c].fd)
             Added(fault) == GroupManagerAddUserToGroup(groupManager, name,
                                                        user, fault)
  <2>1. PICK fault \in Faults :
          /\ groupManager' = Added(fault).manager
          /\ Answer(c, GroupInfo("join", Added(fault).result,
                         GroupManagerFindGroup(Added(fault).manager, name)))
    BY <1>3 DEF HandleJoinGroupRequest
  <2>2. user \in Users
    BY <1>3, UsernameTyped
  <2> HIDE DEF user, name
  <2>3. ManagerInv(Added(fault).manager)
    BY <2>2, AddUserInv
  <2>4. Added(fault).result = "success" =>
          /\ GroupManagerFindGroup(Added(fault).manager, name).ip \in MulticastIps
          /\ GroupManagerFindGroup(Added(fault).manager, name).port \in Nat
    BY <2>2, AddedUserFound
  <2> HIDE DEF Added
  <2>5. NetInv'
    BY <1>1, <2>1, <2>4, GroupInfoTyped, AnswerKeepsNet
  <2> QED
    BY <1>1, <2>1, <2>3, <2>5
<1> QED
  BY <1>2, <1>3

LEMMA LeaveStep ==
  ASSUME ServerInv, NEW c \in Clients, HandleLeaveGroupRequest(c)
  PROVE  ServerInv'
<1> USE DEF ServerInv
<1>1. Handling(c, "leave") /\ UNCHANGED userManager
  BY DEF HandleLeaveGroupRequest
<1>2. CASE ~IsLoggedIn(userManager, conn[c].fd)
  BY <1>1, <1>2, StatusTyped, AnswerKeepsNet DEF HandleLeaveGroupRequest
<1>3. CASE IsLoggedIn(userManager, conn[c].fd)
  <2> DEFINE user == UsernameBySocket(userManager, conn[c].fd)
             call == GroupManagerRemoveUserFromGroup(groupManager,
                       Packet(c).group, user)
  <2>1. /\ groupManager' = call.manager
        /\ Answer(c, Status("leave", call.result))
    BY <1>3 DEF HandleLeaveGroupRequest
  <2>2. user \in Users
    BY <1>3, UsernameTyped
  <2> HIDE DEF user
  <2>3. ManagerInv(call.manager)
    BY <2>2, RemoveUserInv
  <2> HIDE DEF call
  <2>4. NetInv'
    BY <1>1, <2>1, StatusTyped, AnswerKeepsNet
  <2> QED
    BY <1>1, <2>1, <2>3, <2>4
<1> QED
  BY <1>2, <1>3

\* The peer is gone: its connection is closed, with or without a logout.
LEMMA PeerGoneStep ==
  ASSUME ServerInv, NEW c \in Clients, PeerClosed(c) \/ RecvFailed(c)
  PROVE  ServerInv'
<1> USE DEF ServerInv
<1>1. /\ c \in Accepted
      /\ conn[c].fd \in Sockets
      /\ conn' = [conn EXCEPT ![c] = Down]
      /\ CloseConnection(c)
      /\ UNCHANGED groupManager
  BY DEF PeerClosed, RecvFailed, Serving, Accepted, NetInv, OpenHaveDescriptors
<1>2. Down \in Connection /\ Down.phase \notin {"open", "queued"}
  BY DownConnection DEF Down
<1>3. NetInv'
  BY <1>1, <1>2, ConnectionClosed
<1>4. UsersInv(userManager')
  BY <1>1, LogoutGood DEF PeerClosed, RecvFailed, Good
<1> QED
  BY <1>1, <1>3, <1>4

-----------------------------------------------------------------------------
\* The environment.

LEMMA ClientStep ==
  ASSUME ServerInv, NEW c \in Clients,
         \/ ConnectToServer(c)
         \/ \E request \in Request : SendRequest(c, request)
         \/ ReceiveResponse(c)
         \/ ClientEnds(c)
  PROVE  ServerInv'
<1> USE DEF ServerInv
<1>1. UNCHANGED <<userManager, groupManager>>
  BY DEF ConnectToServer, SendRequest, ReceiveResponse, ClientEnds
<1>2. conn[c] \in Connection
  BY DEF NetInv
<1>3. CASE ConnectToServer(c)
  BY <1>1, <1>3, ConnectionQueued
<1>4. ASSUME NEW request \in Request, SendRequest(c, request)
      PROVE  NetInv'
  <2> DEFINE k == WithRequest(conn[c], request)
  <2>1. /\ k \in Connection
        /\ k.phase = conn[c].phase
        /\ k.fd = conn[c].fd
        /\ k.toServer # <<>>
    BY <1>2, WithRequestFields
  <2>2. /\ conn' = [conn EXCEPT ![c] = k]
        /\ UNCHANGED <<acceptQueue, masterSet, tempSet, maxFd>>
    BY <1>4 DEF SendRequest, loopVars
  <2> HIDE DEF k
  <2> QED
    BY <2>1, <2>2, SameDescriptors
<1>5. CASE ReceiveResponse(c)
  <2> DEFINE k == WithoutResponse(conn[c])
  <2>1. /\ k \in Connection
        /\ k.phase = conn[c].phase
        /\ k.fd = conn[c].fd
        /\ k.end = conn[c].end
        /\ k.toServer = conn[c].toServer
    BY <1>2, <1>5, WithoutResponseFields DEF ReceiveResponse
  <2>2. /\ conn' = [conn EXCEPT ![c] = k]
        /\ UNCHANGED <<acceptQueue, masterSet, tempSet, maxFd>>
    BY <1>5 DEF ReceiveResponse, loopVars
  <2> HIDE DEF k
  <2>3. NetInv'
    BY <2>1, <2>2, SameDescriptors
  <2> QED
    BY <1>1, <2>3
<1>6. CASE ClientEnds(c)
  <2> DEFINE k == Ended(conn[c])
  <2>1. /\ k \in Connection
        /\ conn[c].phase # "closed" =>
             k.phase = conn[c].phase /\ k.fd = conn[c].fd /\ k.end # "up"
        /\ conn[c].phase = "closed" => k.phase = "down"
    BY <1>2, EndedFields
  <2>2. /\ conn' = [conn EXCEPT ![c] = k]
        /\ UNCHANGED <<acceptQueue, masterSet, tempSet, maxFd>>
    BY <1>6 DEF ClientEnds, loopVars
  <2> HIDE DEF k
  <2>3. NetInv'
    BY <2>1, <2>2, SameDescriptors
  <2> QED
    BY <1>1, <2>3
<1> QED
  BY <1>1, <1>3, <1>4, <1>5, <1>6

-----------------------------------------------------------------------------
\* Stop-and-wait: one request or one answer in flight while a client waits.

InFlight(k) == Len(k.toServer) + Len(k.toClient)

\* Some port that was handed out has more than five digits.
PortsOutgrown == groupManager.nextMulticastPort > LargestPortText + 1

InFlightOK(k, outgrown) ==
  k.end = "up" =>
    \/ k.awaiting = TRUE /\ InFlight(k) = 1
    \/ k.awaiting = FALSE /\ InFlight(k) = 0
    \/ k.awaiting = TRUE /\ InFlight(k) = 0 /\ outgrown

AnsweredInv == \A c \in Clients : InFlightOK(conn[c], PortsOutgrown)

LEMMA ChannelLengths ==
  ASSUME NEW k \in Connection
  PROVE  /\ k.toServer \in Seq(Request) /\ k.toClient \in Seq(Response)
         /\ Len(k.toServer) \in Nat /\ Len(k.toClient) \in Nat
         /\ k.toServer = <<>> <=> Len(k.toServer) = 0
         /\ k.toClient = <<>> <=> Len(k.toClient) = 0
<1>1. k.toServer \in Seq(Request) /\ k.toClient \in Seq(Response)
  BY DEF Connection
<1> QED
  BY <1>1, EmptySeq

LEMMA RequestInFlight ==
  ASSUME NEW k \in Connection, NEW r \in Request, NEW outgrown,
         InFlightOK(k, outgrown), k.end = "up", k.awaiting = FALSE
  PROVE  InFlightOK(WithRequest(k, r), outgrown)
<1> DEFINE s == Append(k.toServer, r)
           w == WithRequest(k, r)
<1>1. w.toServer = s /\ w.toClient = k.toClient /\ w.awaiting = TRUE
  BY DEF WithRequest, Connection
<1>2. Len(s) = Len(k.toServer) + 1
  BY ChannelLengths
<1> HIDE DEF s, w
<1>3. InFlight(k) = 0
  BY DEF InFlightOK
<1>4. InFlight(w) = 1
  <2> DEFINE a == Len(k.toServer)
             b == Len(k.toClient)
  <2>1. a \in Nat /\ b \in Nat
    BY ChannelLengths
  <2>2. InFlight(k) = a + b /\ InFlight(w) = (a + 1) + b
    BY <1>1, <1>2 DEF InFlight
  <2> HIDE DEF a, b
  <2> QED
    BY <1>3, <2>1, <2>2
<1> QED
  BY <1>1, <1>4 DEF InFlightOK, w

LEMMA ResponseRead ==
  ASSUME NEW k \in Connection, NEW outgrown,
         InFlightOK(k, outgrown), k.end = "up", k.toClient # <<>>
  PROVE  InFlightOK(WithoutResponse(k), outgrown)
<1> DEFINE s == Tail(k.toClient)
           w == WithoutResponse(k)
<1>1. w.toClient = s /\ w.toServer = k.toServer /\ w.awaiting = FALSE
  BY DEF WithoutResponse, Connection
<1>2. Len(s) = Len(k.toClient) - 1 /\ Len(k.toClient) # 0
  BY ChannelLengths
<1> HIDE DEF s, w
<1>3. InFlight(k) \in {0, 1}
  BY DEF InFlightOK
<1>4. InFlight(w) = 0
  <2> DEFINE a == Len(k.toServer)
             b == Len(k.toClient)
  <2>1. a \in Nat /\ b \in Nat
    BY ChannelLengths
  <2>2. InFlight(k) = a + b /\ InFlight(w) = a + (b - 1) /\ b # 0
    BY <1>1, <1>2 DEF InFlight
  <2> HIDE DEF a, b
  <2> QED
    BY <1>3, <2>1, <2>2
<1> QED
  BY <1>1, <1>4 DEF InFlightOK, w

\* An answer takes the request's place; without one, the port is at fault.
LEMMA AnswerInFlight ==
  ASSUME NEW k \in Connection, NEW rs \in Seq(Response), NEW outgrown, NEW now,
         InFlightOK(k, outgrown), k.toServer # <<>>,
         Len(rs) = 1 \/ (rs = <<>> /\ now)
  PROVE  InFlightOK(Answered(k, rs), now)
<1> DEFINE s == Tail(k.toServer)
           t == k.toClient \o rs
           w == Answered(k, rs)
<1> SUFFICES ASSUME k.end = "up"
             PROVE  InFlightOK(w, now)
  <2>1. w.end = k.end
    BY AnsweredFields
  <2> QED
    BY <2>1 DEF InFlightOK
<1>1. w.toServer = s /\ w.toClient = t /\ w.awaiting = k.awaiting
  BY DEF Answered, Connection
<1>2. /\ Len(s) = Len(k.toServer) - 1 /\ Len(k.toServer) # 0
      /\ Len(t) = Len(k.toClient) + Len(rs)
      /\ Len(rs) \in Nat
  BY ChannelLengths
<1> HIDE DEF s, t, w
<1>3. InFlight(k) # 0
  <2> DEFINE a == Len(k.toServer)
             b == Len(k.toClient)
  <2>1. a \in Nat /\ b \in Nat
    BY ChannelLengths
  <2>2. InFlight(k) = a + b /\ a # 0
    BY <1>2 DEF InFlight
  <2> HIDE DEF a, b
  <2> QED
    BY <2>1, <2>2
<1>4. k.awaiting = TRUE /\ InFlight(k) = 1
  BY <1>3 DEF InFlightOK
<1>5. InFlight(w) = Len(rs)
  <2> DEFINE a == Len(k.toServer)
             b == Len(k.toClient)
  <2>1. a \in Nat /\ b \in Nat
    BY ChannelLengths
  <2> DEFINE n == Len(rs)
  <2>2. InFlight(k) = a + b /\ InFlight(w) = (a - 1) + (b + n) /\ n \in Nat
    BY <1>1, <1>2 DEF InFlight
  <2>3. InFlight(w) = n
    <3> HIDE DEF a, b, n
    <3> QED
      BY <1>4, <2>1, <2>2
  <2> QED
    BY <2>3
<1>6. Len(rs) = 1 \/ (Len(rs) = 0 /\ now)
  BY EmptySeq
<1> QED
  BY <1>1, <1>4, <1>5, <1>6 DEF InFlightOK

LEMMA NothingInFlight ==
  ASSUME NEW outgrown
  PROVE  InFlightOK(Down, outgrown)
BY DEF InFlightOK, InFlight, Down

LEMMA EndInFlight ==
  ASSUME NEW k \in Connection, NEW outgrown
  PROVE  InFlightOK(Ended(k), outgrown)
<1>1. CASE k.phase = "closed"
  BY <1>1, NothingInFlight DEF Ended
<1>2. CASE k.phase # "closed"
  BY <1>2, EndedFields DEF InFlightOK
<1> QED
  BY <1>1, <1>2

LEMMA CloseInFlight ==
  ASSUME NEW k \in Connection, NEW outgrown, InFlightOK(k, outgrown)
  PROVE  InFlightOK(Closed(k), outgrown)
<1>1. CASE k.end # "up"
  BY <1>1, NothingInFlight DEF Closed
<1>2. CASE k.end = "up"
  <2> DEFINE w == Closed(k)
  <2>1. /\ w.toServer = k.toServer /\ w.toClient = k.toClient
        /\ w.awaiting = k.awaiting /\ w.end = k.end
    BY <1>2 DEF Closed, Connection
  <2> HIDE DEF w
  <2> QED
    BY <2>1 DEF InFlightOK, InFlight, w
<1> QED
  BY <1>1, <1>2

\* A step that changes one connection.
LEMMA OneConnectionChanged ==
  ASSUME NetInv, AnsweredInv, NEW c \in Clients, NEW k,
         conn' = [conn EXCEPT ![c] = k],
         PortsOutgrown => PortsOutgrown',
         InFlightOK(k, PortsOutgrown')
  PROVE  AnsweredInv'
<1>1. /\ conn'[c] = k
      /\ \A d \in Clients : d # c => conn'[d] = conn[d]
  BY DEF NetInv
<1>2. ASSUME NEW d \in Clients
      PROVE  InFlightOK(conn'[d], PortsOutgrown')
  <2>1. CASE d = c
    BY <1>1, <2>1
  <2>2. CASE d # c
    <3>1. InFlightOK(conn[d], PortsOutgrown) /\ conn'[d] = conn[d]
      BY <1>1, <2>2 DEF AnsweredInv
    <3> QED
      BY <3>1 DEF InFlightOK
  <2> QED
    BY <2>1, <2>2
<1> QED
  BY <1>2 DEF AnsweredInv

LEMMA RequestAnswered ==
  ASSUME NetInv, AnsweredInv, NEW c \in Clients, NEW tag, Handling(c, tag),
         NEW rs \in Seq(Response), Answer(c, rs),
         PortsOutgrown => PortsOutgrown',
         Len(rs) = 1 \/ (rs = <<>> /\ PortsOutgrown')
  PROVE  AnsweredInv'
<1> DEFINE k == Answered(conn[c], rs)
<1>1. conn[c] \in Connection /\ conn[c].toServer # <<>>
  BY PacketTyped
<1>2. InFlightOK(conn[c], PortsOutgrown)
  BY DEF AnsweredInv
<1>3. InFlightOK(k, PortsOutgrown')
  BY <1>1, <1>2, AnswerInFlight
<1>4. conn' = [conn EXCEPT ![c] = k]
  BY DEF Answer
<1> HIDE DEF k
<1> QED
  BY <1>3, <1>4, OneConnectionChanged

LEMMA StatusAnswers ==
  ASSUME NEW tag, NEW result
  PROVE  Len(Status(tag, result)) = 1
BY DEF Status

LEMMA GroupInfoAnswers ==
  ASSUME NEW tag, NEW result, NEW info, NEW next \in Nat,
         result = "success" => info.port \in Nat /\ info.port < next
  PROVE  LET rs == GroupInfo(tag, result, info)
         IN  Len(rs) = 1 \/ (rs = <<>> /\ next > LargestPortText + 1)
<1>1. CASE result # "success"
  BY <1>1, StatusAnswers DEF GroupInfo
<1>2. CASE result = "success" /\ info.port > LargestPortText
  BY <1>2, ChatServerAssumption DEF GroupInfo
<1>3. CASE result = "success" /\ ~(info.port > LargestPortText)
  <2> DEFINE r == [tag |-> tag, ok |-> TRUE, ip |-> info.ip, port |-> info.port]
  <2>1. GroupInfo(tag, result, info) = <<r>>
    BY <1>3 DEF GroupInfo
  <2> HIDE DEF r
  <2>2. Len(<<r>>) = 1
    OBVIOUS
  <2> QED
    BY <2>1, <2>2
<1> QED
  BY <1>1, <1>2, <1>3

\* The counter of ports never goes back.
LEMMA OutgrownStays ==
  ASSUME NEW m2, ManagerInv(groupManager), ManagerInv(m2),
         Stable(groupManager, m2), groupManager' = m2
  PROVE  PortsOutgrown => PortsOutgrown'
BY ChatServerAssumption DEF ManagerInv, ManagerTypeOK, Stable, PortsOutgrown

\* A creation followed by its creator's joining, which is two calls.
LEMMA CreateKeepsOutgrown ==
  ASSUME NEW m, ManagerInv(m), NEW name \in GroupNames, NEW user \in Users, NEW fault,
         NEW m1, m1 = GroupManagerCreateGroup(m, name, fault).manager
  PROVE  LET m2 == GroupManagerAddUserToGroup(m1, name, user, fault).manager
         IN  /\ m1.nextMulticastPort >= m.nextMulticastPort
             /\ m2.nextMulticastPort >= m.nextMulticastPort
<1> DEFINE m2 == GroupManagerAddUserToGroup(m1, name, user, fault).manager
<1>1. ManagerInv(m1) /\ Stable(m, m1)
  BY CreateGroupInv, CreateGroupStable
<1>2. ManagerInv(m2) /\ Stable(m1, m2)
  BY <1>1, AddUserInv, AddUserStable
<1> HIDE DEF m2
<1>3. /\ m.nextMulticastPort \in Nat /\ m1.nextMulticastPort \in Nat
      /\ m2.nextMulticastPort \in Nat
      /\ m1.nextMulticastPort >= m.nextMulticastPort
      /\ m2.nextMulticastPort >= m1.nextMulticastPort
  BY <1>1, <1>2, CounterOrdered DEF Stable
<1> QED
  BY <1>3 DEF m2

-----------------------------------------------------------------------------
\* AnsweredInv is kept by every step.

LEMMA HandlerAnswers ==
  ASSUME ServerInv, AnsweredInv, NEW c \in Clients,
         \/ HandleRegisterRequest(c)
         \/ HandleLoginRequest(c)
         \/ HandleLogoutRequest(c)
         \/ HandleLeaveGroupRequest(c)
  PROVE  AnsweredInv'
<1> USE DEF ServerInv
<1>1. CASE HandleRegisterRequest(c) \/ HandleLoginRequest(c)
  <2>1. UNCHANGED groupManager
    BY <1>1 DEF HandleRegisterRequest, HandleLoginRequest
  <2>2. \E tag \in {"register", "login"} : \E result :
          Handling(c, tag) /\ Answer(c, Status(tag, result))
    BY <1>1 DEF HandleRegisterRequest, HandleLoginRequest
  <2>3. PICK tag \in {"register", "login"} :
          \E result : Handling(c, tag) /\ Answer(c, Status(tag, result))
    BY <2>2
  <2>4. PICK result : Handling(c, tag) /\ Answer(c, Status(tag, result))
    BY <2>3
  <2> QED
    BY <2>1, <2>4, StatusTyped, StatusAnswers, RequestAnswered DEF PortsOutgrown
<1>2. CASE HandleLogoutRequest(c)
  <2>1. Handling(c, "logout") /\ conn[c].fd \in Sockets
    BY <1>2, PacketTyped DEF HandleLogoutRequest
  <2>2. PICK result : Answer(c, Status("logout", result))
    BY <1>2 DEF HandleLogoutRequest
  <2>3. PortsOutgrown => PortsOutgrown'
    <3>1. CASE ~IsLoggedIn(userManager, conn[c].fd)
      BY <1>2, <3>1 DEF HandleLogoutRequest, PortsOutgrown
    <3>2. CASE IsLoggedIn(userManager, conn[c].fd)
      <4> DEFINE user == UsernameBySocket(userManager, conn[c].fd)
      <4>1. user \in Users
        BY <3>2, UsernameTyped
      <4>2. PICK order \in VisitOrders(EmptyGroups(LeaveAll(groupManager, user))) :
              groupManager' = GroupManagerRemoveUserFromAllGroups(
                                groupManager, user, order).manager
        BY <1>2, <3>2 DEF HandleLogoutRequest
      <4> HIDE DEF user
      <4> QED
        BY <4>1, <4>2, RemoveUserFromAllInv, RemoveUserFromAllStable, OutgrownStays
    <3> QED
      BY <3>1, <3>2
  <2> QED
    BY <2>1, <2>2, <2>3, StatusTyped, StatusAnswers, RequestAnswered
<1>3. CASE HandleLeaveGroupRequest(c)
  <2>1. Handling(c, "leave")
    BY <1>3 DEF HandleLeaveGroupRequest
  <2>2. PICK result : Answer(c, Status("leave", result))
    BY <1>3 DEF HandleLeaveGroupRequest
  <2>3. PortsOutgrown => PortsOutgrown'
    <3>1. CASE ~IsLoggedIn(userManager, conn[c].fd)
      BY <1>3, <3>1 DEF HandleLeaveGroupRequest, PortsOutgrown
    <3>2. CASE IsLoggedIn(userManager, conn[c].fd)
      <4> DEFINE user == UsernameBySocket(userManager, conn[c].fd)
      <4>1. user \in Users
        BY <3>2, UsernameTyped
      <4>2. groupManager' = GroupManagerRemoveUserFromGroup(
                              groupManager, Packet(c).group, user).manager
        BY <1>3, <3>2 DEF HandleLeaveGroupRequest
      <4> HIDE DEF user
      <4> QED
        BY <4>1, <4>2, RemoveUserInv, RemoveUserStable, OutgrownStays
    <3> QED
      BY <3>1, <3>2
  <2> QED
    BY <2>1, <2>2, <2>3, StatusTyped, StatusAnswers, RequestAnswered
<1> QED
  BY <1>1, <1>2, <1>3

LEMMA CreateAnswers ==
  ASSUME ServerInv, AnsweredInv, NEW c \in Clients, HandleCreateGroupRequest(c)
  PROVE  AnsweredInv'
<1> USE DEF ServerInv
<1>1. Handling(c, "create") /\ Packet(c).group \in GroupNames
  BY PacketTyped DEF HandleCreateGroupRequest
<1>2. CASE ~IsLoggedIn(userManager, conn[c].fd)
  <2>1. Answer(c, Status("create", "not_found")) /\ UNCHANGED groupManager
    BY <1>2 DEF HandleCreateGroupRequest
  <2> QED
    BY <1>1, <2>1, StatusTyped, StatusAnswers, RequestAnswered DEF PortsOutgrown
<1>3. CASE IsLoggedIn(userManager, conn[c].fd)
  <2> DEFINE name == Packet(c).group
             user == UsernameBySocket(userManager, conn[c].fd)
             New(fault) == GroupManagerCreateGroup(groupManager, name, fault)
             Added(fault) == IF New(fault).result = "success"
                               THEN GroupManagerAddUserToGroup(
                                      New(fault).manager, name, user, fault)
                               ELSE New(fault)
             Info(fault) == GroupManagerFindGroup(Added(fault).manager, name)
  <2>1. PICK fault \in Faults :
          /\ groupManager' = Added(fault).manager
          /\ Answer(c, GroupInfo("create", Added(fault).result, Info(fault)))
    BY <1>3 DEF HandleCreateGroupRequest
  <2>2. user \in Users
    BY <1>3, UsernameTyped
  <2>3. ManagerInv(New(fault).manager)
    BY <1>1, CreateGroupInv
  <2>4. /\ New(fault).manager.nextMulticastPort >= groupManager.nextMulticastPort
        /\ GroupManagerAddUserToGroup(New(fault).manager, name, user, fault)
             .manager.nextMulticastPort >= groupManager.nextMulticastPort
    BY <1>1, <2>2, CreateKeepsOutgrown
  <2> HIDE DEF user, name, New
  <2>5. /\ ManagerInv(Added(fault).manager)
        /\ Added(fault).manager.nextMulticastPort >= groupManager.nextMulticastPort
    BY <2>2, <2>3, <2>4, AddUserInv
  <2>6. Added(fault).result = "success" =>
          /\ Info(fault).ip \in MulticastIps
          /\ Info(fault).port \in Nat
          /\ Info(fault).port < Added(fault).manager.nextMulticastPort
    BY <2>2, <2>3, AddedUserFound
  <2> HIDE DEF Added, Info
  <2>7. PortsOutgrown => PortsOutgrown'
    BY <2>1, <2>5, CounterOrdered, ChatServerAssumption DEF PortsOutgrown
  <2> DEFINE rs == GroupInfo("create", Added(fault).result, Info(fault))
  <2>8. rs \in Seq(Response)
    BY <2>6, GroupInfoTyped
  <2>9. Len(rs) = 1 \/ (rs = <<>> /\ PortsOutgrown')
    <3> DEFINE next == Added(fault).manager.nextMulticastPort
               result == Added(fault).result
               found == Info(fault)
    <3>1. next \in Nat
      BY <2>5, CounterOrdered
    <3>2. result = "success" => found.port \in Nat /\ found.port < next
      BY <2>6
    <3>3. rs = GroupInfo("create", result, found)
      OBVIOUS
    <3>4. PortsOutgrown' <=> next > LargestPortText + 1
      BY <2>1 DEF PortsOutgrown
    <3> HIDE DEF rs, next, result, found
    <3>5. \/ Len(GroupInfo("create", result, found)) = 1
          \/ /\ GroupInfo("create", result, found) = <<>>
             /\ next > LargestPortText + 1
      BY <3>1, <3>2, GroupInfoAnswers
    <3> QED
      BY <3>3, <3>4, <3>5
  <2>10. Answer(c, rs)
    BY <2>1
  <2> HIDE DEF rs
  <2> QED
    BY <1>1, <2>7, <2>8, <2>9, <2>10, RequestAnswered
<1> QED
  BY <1>2, <1>3

LEMMA JoinAnswers ==
  ASSUME ServerInv, AnsweredInv, NEW c \in Clients, HandleJoinGroupRequest(c)
  PROVE  AnsweredInv'
<1> USE DEF ServerInv
<1>1. Handling(c, "join")
  BY DEF HandleJoinGroupRequest
<1>2. CASE ~IsLoggedIn(userManager, conn[c].fd)
  <2>1. Answer(c, Status("join", "not_found")) /\ UNCHANGED groupManager
    BY <1>2 DEF HandleJoinGroupRequest
  <2> QED
    BY <1>1, <2>1, StatusTyped, StatusAnswers, RequestAnswered DEF PortsOutgrown
<1>3. CASE IsLoggedIn(userManager, conn[c].fd)
  <2> DEFINE name == Packet(c).group
             user == UsernameBySocket(userManager, conn[c].fd)
             Added(fault) == GroupManagerAddUserToGroup(groupManager, name,
                                                        user, fault)
             Info(fault) == GroupManagerFindGroup(Added(fault).manager, name)
  <2>1. PICK fault \in Faults :
          /\ groupManager' = Added(fault).manager
          /\ Answer(c, GroupInfo("join", Added(fault).result, Info(fault)))
    BY <1>3 DEF HandleJoinGroupRequest
  <2>2. user \in Users
    BY <1>3, UsernameTyped
  <2> HIDE DEF user, name
  <2>3. ManagerInv(Added(fault).manager) /\ Stable(groupManager, Added(fault).manager)
    BY <2>2, AddUserInv, AddUserStable
  <2>4. Added(fault).result = "success" =>
          /\ Info(fault).ip \in MulticastIps
          /\ Info(fault).port \in Nat
          /\ Info(fault).port < Added(fault).manager.nextMulticastPort
    BY <2>2, AddedUserFound
  <2> HIDE DEF Added, Info
  <2>5. PortsOutgrown => PortsOutgrown'
    BY <2>1, <2>3, OutgrownStays
  <2> DEFINE rs == GroupInfo("join", Added(fault).result, Info(fault))
  <2>6. rs \in Seq(Response)
    BY <2>4, GroupInfoTyped
  <2>7. Len(rs) = 1 \/ (rs = <<>> /\ PortsOutgrown')
    <3> DEFINE next == Added(fault).manager.nextMulticastPort
               result == Added(fault).result
               found == Info(fault)
    <3>1. next \in Nat
      BY <2>3, CounterOrdered
    <3>2. result = "success" => found.port \in Nat /\ found.port < next
      BY <2>4
    <3>3. rs = GroupInfo("join", result, found)
      OBVIOUS
    <3>4. PortsOutgrown' <=> next > LargestPortText + 1
      BY <2>1 DEF PortsOutgrown
    <3> HIDE DEF rs, next, result, found
    <3>5. \/ Len(GroupInfo("join", result, found)) = 1
          \/ /\ GroupInfo("join", result, found) = <<>>
             /\ next > LargestPortText + 1
      BY <3>1, <3>2, GroupInfoAnswers
    <3> QED
      BY <3>3, <3>4, <3>5
  <2>8. Answer(c, rs)
    BY <2>1
  <2> HIDE DEF rs
  <2> QED
    BY <1>1, <2>5, <2>6, <2>7, <2>8, RequestAnswered
<1> QED
  BY <1>2, <1>3

LEMMA ExitAnswers ==
  ASSUME ServerInv, AnsweredInv, NEW c \in Clients, HandleExitRequest(c)
  PROVE  AnsweredInv'
<1> USE DEF ServerInv
<1> DEFINE rs == Status("exit", "success")
           k == Answered(conn[c], rs)
<1>1. /\ Handling(c, "exit")
      /\ UNCHANGED groupManager
      /\ conn' = [conn EXCEPT ![c] = Closed(k)]
  BY DEF HandleExitRequest
<1>2. /\ conn[c] \in Connection /\ conn[c].toServer # <<>>
      /\ InFlightOK(conn[c], PortsOutgrown)
  BY <1>1, PacketTyped DEF AnsweredInv
<1>3. rs \in Seq(Response) /\ Len(rs) = 1
  BY StatusTyped, StatusAnswers
<1> HIDE DEF rs
<1>4. InFlightOK(k, PortsOutgrown')
  BY <1>2, <1>3, AnswerInFlight
<1>5. k \in Connection
  BY <1>2, <1>3, AnsweredFields
<1> HIDE DEF k
<1>6. InFlightOK(Closed(k), PortsOutgrown')
  BY <1>4, <1>5, CloseInFlight
<1> QED
  BY <1>1, <1>6, OneConnectionChanged DEF PortsOutgrown

LEMMA OthersInFlight ==
  ASSUME ServerInv, AnsweredInv, UNCHANGED groupManager, NEW c \in Clients,
         \/ PeerClosed(c) \/ RecvFailed(c)
         \/ ConnectToServer(c) \/ ReceiveResponse(c) \/ ClientEnds(c)
         \/ \E request \in Request : SendRequest(c, request)
  PROVE  AnsweredInv'
<1> USE DEF ServerInv
<1>1. conn[c] \in Connection /\ InFlightOK(conn[c], PortsOutgrown)
  BY DEF NetInv, AnsweredInv
<1>2. PortsOutgrown' = PortsOutgrown
  BY DEF PortsOutgrown
<1>3. CASE PeerClosed(c) \/ RecvFailed(c)
  <2>1. conn' = [conn EXCEPT ![c] = Down]
    BY <1>3 DEF PeerClosed, RecvFailed
  <2> QED
    BY <1>2, <2>1, NothingInFlight, OneConnectionChanged
<1>4. CASE ConnectToServer(c)
  <2> DEFINE k == [conn[c] EXCEPT !.phase = "queued"]
  <2>1. /\ k.end = conn[c].end /\ k.awaiting = conn[c].awaiting
        /\ k.toServer = conn[c].toServer /\ k.toClient = conn[c].toClient
    BY <1>1 DEF Connection
  <2>2. conn' = [conn EXCEPT ![c] = k]
    BY <1>4 DEF ConnectToServer
  <2> HIDE DEF k
  <2>3. InFlightOK(k, PortsOutgrown')
    BY <1>1, <1>2, <2>1 DEF InFlightOK, InFlight
  <2> QED
    BY <1>2, <2>2, <2>3, OneConnectionChanged
<1>5. CASE ReceiveResponse(c)
  <2>1. InFlightOK(WithoutResponse(conn[c]), PortsOutgrown')
    BY <1>1, <1>2, <1>5, ResponseRead DEF ReceiveResponse, Alive
  <2>2. conn' = [conn EXCEPT ![c] = WithoutResponse(conn[c])]
    BY <1>5 DEF ReceiveResponse
  <2> QED
    BY <1>2, <2>1, <2>2, OneConnectionChanged
<1>6. CASE ClientEnds(c)
  <2>1. InFlightOK(Ended(conn[c]), PortsOutgrown')
    BY <1>1, EndInFlight
  <2>2. conn' = [conn EXCEPT ![c] = Ended(conn[c])]
    BY <1>6 DEF ClientEnds
  <2> QED
    BY <1>2, <2>1, <2>2, OneConnectionChanged
<1>7. ASSUME NEW request \in Request, SendRequest(c, request)
      PROVE  AnsweredInv'
  <2>1. conn[c].end = "up" /\ conn[c].awaiting = FALSE
    BY <1>1, <1>7 DEF SendRequest, Alive, Connection
  <2>2. InFlightOK(WithRequest(conn[c], request), PortsOutgrown')
    BY <1>1, <1>2, <2>1, RequestInFlight
  <2>3. conn' = [conn EXCEPT ![c] = WithRequest(conn[c], request)]
    BY <1>7 DEF SendRequest
  <2> QED
    BY <1>2, <2>2, <2>3, OneConnectionChanged
<1> QED
  BY <1>3, <1>4, <1>5, <1>6, <1>7

LEMMA AcceptInFlight ==
  ASSUME ServerInv, AnsweredInv, AcceptNewClient
  PROVE  AnsweredInv'
<1> USE DEF ServerInv
<1> DEFINE c == Head(acceptQueue)
<1>1. c \in Clients
  BY DEF AcceptNewClient, NetInv
<1>2. PICK fd \in Sockets : conn' = [conn EXCEPT ![c] = Opened(conn[c], fd)]
  BY DEF AcceptNewClient
<1>3. UNCHANGED groupManager
  BY DEF AcceptNewClient
<1> HIDE DEF c
<1>4. conn[c] \in Connection /\ InFlightOK(conn[c], PortsOutgrown)
  BY <1>1 DEF NetInv, AnsweredInv
<1> DEFINE k == Opened(conn[c], fd)
<1>5. /\ k.end = conn[c].end /\ k.awaiting = conn[c].awaiting
      /\ k.toServer = conn[c].toServer /\ k.toClient = conn[c].toClient
  BY <1>4 DEF Opened, Connection
<1> HIDE DEF k
<1>6. InFlightOK(k, PortsOutgrown')
  BY <1>3, <1>4, <1>5 DEF InFlightOK, InFlight, PortsOutgrown
<1>7. conn' = [conn EXCEPT ![c] = k]
  BY <1>2 DEF k
<1> QED
  BY <1>1, <1>3, <1>6, <1>7, OneConnectionChanged DEF PortsOutgrown

LEMMA AnsweredStep ==
  ASSUME ServerInv, AnsweredInv, [Next]_vars
  PROVE  AnsweredInv'
<1>1. CASE UNCHANGED <<groupManager, conn>>
  BY <1>1 DEF AnsweredInv, PortsOutgrown
<1>2. CASE AcceptNewClient
  BY <1>2, AcceptInFlight
<1>3. ASSUME NEW c \in Clients, ProcessClient(c)
      PROVE  AnsweredInv'
  <2>1. CASE PeerClosed(c) \/ RecvFailed(c)
    <3>1. UNCHANGED groupManager
      BY <2>1 DEF PeerClosed, RecvFailed
    <3> QED
      BY <2>1, <3>1, OthersInFlight
  <2> QED
    BY <1>3, <2>1, HandlerAnswers, CreateAnswers, JoinAnswers, ExitAnswers
    DEF ProcessClient
<1>4. CASE Environment
  <2>1. UNCHANGED groupManager
    BY <1>4 DEF Environment, ConnectToServer, SendRequest, ReceiveResponse,
                ClientEnds
  <2> QED
    BY <1>4, <2>1, OthersInFlight DEF Environment
<1>5. Select \/ AcceptFails \/ UNCHANGED vars => UNCHANGED <<groupManager, conn>>
  BY DEF Select, AcceptFails, vars, netVars
<1> QED
  BY <1>1, <1>2, <1>3, <1>4, <1>5 DEF Next, Server

-----------------------------------------------------------------------------
\* What a create or a join does, with the calls it consists of.

\* user is a member of the live group, which has this address and port.
Holds(m, user, name, address) ==
  /\ name \in DOMAIN m.groups
  /\ <<m.groups[name].multicastIp, m.groups[name].multicastPort>> = address
  /\ user \in m.groups[name].members

LEMMA HoldsOn ==
  ASSUME NEW m, NEW m2, NEW user, NEW name, NEW address,
         Holds(m, user, name, address), Stable(m, m2), MemberKept(m, m2, name, user)
  PROVE  Holds(m2, user, name, address)
BY DEF Holds, Stable, MemberKept

\* Groups that appear: only this one, with the next port.
OnlyNew(m, m2, name) ==
  \A n \in DOMAIN m2.groups \ DOMAIN m.groups :
    /\ n = name
    /\ m2.groups[n].multicastPort = m.nextMulticastPort
    /\ m2.nextMulticastPort = m.nextMulticastPort + 1

Refusal(tag) == <<[tag |-> tag, ok |-> FALSE]>>
Grant(tag, ip, port) == <<[tag |-> tag, ok |-> TRUE, ip |-> ip, port |-> port]>>

\* The answer grants the group, whose user was no member before and is one
\* now; or it refuses it; or there is none.
GrantAnswer(rs, tag, m, m2, name, user) ==
  /\ rs \in Seq(Response)
  /\ \/ rs = <<>>
     \/ rs = Refusal(tag)
     \/ \E ip \in MulticastIps, port \in Nat :
          /\ rs = Grant(tag, ip, port)
          /\ ~(name \in DOMAIN m.groups /\ user \in m.groups[name].members)
          /\ Holds(m2, user, name, <<ip, port>>)

\* Handling a request for a group.
GrantHandled(c, tag, m, m2) ==
  /\ Stable(m, m2)
  /\ \A n, u : MemberKept(m, m2, n, u)
  /\ OnlyNew(m, m2, Packet(c).group)
  /\ \A n : NewlyAlone(m, m2, n) =>
       tag = "create" /\ n = Packet(c).group /\ Answer(c, Refusal(tag))
  /\ \E rs : /\ Answer(c, rs)
             /\ GrantAnswer(rs, tag, m, m2, Packet(c).group,
                            UsernameBySocket(userManager, conn[c].fd))
             /\ IsLoggedIn(userManager, conn[c].fd) \/ rs = Refusal(tag)

LEMMA RefusalText ==
  ASSUME NEW tag, NEW result, result # "success"
  PROVE  Status(tag, result) = Refusal(tag)
<1>1. (result = "success") = FALSE
  OBVIOUS
<1> QED
  BY <1>1 DEF Status, Refusal

\* What GroupInfo says after a member was added to the group.
LEMMA GrantText ==
  ASSUME NEW tag \in {"create", "join"}, NEW m, ManagerInv(m), NEW name,
         NEW user \in Users, NEW fault
  PROVE  LET call == GroupManagerAddUserToGroup(m, name, user, fault)
         IN  GrantAnswer(GroupInfo(tag, call.result,
                                   GroupManagerFindGroup(call.manager, name)),
                         tag, m, call.manager, name, user)
<1> DEFINE call == GroupManagerAddUserToGroup(m, name, user, fault)
           found == GroupManagerFindGroup(call.manager, name)
           rs == GroupInfo(tag, call.result, found)
<1>1. call.result = "success" =>
        found.ip \in MulticastIps /\ found.port \in Nat
  BY AddedUserFound
<1>2. rs \in Seq(Response)
  BY <1>1, GroupInfoTyped
<1>3. CASE call.result # "success"
  <2>1. rs = Status(tag, call.result)
    BY <1>3 DEF GroupInfo
  <2>2. rs = Refusal(tag)
    BY <1>3, <2>1, RefusalText
  <2> HIDE DEF call, found, rs
  <2> QED
    BY <1>2, <2>2 DEF call, found, rs, GrantAnswer
<1>4. CASE call.result = "success"
  <2>1. /\ name \in DOMAIN m.groups
        /\ user \notin m.groups[name].members
        /\ name \in DOMAIN call.manager.groups
        /\ user \in call.manager.groups[name].members
    BY <1>4, AddUserEffect
  <2>2. /\ found.ip = call.manager.groups[name].multicastIp
        /\ found.port = call.manager.groups[name].multicastPort
    BY <2>1 DEF GroupManagerFindGroup
  <2>3. rs = <<>> \/ rs = Grant(tag, found.ip, found.port)
    BY <1>4 DEF GroupInfo, Grant
  <2> DEFINE m2 == call.manager
             ip == found.ip
             port == found.port
  <2>4. Holds(m2, user, name, <<ip, port>>)
    BY <2>1, <2>2 DEF Holds
  <2>5. ip \in MulticastIps /\ port \in Nat
    BY <1>1, <1>4
  <2>6. rs = <<>> \/ rs = Grant(tag, ip, port)
    BY <2>3
  <2> HIDE DEF ip, port, m2, rs
  <2>7. GrantAnswer(rs, tag, m, m2, name, user)
    BY <1>2, <2>1, <2>4, <2>5, <2>6 DEF GrantAnswer
  <2> QED
    BY <2>7 DEF rs, m2
<1> QED
  BY <1>3, <1>4

\* Without a login the request is refused and nothing changes.
LEMMA GrantRefused ==
  ASSUME NEW c \in Clients, NEW tag \in {"create", "join"}, NEW m, ManagerInv(m),
         Answer(c, Status(tag, "not_found"))
  PROVE  GrantHandled(c, tag, m, m)
<1>1. /\ Status(tag, "not_found") \in Seq(Response)
      /\ Status(tag, "not_found") = Refusal(tag)
  BY StatusTyped, RefusalText
<1>2. Stable(m, m) /\ OnlyNew(m, m, Packet(c).group)
  BY CounterOrdered DEF Stable, OnlyNew
<1>3. (\A n, u : MemberKept(m, m, n, u)) /\ (\A n : ~NewlyAlone(m, m, n))
  BY DEF MemberKept, NewlyAlone
<1> QED
  BY <1>1, <1>2, <1>3 DEF GrantHandled, GrantAnswer

LEMMA JoinHandled ==
  ASSUME ServerInv, NEW c \in Clients, HandleJoinGroupRequest(c)
  PROVE  GrantHandled(c, "join", groupManager, groupManager')
<1> USE DEF ServerInv
<1>1. CASE ~IsLoggedIn(userManager, conn[c].fd)
  BY <1>1, GrantRefused DEF HandleJoinGroupRequest
<1>2. CASE IsLoggedIn(userManager, conn[c].fd)
  <2> DEFINE name == Packet(c).group
             user == UsernameBySocket(userManager, conn[c].fd)
             m == groupManager
             Added(fault) == GroupManagerAddUserToGroup(m, name, user, fault)
             Found(fault) == GroupManagerFindGroup(Added(fault).manager, name)
  <2>1. PICK fault \in Faults :
          /\ groupManager' = Added(fault).manager
          /\ Answer(c, GroupInfo("join", Added(fault).result, Found(fault)))
    BY <1>2 DEF HandleJoinGroupRequest
  <2>2. user \in Users
    BY <1>2, UsernameTyped
  <2> DEFINE m2 == Added(fault).manager
             rs == GroupInfo("join", Added(fault).result, Found(fault))
  <2>3. Stable(m, m2)
    BY AddUserStable
  <2>4. /\ \A n, u : MemberKept(m, m2, n, u)
        /\ DOMAIN m2.groups = DOMAIN m.groups
        /\ \A n : ~NewlyAlone(m, m2, n)
    BY AddUserEffect DEF NewlyAlone
  <2>5. OnlyNew(m, m2, name)
    BY <2>4 DEF OnlyNew
  <2>6. GrantAnswer(rs, "join", m, m2, name, user)
    BY <2>2, GrantText
  <2>7. Answer(c, rs) /\ groupManager' = m2
    BY <2>1
  <2> HIDE DEF m, m2, rs
  <2>8. GrantHandled(c, "join", m, m2)
    BY <1>2, <2>3, <2>4, <2>5, <2>6, <2>7 DEF GrantHandled
  <2> QED
    BY <2>7, <2>8 DEF m
<1> QED
  BY <1>1, <1>2

\* The new group is empty only between the two calls.
LEMMA CreateHandled ==
  ASSUME ServerInv, NEW c \in Clients, HandleCreateGroupRequest(c)
  PROVE  GrantHandled(c, "create", groupManager, groupManager')
<1> USE DEF ServerInv
<1>0. Packet(c).group \in GroupNames
  BY PacketTyped DEF HandleCreateGroupRequest
<1>1. CASE ~IsLoggedIn(userManager, conn[c].fd)
  BY <1>1, GrantRefused DEF HandleCreateGroupRequest
<1>2. CASE IsLoggedIn(userManager, conn[c].fd)
  <2> DEFINE name == Packet(c).group
             user == UsernameBySocket(userManager, conn[c].fd)
             m == groupManager
             New(fault) == GroupManagerCreateGroup(m, name, fault)
             Joined(fault) == GroupManagerAddUserToGroup(New(fault).manager,
                                                         name, user, fault)
             Added(fault) == IF New(fault).result = "success"
                               THEN Joined(fault) ELSE New(fault)
             Found(fault) == GroupManagerFindGroup(Added(fault).manager, name)
  <2>1. PICK fault \in Faults :
          /\ groupManager' = Added(fault).manager
          /\ Answer(c, GroupInfo("create", Added(fault).result, Found(fault)))
    BY <1>2 DEF HandleCreateGroupRequest
  <2>2. user \in Users
    BY <1>2, UsernameTyped
  <2> DEFINE m1 == New(fault).manager
             m2 == Added(fault).manager
             rs == GroupInfo("create", Added(fault).result, Found(fault))
  <2>3. ManagerInv(m1) /\ Stable(m, m1)
    BY <1>0, CreateGroupInv, CreateGroupStable
  <2>4. /\ New(fault).result # "success" => m1.groups = m.groups
        /\ New(fault).result = "success" =>
             /\ name \notin DOMAIN m.groups
             /\ DOMAIN m1.groups = DOMAIN m.groups \cup {name}
             /\ \A n \in DOMAIN m.groups : m1.groups[n] = m.groups[n]
             /\ m1.groups[name].members = {}
             /\ m1.groups[name].multicastPort = m.nextMulticastPort
             /\ m1.nextMulticastPort = m.nextMulticastPort + 1
    BY CreateGroupEffect
  <2>5. \A n, u : MemberKept(m, m1, n, u)
    BY <2>4 DEF MemberKept
  <2>6. CASE New(fault).result # "success"
    <3>1. m2 = m1 /\ m1.groups = m.groups
      BY <2>4, <2>6
    <3>2. GrantAnswer(rs, "create", m, m1, name, user)
      <4>1. rs = Status("create", New(fault).result)
        BY <2>6 DEF GroupInfo
      <4>2. rs = Refusal("create") /\ rs \in Seq(Response)
        BY <2>6, <4>1, RefusalText, StatusTyped
      <4> QED
        BY <4>2 DEF GrantAnswer
    <3>3. OnlyNew(m, m1, name) /\ (\A n : ~NewlyAlone(m, m1, n))
      BY <3>1 DEF OnlyNew, NewlyAlone
    <3>4. groupManager' = m2 /\ Answer(c, rs)
      BY <2>1
    <3> HIDE DEF m, m1, m2, rs
    <3>5. GrantHandled(c, "create", m, m1)
      BY <1>2, <2>3, <2>5, <3>2, <3>3, <3>4 DEF GrantHandled
    <3> QED
      BY <3>1, <3>4, <3>5 DEF m
  <2>7. CASE New(fault).result = "success"
    <3>1. /\ m2 = Joined(fault).manager
          /\ Added(fault) = Joined(fault)
          /\ groupManager' = m2 /\ Answer(c, rs)
      BY <2>1, <2>7
    <3>2. /\ ManagerInv(m2) /\ Stable(m1, m2)
      BY <2>2, <2>3, <3>1, AddUserInv, AddUserStable
    <3>3. /\ DOMAIN m2.groups = DOMAIN m1.groups
          /\ m2.nextMulticastPort = m1.nextMulticastPort
          /\ \A n, u : MemberKept(m1, m2, n, u)
      BY <2>3, <3>1, AddUserEffect
    <3>4. /\ Added(fault).result # "success" => m2 = m1
          /\ Added(fault).result = "success" =>
               /\ m2.groups[name].members = m1.groups[name].members \cup {user}
               /\ \A n \in DOMAIN m1.groups : n # name => m2.groups[n] = m1.groups[n]
      <4> DEFINE call == GroupManagerAddUserToGroup(m1, name, user, fault)
      <4>1. /\ call.result # "success" => call.manager = m1
            /\ call.result = "success" =>
                 /\ call.manager.groups[name].members =
                      m1.groups[name].members \cup {user}
                 /\ \A n \in DOMAIN m1.groups : n # name =>
                      call.manager.groups[n] = m1.groups[n]
        <5> HIDE DEF m1, name, user, New, Added, Joined
        <5> QED
          BY <2>3, AddUserEffect
      <4>2. Added(fault) = call /\ m2 = call.manager
        BY <3>1
      <4> HIDE DEF call, m1, m2, name, user, Added
      <4> QED
        BY <4>1, <4>2
    <3>5. Added(fault).result # "success" => rs = Refusal("create")
      <4>1. Added(fault).result # "success" => rs = Status("create", Added(fault).result)
        BY DEF GroupInfo
      <4> QED
        BY <4>1, RefusalText
    <3>6. GrantAnswer(rs, "create", m1, m2, name, user)
      BY <2>2, <2>3, <3>1, GrantText
    <3> HIDE DEF m, m1, m2, rs, New, Added
    <3>7. Stable(m, m2)
      <4>1. /\ m.nextMulticastPort \in Nat /\ m1.nextMulticastPort \in Nat
            /\ m2.nextMulticastPort \in Nat
        BY <2>3, <3>2, CounterOrdered DEF m
      <4> QED
        BY <2>3, <2>4, <2>7, <3>2, <3>3, <4>1 DEF Stable
    <3>8. \A n, u : MemberKept(m, m2, n, u)
      BY <2>5, <3>3 DEF MemberKept
    <3>9. OnlyNew(m, m2, name)
      BY <2>4, <2>7, <3>2, <3>3 DEF OnlyNew, Stable
    <3>10. \A n : NewlyAlone(m, m2, n) => n = name /\ rs = Refusal("create")
      BY <2>4, <2>7, <3>3, <3>4, <3>5 DEF NewlyAlone
    <3>11. GrantAnswer(rs, "create", m, m2, name, user)
      BY <2>4, <2>7, <3>6 DEF GrantAnswer
    <3>12. GrantHandled(c, "create", m, m2)
      BY <1>2, <3>1, <3>7, <3>8, <3>9, <3>10, <3>11 DEF GrantHandled
    <3> QED
      BY <3>1, <3>12 DEF m
  <2> QED
    BY <2>6, <2>7
<1> QED
  BY <1>1, <1>2

-----------------------------------------------------------------------------
\* What a step leaves as it was for the clients it does not serve.

\* Only the server at a client's descriptor touches the managers.
LEMMA ManagersUntouched ==
  ASSUME [Next]_vars, \A d \in Clients : ~ProcessClient(d)
  PROVE  UNCHANGED <<userManager, groupManager>>
BY DEF Next, Server, Environment, Select, AcceptNewClient, AcceptFails,
       ConnectToServer, SendRequest, ReceiveResponse, ClientEnds, vars

LEMMA OwnDescriptor ==
  ASSUME NetInv, NEW c \in Accepted, NEW d \in Accepted, c # d
  PROVE  conn[c].fd # conn[d].fd
BY DEF NetInv, DescriptorsTracked

\* A client the server is at is one it has accepted.
LEMMA ServedIsAccepted ==
  ASSUME NEW c, ProcessClient(c)
  PROVE  c \in Accepted
BY DEF ProcessClient, PeerClosed, RecvFailed, HandleRegisterRequest,
       HandleLoginRequest, HandleLogoutRequest, HandleExitRequest,
       HandleCreateGroupRequest, HandleJoinGroupRequest,
       HandleLeaveGroupRequest, Handling, Serving

\* A server step finds a connection as it is, accepts it, or serves it.
LEMMA ServerTouches ==
  ASSUME NetInv, Server, NEW c \in Clients, ~ProcessClient(c)
  PROVE  \/ conn'[c] = conn[c]
         \/ /\ conn[c].phase = "queued"
            /\ \E fd \in Sockets : conn'[c] = Opened(conn[c], fd)
<1>1. CASE Select \/ AcceptFails
  BY <1>1 DEF Select, AcceptFails, netVars
<1>2. CASE AcceptNewClient
  <2>1. acceptQueue \in Seq(Clients) /\ acceptQueue # <<>>
    BY <1>2 DEF NetInv, AcceptNewClient
  <2>2. 1 \in 1..Len(acceptQueue) /\ acceptQueue[1] = Head(acceptQueue)
        /\ Head(acceptQueue) \in Clients
    BY <2>1
  <2>3. conn[Head(acceptQueue)].phase = "queued"
    BY <2>2 DEF NetInv, QueueOK
  <2>4. PICK fd \in Sockets :
          conn' = [conn EXCEPT ![Head(acceptQueue)] = Opened(@, fd)]
    BY <1>2 DEF AcceptNewClient
  <2> QED
    BY <2>2, <2>3, <2>4 DEF NetInv
<1>3. ASSUME NEW d \in Clients, ProcessClient(d)
      PROVE  conn'[c] = conn[c]
  <2>1. d # c
    BY <1>3
  <2>2. \E k : conn' = [conn EXCEPT ![d] = k]
    BY <1>3 DEF ProcessClient, PeerClosed, RecvFailed, HandleRegisterRequest,
       HandleLoginRequest, HandleLogoutRequest, HandleExitRequest,
       HandleCreateGroupRequest, HandleJoinGroupRequest,
       HandleLeaveGroupRequest, Answer
  <2> QED
    BY <2>1, <2>2 DEF NetInv
<1> QED
  BY <1>1, <1>2, <1>3 DEF Server

\* The logout of an exit is the only one that finds anything.
LEMMA ExitLogsOut ==
  ASSUME NEW c, HandleExitRequest(c)
  PROVE  userManager' = UserManagerLogout(userManager, conn[c].fd).manager
<1> DEFINE once == UserManagerLogout(userManager, conn[c].fd).manager
<1>1. userManager' = UserManagerLogout(once, conn[c].fd).manager
  BY DEF HandleExitRequest
<1>2. ~IsLoggedIn(once, conn[c].fd)
  BY LogoutEffect
<1> HIDE DEF once
<1>3. UserManagerLogout(once, conn[c].fd).manager = once
  BY <1>2 DEF UserManagerLogout, IsLoggedIn, Outcome
<1> QED
  BY <1>1, <1>3 DEF once

\* The login on a descriptor ends only when its own connection asks for it or
\* is gone.
LEMMA LoginEnds ==
  ASSUME ServerInv, NEW d \in Clients, ProcessClient(d), NEW s,
         conn[d].fd = s =>
           ~(PeerClosed(d) \/ HandleLogoutRequest(d) \/ HandleExitRequest(d))
  PROVE  LoginKept(userManager, userManager', s)
<1> USE DEF ServerInv
<1>1. CASE \/ RecvFailed(d) \/ HandleCreateGroupRequest(d)
           \/ HandleJoinGroupRequest(d) \/ HandleLeaveGroupRequest(d)
  <2>1. userManager' = userManager
    BY <1>1 DEF RecvFailed, HandleCreateGroupRequest, HandleJoinGroupRequest,
                HandleLeaveGroupRequest
  <2> QED
    BY <2>1 DEF LoginKept
<1>2. CASE HandleRegisterRequest(d)
  <2>1. userManager'.socketToUser = userManager.socketToUser
    BY <1>2, RegisterEffect DEF HandleRegisterRequest
  <2> QED
    BY <2>1 DEF LoginKept, IsLoggedIn, UsernameBySocket
<1>3. CASE HandleLoginRequest(d)
  BY <1>3, LoginEffect DEF HandleLoginRequest
<1>4. CASE PeerClosed(d) \/ HandleLogoutRequest(d) \/ HandleExitRequest(d)
  <2>1. userManager' = UserManagerLogout(userManager, conn[d].fd).manager
    BY <1>4, ExitLogsOut DEF PeerClosed, HandleLogoutRequest
  <2>2. s # conn[d].fd
    BY <1>4
  <2> QED
    BY <2>1, <2>2, LogoutEffect
<1> QED
  BY <1>1, <1>2, <1>3, <1>4 DEF ProcessClient

LEMMA LoginSurvives ==
  ASSUME ServerInv, [Next]_vars, NEW c \in Accepted, conn[c].end = "up",
         ~HandleLogoutRequest(c), ~HandleExitRequest(c)
  PROVE  LoginKept(userManager, userManager', conn[c].fd)
<1>1. CASE \A d \in Clients : ~ProcessClient(d)
  BY <1>1, ManagersUntouched DEF LoginKept
<1>2. ASSUME NEW d \in Clients, ProcessClient(d)
      PROVE  LoginKept(userManager, userManager', conn[c].fd)
  <2>1. d # c => conn[d].fd # conn[c].fd
    BY <1>2, ServedIsAccepted, OwnDescriptor DEF ServerInv
  <2>2. ~PeerClosed(c)
    BY DEF PeerClosed
  <2> QED
    BY <1>2, <2>1, <2>2, LoginEnds
<1> QED
  BY <1>1, <1>2

\* What one served descriptor does to the groups: they stay put, a member
\* goes only by its own request, a group appears only under the next port.
LEMMA GroupsServed ==
  ASSUME ServerInv, NEW d \in Clients, ProcessClient(d)
  PROVE  /\ Stable(groupManager, groupManager')
         /\ \A n, u :
              MemberKept(groupManager, groupManager', n, u)
              \/ /\ HandleLogoutRequest(d) \/ HandleLeaveGroupRequest(d)
                 /\ HandleLeaveGroupRequest(d) => Packet(d).group = n
                 /\ IsLoggedIn(userManager, conn[d].fd)
                 /\ u = UsernameBySocket(userManager, conn[d].fd)
         /\ OnlyNew(groupManager, groupManager', Packet(d).group)
         /\ \A n : NewlyAlone(groupManager, groupManager', n) =>
              /\ Handling(d, "create") /\ Packet(d).group = n
              /\ Answer(d, Refusal("create"))
         /\ HandleLogoutRequest(d) /\ IsLoggedIn(userManager, conn[d].fd) =>
              /\ NobodyAlone(groupManager')
              /\ \A n \in DOMAIN groupManager'.groups :
                   UsernameBySocket(userManager, conn[d].fd)
                     \notin groupManager'.groups[n].members
<1> USE DEF ServerInv
<1> DEFINE m == groupManager
           m2 == groupManager'
           user == UsernameBySocket(userManager, conn[d].fd)
           Asked(n, u) == /\ HandleLogoutRequest(d) \/ HandleLeaveGroupRequest(d)
                          /\ HandleLeaveGroupRequest(d) => Packet(d).group = n
                          /\ IsLoggedIn(userManager, conn[d].fd)
                          /\ u = user
           Refused(n) == /\ Handling(d, "create") /\ Packet(d).group = n
                         /\ Answer(d, Refusal("create"))
           Effect == /\ Stable(m, m2)
                     /\ \A n, u : MemberKept(m, m2, n, u) \/ Asked(n, u)
                     /\ OnlyNew(m, m2, Packet(d).group)
                     /\ \A n : NewlyAlone(m, m2, n) => Refused(n)
                     /\ HandleLogoutRequest(d) /\ IsLoggedIn(userManager, conn[d].fd) =>
                          /\ NobodyAlone(m2)
                          /\ \A n \in DOMAIN m2.groups : user \notin m2.groups[n].members
<1>1. ASSUME m2 = m, ~(HandleLogoutRequest(d) /\ IsLoggedIn(userManager, conn[d].fd))
      PROVE  Effect
  <2>1. Stable(m, m2)
    BY <1>1, CounterOrdered DEF Stable
  <2> HIDE DEF m, m2, user
  <2> QED
    BY <1>1, <2>1 DEF MemberKept, OnlyNew, NewlyAlone
<1>2. ASSUME NEW tag, GrantHandled(d, tag, m, m2), Handling(d, tag),
             ~HandleLogoutRequest(d)
      PROVE  Effect
  BY <1>2 DEF GrantHandled
<1>3. CASE HandleCreateGroupRequest(d) \/ HandleJoinGroupRequest(d)
  <2>1. ~HandleLogoutRequest(d)
    BY <1>3 DEF HandleCreateGroupRequest, HandleJoinGroupRequest,
                HandleLogoutRequest, Handling
  <2>2. CASE HandleCreateGroupRequest(d)
    BY <1>2, <2>1, <2>2, CreateHandled DEF HandleCreateGroupRequest
  <2>3. CASE HandleJoinGroupRequest(d)
    BY <1>2, <2>1, <2>3, JoinHandled DEF HandleJoinGroupRequest
  <2> QED
    BY <1>3, <2>2, <2>3
<1>4. CASE HandleLeaveGroupRequest(d) /\ IsLoggedIn(userManager, conn[d].fd)
  <2>1. ~HandleLogoutRequest(d)
    BY <1>4 DEF HandleLeaveGroupRequest, HandleLogoutRequest, Handling
  <2>2. user \in Users
    BY <1>4, UsernameTyped
  <2> DEFINE name == Packet(d).group
  <2>3. m2 = GroupManagerRemoveUserFromGroup(m, name, user).manager
    BY <1>4 DEF HandleLeaveGroupRequest
  <2> HIDE DEF m, m2, user, name
  <2>4. /\ DOMAIN m2.groups \subseteq DOMAIN m.groups
        /\ \A n, u : n # name \/ u # user => MemberKept(m, m2, n, u)
        /\ \A n : ~NewlyAlone(m, m2, n)
    BY <2>2, <2>3, RemoveUserEffect DEF m
  <2>5. Stable(m, m2)
    BY <2>3, RemoveUserStable DEF m
  <2>6. OnlyNew(m, m2, Packet(d).group)
    BY <2>4 DEF OnlyNew
  <2>7. \A n, u : MemberKept(m, m2, n, u) \/ Asked(n, u)
    BY <1>4, <2>4 DEF name
  <2> QED
    BY <2>1, <2>4, <2>5, <2>6, <2>7 DEF m, m2, user
<1>5. CASE HandleLogoutRequest(d) /\ IsLoggedIn(userManager, conn[d].fd)
  <2>1. ~HandleLeaveGroupRequest(d)
    BY <1>5 DEF HandleLeaveGroupRequest, HandleLogoutRequest, Handling
  <2>2. user \in Users
    BY <1>5, UsernameTyped
  <2>3. PICK order \in VisitOrders(EmptyGroups(LeaveAll(m, user))) :
          m2 = GroupManagerRemoveUserFromAllGroups(m, user, order).manager
    BY <1>5 DEF HandleLogoutRequest
  <2> HIDE DEF m, m2, user
  <2>4. /\ DOMAIN m2.groups \subseteq DOMAIN m.groups
        /\ \A n \in DOMAIN m2.groups : user \notin m2.groups[n].members
        /\ \A n, u : u # user => MemberKept(m, m2, n, u)
        /\ NobodyAlone(m2)
    BY <2>2, <2>3, RemoveUserFromAllEffect DEF m
  <2>5. Stable(m, m2)
    BY <2>3, RemoveUserFromAllStable DEF m
  <2>6. OnlyNew(m, m2, Packet(d).group)
    BY <2>4 DEF OnlyNew
  <2>7. \A n, u : MemberKept(m, m2, n, u) \/ Asked(n, u)
    BY <1>5, <2>1, <2>4
  <2>8. \A n : ~NewlyAlone(m, m2, n)
    BY <2>4 DEF NobodyAlone, NewlyAlone
  <2> QED
    BY <2>4, <2>5, <2>6, <2>7, <2>8 DEF m, m2, user
<1>6. CASE \/ PeerClosed(d) \/ RecvFailed(d)
           \/ HandleRegisterRequest(d) \/ HandleLoginRequest(d)
           \/ HandleExitRequest(d)
           \/ /\ HandleLogoutRequest(d) \/ HandleLeaveGroupRequest(d)
              /\ ~IsLoggedIn(userManager, conn[d].fd)
  <2>1. m2 = m
    BY <1>6 DEF PeerClosed, RecvFailed, HandleRegisterRequest,
       HandleLoginRequest, HandleExitRequest, HandleLogoutRequest,
       HandleLeaveGroupRequest
  <2>2. ~(HandleLogoutRequest(d) /\ IsLoggedIn(userManager, conn[d].fd))
    BY <1>6 DEF PeerClosed, RecvFailed, HandleRegisterRequest,
       HandleLoginRequest, HandleExitRequest, HandleLogoutRequest,
       HandleLeaveGroupRequest, Handling
  <2> QED
    BY <1>1, <2>1, <2>2
<1>7. Effect
  BY <1>3, <1>4, <1>5, <1>6 DEF ProcessClient
<1> QED
  BY <1>7

\* The same of any step.
LEMMA GroupsStep ==
  ASSUME ServerInv, [Next]_vars
  PROVE  Stable(groupManager, groupManager')
<1>1. CASE \A d \in Clients : ~ProcessClient(d)
  <2>1. Stable(groupManager, groupManager)
    BY CounterOrdered DEF ServerInv, Stable
  <2> QED
    BY <1>1, <2>1, ManagersUntouched
<1> QED
  BY <1>1, GroupsServed

\* A logged-in client stays a member of its groups until it leaves or logs
\* out itself.
LEMMA MembershipSurvives ==
  ASSUME ServerInv, [Next]_vars, NEW c \in Accepted,
         IsLoggedIn(userManager, conn[c].fd),
         ~HandleLogoutRequest(c), NEW n,
         ~(HandleLeaveGroupRequest(c) /\ Packet(c).group = n)
  PROVE  MemberKept(groupManager, groupManager', n,
                    UsernameBySocket(userManager, conn[c].fd))
<1>1. CASE \A d \in Clients : ~ProcessClient(d)
  BY <1>1, ManagersUntouched DEF MemberKept
<1>2. ASSUME NEW d \in Clients, ProcessClient(d)
      PROVE  MemberKept(groupManager, groupManager', n,
                        UsernameBySocket(userManager, conn[c].fd))
  <2>1. CASE d = c
    BY <1>2, <2>1, GroupsServed
  <2>2. CASE d # c
    <3>1. conn[d].fd # conn[c].fd
      BY <1>2, <2>2, ServedIsAccepted, OwnDescriptor DEF ServerInv
    <3>2. IsLoggedIn(userManager, conn[d].fd) =>
            UsernameBySocket(userManager, conn[d].fd) #
              UsernameBySocket(userManager, conn[c].fd)
      BY <3>1, OneSocketEach DEF ServerInv
    <3> QED
      BY <1>2, <3>2, GroupsServed
  <2> QED
    BY <2>1, <2>2
<1> QED
  BY <1>1, <1>2

-----------------------------------------------------------------------------
\* The answers that wait to be read.

\* Answers wait only for a peer that is there and was accepted.
UnreadOK(k) ==
  k.phase \in {"down", "queued"} \/ k.end # "up" => k.toClient = <<>>

UnreadInv == \A c \in Clients : UnreadOK(conn[c])

\* Stop-and-wait leaves at most one packet on a connection.
LEMMA OneInFlight ==
  ASSUME NEW k \in Connection, NEW outgrown, InFlightOK(k, outgrown), k.end = "up"
  PROVE  /\ k.toServer # <<>> =>
              k.toClient = <<>> /\ k.awaiting = TRUE /\ Tail(k.toServer) = <<>>
         /\ k.awaiting = FALSE => k.toServer = <<>> /\ k.toClient = <<>>
         /\ k.toClient # <<>> => Len(k.toClient) = 1 /\ Tail(k.toClient) = <<>>
<1> DEFINE a == Len(k.toServer)
           b == Len(k.toClient)
<1>1. /\ k.toServer \in Seq(Request) /\ k.toClient \in Seq(Response)
      /\ a \in Nat /\ b \in Nat
      /\ k.toServer = <<>> <=> a = 0
      /\ k.toClient = <<>> <=> b = 0
  BY ChannelLengths
<1>2. \/ k.awaiting = TRUE /\ a + b = 1
      \/ k.awaiting = FALSE /\ a + b = 0
      \/ k.awaiting = TRUE /\ a + b = 0
  BY DEF InFlightOK, InFlight
<1>3. ASSUME NEW S, NEW seq \in Seq(S), Len(seq) = 1
      PROVE  Tail(seq) = <<>>
  <2> DEFINE t == Tail(seq)
  <2>1. t \in Seq(S) /\ Len(t) = Len(seq) - 1
    BY <1>3, EmptySeq, HeadTailProperties
  <2>2. Len(t) = 0
    BY <1>3, <2>1
  <2> HIDE DEF t
  <2> QED
    BY <2>1, <2>2, EmptySeq DEF t
<1>4. (a = 1 => Tail(k.toServer) = <<>>) /\ (b = 1 => Tail(k.toClient) = <<>>)
  BY <1>1, <1>3
<1> HIDE DEF a, b
<1>5. /\ a # 0 => b = 0 /\ a = 1 /\ k.awaiting = TRUE
      /\ k.awaiting = FALSE => a = 0 /\ b = 0
      /\ b # 0 => b = 1
  BY <1>1, <1>2
<1>6. /\ k.toClient # <<>> => b = 1 /\ Tail(k.toClient) = <<>>
      /\ k.toServer # <<>> => Tail(k.toServer) = <<>>
  BY <1>1, <1>4, <1>5
<1> QED
  BY <1>1, <1>5, <1>6 DEF b

\* What the steps of a connection do to its two channels.
LEMMA Channels ==
  ASSUME NEW k \in Connection
  PROVE  /\ \A r : /\ WithRequest(k, r).toServer = Append(k.toServer, r)
                   /\ WithRequest(k, r).toClient = k.toClient
         /\ WithoutResponse(k).toClient = Tail(k.toClient)
         /\ WithoutResponse(k).toServer = k.toServer
         /\ Ended(k).toClient = <<>>
         /\ \A fd : /\ Opened(k, fd).toServer = k.toServer
                    /\ Opened(k, fd).toClient = k.toClient
                    /\ Opened(k, fd).end = k.end
         /\ \A rs : /\ Answered(k, rs).toServer = Tail(k.toServer)
                    /\ Answered(k, rs).toClient =
                         IF k.end = "up" THEN k.toClient \o rs ELSE k.toClient
         /\ Closed(k).toClient = IF k.end = "up" THEN k.toClient ELSE <<>>
         /\ Down.toClient = <<>>
<1>1. \A r : /\ WithRequest(k, r).toServer = Append(k.toServer, r)
             /\ WithRequest(k, r).toClient = k.toClient
  BY DEF WithRequest, Connection
<1>2. /\ WithoutResponse(k).toClient = Tail(k.toClient)
      /\ WithoutResponse(k).toServer = k.toServer
  BY DEF WithoutResponse, Connection
<1>3. Ended(k).toClient = <<>> /\ Down.toClient = <<>>
  BY DEF Ended, Down, Connection
<1>4. \A fd : /\ Opened(k, fd).toServer = k.toServer
              /\ Opened(k, fd).toClient = k.toClient
              /\ Opened(k, fd).end = k.end
  BY DEF Opened, Connection
<1>5. \A rs : /\ Answered(k, rs).toServer = Tail(k.toServer)
              /\ Answered(k, rs).toClient =
                   IF k.end = "up" THEN k.toClient \o rs ELSE k.toClient
  BY DEF Answered, Connection
<1>6. Closed(k).toClient = IF k.end = "up" THEN k.toClient ELSE <<>>
  BY DEF Closed, Connection, Down
<1> QED
  BY <1>1, <1>2, <1>3, <1>4, <1>5, <1>6

\* The handlers that leave the connection open answer in this form.
LEMMA AnswersOpen ==
  ASSUME ServerInv, NEW c \in Clients,
         \/ HandleRegisterRequest(c) \/ HandleLoginRequest(c)
         \/ HandleLogoutRequest(c) \/ HandleCreateGroupRequest(c)
         \/ HandleJoinGroupRequest(c) \/ HandleLeaveGroupRequest(c)
  PROVE  \E rs \in Seq(Response) : Answer(c, rs)
<1>1. CASE HandleRegisterRequest(c)
  BY <1>1, StatusTyped DEF HandleRegisterRequest
<1>2. CASE HandleLoginRequest(c)
  BY <1>2, StatusTyped DEF HandleLoginRequest
<1>3. CASE HandleLogoutRequest(c)
  BY <1>3, StatusTyped DEF HandleLogoutRequest
<1>4. CASE HandleCreateGroupRequest(c)
  BY <1>4, CreateHandled DEF GrantHandled, GrantAnswer
<1>5. CASE HandleJoinGroupRequest(c)
  BY <1>5, JoinHandled DEF GrantHandled, GrantAnswer
<1>6. CASE HandleLeaveGroupRequest(c)
  BY <1>6, StatusTyped DEF HandleLeaveGroupRequest
<1> QED
  BY <1>1, <1>2, <1>3, <1>4, <1>5, <1>6

\* How a step changes one connection.
LEMMA ConnectionStep ==
  ASSUME ServerInv, [Next]_vars, NEW c \in Clients
  PROVE  \/ conn'[c] = conn[c]
         \/ conn'[c] = Down
         \/ /\ conn[c].phase = "queued"
            /\ \E fd \in Sockets : conn'[c] = Opened(conn[c], fd)
         \/ /\ conn[c].phase = "open" /\ conn[c].toServer # <<>> /\ ProcessClient(c)
            /\ \E rs \in Seq(Response) : \/ conn'[c] = Answered(conn[c], rs)
                                         \/ conn'[c] = Closed(Answered(conn[c], rs))
         \/ conn[c].phase = "down" /\ conn'[c] = [conn[c] EXCEPT !.phase = "queued"]
         \/ \E r \in Request : SendRequest(c, r) /\ conn'[c] = WithRequest(conn[c], r)
         \/ ReceiveResponse(c) /\ conn'[c] = WithoutResponse(conn[c])
         \/ ClientEnds(c) /\ conn'[c] = Ended(conn[c])
<1> USE DEF ServerInv
<1>1. CASE Server /\ ~ProcessClient(c)
  BY <1>1, ServerTouches
<1>2. CASE PeerClosed(c) \/ RecvFailed(c)
  BY <1>2 DEF PeerClosed, RecvFailed, NetInv
<1>3. CASE \/ HandleRegisterRequest(c) \/ HandleLoginRequest(c)
           \/ HandleLogoutRequest(c) \/ HandleCreateGroupRequest(c)
           \/ HandleJoinGroupRequest(c) \/ HandleLeaveGroupRequest(c)
  <2>1. PICK rs \in Seq(Response) : conn' = [conn EXCEPT ![c] = Answered(@, rs)]
    BY <1>3, AnswersOpen DEF Answer
  <2>2. conn[c].phase = "open" /\ conn[c].toServer # <<>>
    BY <1>3, PacketTyped DEF HandleRegisterRequest, HandleLoginRequest,
       HandleLogoutRequest, HandleCreateGroupRequest, HandleJoinGroupRequest,
       HandleLeaveGroupRequest
  <2>3. conn'[c] = Answered(conn[c], rs)
    BY <2>1 DEF NetInv
  <2>4. ProcessClient(c)
    BY <1>3 DEF ProcessClient
  <2> QED
    BY <2>2, <2>3, <2>4
<1>4. CASE HandleExitRequest(c)
  <2> DEFINE rs == Status("exit", "success")
  <2>1. rs \in Seq(Response)
    BY StatusTyped
  <2>2. conn[c].phase = "open" /\ conn[c].toServer # <<>>
    BY <1>4, PacketTyped DEF HandleExitRequest
  <2>3. conn'[c] = Closed(Answered(conn[c], rs))
    BY <1>4 DEF HandleExitRequest, NetInv
  <2>4. ProcessClient(c)
    BY <1>4 DEF ProcessClient
  <2> HIDE DEF rs
  <2> QED
    BY <2>1, <2>2, <2>3, <2>4
<1>5. CASE UNCHANGED vars
  BY <1>5 DEF vars
<1>6. ASSUME NEW d \in Clients,
             \/ ConnectToServer(d) \/ ReceiveResponse(d) \/ ClientEnds(d)
             \/ \E r \in Request : SendRequest(d, r)
      PROVE  \/ conn'[c] = conn[c]
             \/ conn[c].phase = "down" /\ conn'[c] = [conn[c] EXCEPT !.phase = "queued"]
             \/ \E r \in Request : SendRequest(c, r) /\ conn'[c] = WithRequest(conn[c], r)
             \/ ReceiveResponse(c) /\ conn'[c] = WithoutResponse(conn[c])
             \/ ClientEnds(c) /\ conn'[c] = Ended(conn[c])
  <2>1. CASE d # c
    BY <1>6, <2>1 DEF ConnectToServer, ReceiveResponse, ClientEnds, SendRequest, NetInv
  <2>2. CASE ConnectToServer(c)
    BY <2>2 DEF ConnectToServer, NetInv
  <2>3. CASE ReceiveResponse(c)
    BY <2>3 DEF ReceiveResponse, NetInv
  <2>4. CASE ClientEnds(c)
    BY <2>4 DEF ClientEnds, NetInv
  <2>5. ASSUME NEW r \in Request, SendRequest(c, r)
        PROVE  SendRequest(c, r) /\ conn'[c] = WithRequest(conn[c], r)
    BY <2>5 DEF SendRequest, NetInv
  <2> QED
    BY <1>6, <2>1, <2>2, <2>3, <2>4, <2>5
<1>7. CASE Environment
  BY <1>6, <1>7 DEF Environment
<1>8. CASE ProcessClient(c)
  BY <1>2, <1>3, <1>4, <1>8 DEF ProcessClient
<1> QED
  BY <1>1, <1>5, <1>7, <1>8 DEF Next

LEMMA UnreadStep ==
  ASSUME ServerInv, UnreadInv, [Next]_vars
  PROVE  UnreadInv'
<1> SUFFICES ASSUME NEW c \in Clients
             PROVE  UnreadOK(conn'[c])
  BY DEF UnreadInv
<1>1. conn[c] \in Connection /\ UnreadOK(conn[c])
  BY DEF ServerInv, NetInv, UnreadInv
<1>2. CASE conn'[c] = conn[c] \/ conn'[c] = Down
  BY <1>1, <1>2, Channels DEF UnreadOK
<1>3. ASSUME NEW fd \in Sockets, conn[c].phase = "queued",
             conn'[c] = Opened(conn[c], fd)
      PROVE  UnreadOK(conn'[c])
  BY <1>1, <1>3, Channels DEF UnreadOK
<1>4. ASSUME NEW rs \in Seq(Response), conn[c].phase = "open",
             conn[c].toServer # <<>>,
             \/ conn'[c] = Answered(conn[c], rs)
             \/ conn'[c] = Closed(Answered(conn[c], rs))
      PROVE  UnreadOK(conn'[c])
  <2> DEFINE a == Answered(conn[c], rs)
  <2>1. /\ a \in Connection /\ a.phase = "open" /\ a.end = conn[c].end
        /\ a.end # "up" => a.toClient = <<>>
    BY <1>1, <1>4, AnsweredFields, Channels DEF UnreadOK
  <2> HIDE DEF a
  <2>2. UnreadOK(a)
    BY <2>1 DEF UnreadOK
  <2>3. UnreadOK(Closed(a))
    <3>1. CASE a.end # "up"
      BY <2>1, <3>1, Channels DEF Closed, UnreadOK
    <3>2. CASE a.end = "up"
      <4>1. Closed(a).phase = "closed" /\ Closed(a).end = "up"
        BY <2>1, <3>2 DEF Closed, Connection
      <4> QED
        BY <4>1 DEF UnreadOK
    <3> QED
      BY <3>1, <3>2
  <2> QED
    BY <1>4, <2>2, <2>3 DEF a
<1>5. ASSUME conn[c].phase = "down", conn'[c] = [conn[c] EXCEPT !.phase = "queued"]
      PROVE  UnreadOK(conn'[c])
  BY <1>1, <1>5 DEF UnreadOK, Connection
<1>6. ASSUME NEW r \in Request, conn'[c] = WithRequest(conn[c], r)
      PROVE  UnreadOK(conn'[c])
  BY <1>1, <1>6, WithRequestFields, Channels DEF UnreadOK
<1>7. ASSUME ReceiveResponse(c), conn'[c] = WithoutResponse(conn[c])
      PROVE  UnreadOK(conn'[c])
  BY <1>1, <1>7, WithoutResponseFields DEF UnreadOK, ReceiveResponse
<1>8. ASSUME conn'[c] = Ended(conn[c])
      PROVE  UnreadOK(conn'[c])
  BY <1>1, <1>8, Channels DEF UnreadOK
<1> QED
  BY <1>2, <1>3, <1>4, <1>5, <1>6, <1>7, <1>8, ConnectionStep

-----------------------------------------------------------------------------
\* A grant that waits to be read.

GrantIn(k) ==
  /\ k.toClient # <<>>
  /\ Head(k.toClient).tag \in {"create", "join"}
  /\ Head(k.toClient).ok = TRUE

GrantOf(k, um, m) ==
  k.phase = "open" /\ GrantIn(k) =>
    /\ IsLoggedIn(um, k.fd)
    /\ \E n : Holds(m, UsernameBySocket(um, k.fd), n,
                    <<Head(k.toClient).ip, Head(k.toClient).port>>)

GrantInv == \A c \in Clients : GrantOf(conn[c], userManager, groupManager)

LEMMA GrantFields ==
  ASSUME NEW tag, NEW ip, NEW port
  PROVE  /\ Head(Grant(tag, ip, port)).tag = tag
         /\ Head(Grant(tag, ip, port)).ok = TRUE
         /\ Head(Grant(tag, ip, port)).ip = ip
         /\ Head(Grant(tag, ip, port)).port = port
         /\ Head(Refusal(tag)).tag = tag
         /\ Head(Refusal(tag)).ok = FALSE
         /\ Grant(tag, ip, port) # <<>> /\ Refusal(tag) # <<>>
         /\ \A result : /\ Head(Status(tag, result)).tag = tag
                        /\ Head(Status(tag, result)).ok = (result = "success")
                        /\ Status(tag, result) # <<>>
<1>1. \A x : <<x>> # <<>> /\ Head(<<x>>) = x
  OBVIOUS
<1>2. \A result : [tag |-> tag, ok |-> result = "success"].tag = tag
  OBVIOUS
<1>3. \A result : [tag |-> tag, ok |-> result = "success"].ok = (result = "success")
  BY Zenon
<1> QED
  BY <1>1, <1>2, <1>3 DEF Grant, Refusal, Status

\* While the peer is there its only answer is the one just sent.
LEMMA OnlyAnswer ==
  ASSUME NEW k \in Connection, NEW outgrown, InFlightOK(k, outgrown), UnreadOK(k),
         k.toServer # <<>>, NEW rs \in Seq(Response)
  PROVE  Answered(k, rs).toClient = IF k.end = "up" THEN rs ELSE <<>>
<1>1. k.toClient = <<>>
  BY OneInFlight DEF UnreadOK
<1>2. <<>> \o rs = rs
  OBVIOUS
<1>3. Answered(k, rs).toClient = IF k.end = "up" THEN k.toClient \o rs ELSE k.toClient
  BY Channels
<1>4. k.toClient \o rs = rs
  BY <1>1, <1>2
<1> QED
  BY <1>1, <1>3, <1>4

\* Nothing but a granted create or join brings a grant.
LEMMA NewGrant ==
  ASSUME ServerInv, AnsweredInv, UnreadInv, NEW c \in Clients, ProcessClient(c),
         conn'[c].phase = "open", GrantIn(conn'[c])
  PROVE  /\ conn[c].end = "up"
         /\ UNCHANGED userManager
         /\ conn'[c].fd = conn[c].fd
         /\ IsLoggedIn(userManager, conn[c].fd)
         /\ \E tag \in {"create", "join"}, ip \in MulticastIps, port \in Nat :
              LET name == Packet(c).group
                  user == UsernameBySocket(userManager, conn[c].fd)
              IN  /\ Packet(c).tag = tag
                  /\ conn'[c].toClient = Grant(tag, ip, port)
                  /\ ~(/\ name \in DOMAIN groupManager.groups
                       /\ user \in groupManager.groups[name].members)
                  /\ Holds(groupManager', user, name, <<ip, port>>)
<1> USE DEF ServerInv
<1>1. /\ conn[c] \in Connection
      /\ InFlightOK(conn[c], PortsOutgrown)
      /\ UnreadOK(conn[c])
  BY DEF NetInv, AnsweredInv, UnreadInv
<1>2. ASSUME NEW tag, Handling(c, tag), NEW rs \in Seq(Response), Answer(c, rs)
      PROVE  /\ conn'[c] = Answered(conn[c], rs)
             /\ conn'[c].fd = conn[c].fd
             /\ conn[c].end = "up"
             /\ conn'[c].toClient = rs
  <2>1. conn'[c] = Answered(conn[c], rs)
    BY <1>2 DEF Answer, NetInv
  <2>2. conn[c].toServer # <<>>
    BY <1>2 DEF Handling
  <2>3. conn'[c].toClient = IF conn[c].end = "up" THEN rs ELSE <<>>
    BY <1>1, <2>1, <2>2, OnlyAnswer
  <2>4. conn'[c].fd = conn[c].fd
    BY <1>1, <2>1, <2>2, AnsweredFields
  <2> QED
    BY <2>1, <2>3, <2>4 DEF GrantIn
<1>3. CASE PeerClosed(c) \/ RecvFailed(c)
  <2>1. conn'[c] = Down
    BY <1>3 DEF PeerClosed, RecvFailed, NetInv
  <2> QED
    BY <2>1 DEF Down
<1>4. CASE HandleExitRequest(c)
  <2>1. conn'[c] = Closed(Answered(conn[c], Status("exit", "success")))
    BY <1>4 DEF HandleExitRequest, NetInv
  <2>2. conn[c].toServer # <<>>
    BY <1>4 DEF HandleExitRequest, Handling
  <2>3. conn'[c].phase \in {"closed", "down"}
    BY <1>1, <2>1, <2>2, StatusTyped, AnsweredFields, ClosedFields
  <2> QED
    BY <2>3
<1>5. ASSUME NEW tag \in {"register", "login", "logout", "leave"}, NEW result,
             Handling(c, tag), Answer(c, Status(tag, result))
      PROVE  FALSE
  <2>1. Status(tag, result) \in Seq(Response)
    BY <1>5, StatusTyped
  <2>2. conn'[c].toClient = Status(tag, result)
    BY <1>2, <1>5, <2>1
  <2>3. Head(Status(tag, result)).tag = tag
    BY GrantFields
  <2>4. Head(conn'[c].toClient).tag \in {"create", "join"}
    BY DEF GrantIn
  <2> QED
    BY <1>5, <2>2, <2>3, <2>4
<1>6. CASE HandleRegisterRequest(c)
  BY <1>5, <1>6 DEF HandleRegisterRequest
<1>7. CASE HandleLoginRequest(c)
  BY <1>5, <1>7 DEF HandleLoginRequest
<1>8. CASE HandleLogoutRequest(c)
  BY <1>5, <1>8 DEF HandleLogoutRequest
<1>9. CASE HandleLeaveGroupRequest(c)
  <2>1. PICK result : Answer(c, Status("leave", result))
    BY <1>9 DEF HandleLeaveGroupRequest
  <2> QED
    BY <1>5, <1>9, <2>1 DEF HandleLeaveGroupRequest
<1>10. ASSUME NEW tag \in {"create", "join"}, Handling(c, tag),
              GrantHandled(c, tag, groupManager, groupManager')
       PROVE  /\ conn[c].end = "up"
              /\ conn'[c].fd = conn[c].fd
              /\ IsLoggedIn(userManager, conn[c].fd)
              /\ Packet(c).tag = tag
              /\ \E ip \in MulticastIps, port \in Nat :
                   LET name == Packet(c).group
                       user == UsernameBySocket(userManager, conn[c].fd)
                   IN  /\ conn'[c].toClient = Grant(tag, ip, port)
                       /\ ~(/\ name \in DOMAIN groupManager.groups
                            /\ user \in groupManager.groups[name].members)
                       /\ Holds(groupManager', user, name, <<ip, port>>)
  <2>1. PICK rs : /\ Answer(c, rs)
                  /\ GrantAnswer(rs, tag, groupManager, groupManager',
                                 Packet(c).group,
                                 UsernameBySocket(userManager, conn[c].fd))
                  /\ IsLoggedIn(userManager, conn[c].fd) \/ rs = Refusal(tag)
    BY <1>10 DEF GrantHandled
  <2>2. rs \in Seq(Response)
    BY <2>1 DEF GrantAnswer
  <2>3. conn'[c].toClient = rs /\ conn[c].end = "up" /\ conn'[c].fd = conn[c].fd
    BY <1>2, <1>10, <2>1, <2>2
  <2>4. rs # <<>> /\ rs # Refusal(tag)
    BY <2>3, GrantFields DEF GrantIn
  <2> QED
    BY <1>10, <2>1, <2>3, <2>4 DEF GrantAnswer, Handling
<1>11. CASE HandleCreateGroupRequest(c)
  <2>1. Handling(c, "create") /\ UNCHANGED userManager
    BY <1>11 DEF HandleCreateGroupRequest
  <2> QED
    BY <1>10, <1>11, <2>1, CreateHandled
<1>12. CASE HandleJoinGroupRequest(c)
  <2>1. Handling(c, "join") /\ UNCHANGED userManager
    BY <1>12 DEF HandleJoinGroupRequest
  <2> QED
    BY <1>10, <1>12, <2>1, JoinHandled
<1> QED
  BY <1>3, <1>4, <1>6, <1>7, <1>8, <1>9, <1>11, <1>12 DEF ProcessClient

LEMMA GrantStep ==
  ASSUME ServerInv, AnsweredInv, UnreadInv, GrantInv, [Next]_vars
  PROVE  GrantInv'
<1> SUFFICES ASSUME NEW c \in Clients, conn'[c].phase = "open", GrantIn(conn'[c])
             PROVE  /\ IsLoggedIn(userManager', conn'[c].fd)
                    /\ \E n : Holds(groupManager',
                                    UsernameBySocket(userManager', conn'[c].fd), n,
                                    <<Head(conn'[c].toClient).ip,
                                      Head(conn'[c].toClient).port>>)
  BY DEF GrantInv, GrantOf
<1>1. /\ conn[c] \in Connection /\ UnreadOK(conn[c])
      /\ InFlightOK(conn[c], PortsOutgrown)
      /\ GrantOf(conn[c], userManager, groupManager)
  BY DEF ServerInv, NetInv, UnreadInv, AnsweredInv, GrantInv
<1>2. CASE ProcessClient(c)
  <2>1. PICK tag \in {"create", "join"}, ip \in MulticastIps, port \in Nat :
          /\ conn'[c].toClient = Grant(tag, ip, port)
          /\ Holds(groupManager', UsernameBySocket(userManager, conn[c].fd),
                   Packet(c).group, <<ip, port>>)
    BY <1>2, NewGrant
  <2>2. /\ UNCHANGED userManager /\ conn'[c].fd = conn[c].fd
        /\ IsLoggedIn(userManager, conn[c].fd)
    BY <1>2, NewGrant
  <2>3. Head(Grant(tag, ip, port)).ip = ip /\ Head(Grant(tag, ip, port)).port = port
    BY DEF Grant
  <2>4. Head(conn'[c].toClient).ip = ip /\ Head(conn'[c].toClient).port = port
    BY <2>1, <2>3
  <2> QED
    BY <2>1, <2>2, <2>4
<1>3. CASE ~ProcessClient(c) /\ conn'[c] = conn[c]
  <2>1. c \in Accepted /\ conn[c].end = "up" /\ IsLoggedIn(userManager, conn[c].fd)
    BY <1>1, <1>3 DEF Accepted, UnreadOK, GrantIn, GrantOf
  <2>2. ~HandleLogoutRequest(c) /\ ~HandleExitRequest(c) /\ ~HandleLeaveGroupRequest(c)
    BY <1>3 DEF ProcessClient
  <2>3. LoginKept(userManager, userManager', conn[c].fd)
    BY <2>1, <2>2, LoginSurvives
  <2> DEFINE user == UsernameBySocket(userManager, conn[c].fd)
             address == <<Head(conn[c].toClient).ip, Head(conn[c].toClient).port>>
  <2>4. PICK n : Holds(groupManager, user, n, address)
    BY <1>1, <1>3 DEF GrantOf
  <2>5. MemberKept(groupManager, groupManager', n, user)
    BY <2>1, <2>2, MembershipSurvives
  <2>6. Holds(groupManager', user, n, address)
    BY <2>4, <2>5, GroupsStep, HoldsOn
  <2> HIDE DEF address
  <2> QED
    BY <1>3, <2>1, <2>3, <2>6 DEF LoginKept, address
<1>4. conn'[c].toClient # <<>> /\ conn'[c].phase = "open"
  BY DEF GrantIn
<1>5. ASSUME \/ conn'[c] = Down
             \/ /\ conn[c].phase = "queued"
                /\ \E fd \in Sockets : conn'[c] = Opened(conn[c], fd)
             \/ conn'[c] = Ended(conn[c])
      PROVE  FALSE
  BY <1>1, <1>4, <1>5, Channels DEF UnreadOK
<1>6. ASSUME conn[c].phase = "down", conn'[c] = [conn[c] EXCEPT !.phase = "queued"]
      PROVE  FALSE
  BY <1>1, <1>4, <1>6 DEF Connection
<1>7. ASSUME NEW r \in Request, SendRequest(c, r), conn'[c] = WithRequest(conn[c], r)
      PROVE  FALSE
  <2>1. conn[c].awaiting = FALSE /\ conn[c].end = "up"
    BY <1>1, <1>7 DEF SendRequest, Alive, Connection
  <2>2. conn[c].toClient = <<>>
    BY <1>1, <2>1, OneInFlight
  <2>3. WithRequest(conn[c], r).toClient = conn[c].toClient
    BY <1>1, Channels
  <2> QED
    BY <1>4, <1>7, <2>2, <2>3
<1>8. ASSUME ReceiveResponse(c), conn'[c] = WithoutResponse(conn[c])
      PROVE  FALSE
  BY <1>1, <1>4, <1>8, OneInFlight, Channels DEF ReceiveResponse, Alive
<1> QED
  BY <1>2, <1>3, <1>5, <1>6, <1>7, <1>8, ConnectionStep

-----------------------------------------------------------------------------
\* The theorems.

LEMMA InitInv ==
  ASSUME Init
  PROVE  ServerInv
<1>1. UsersInv(userManager) /\ ManagerInv(groupManager)
  BY CreateGood, CreateInv DEF Init, UserManagerInit, GroupManagerInit
<1>2. conn \in [Clients -> Connection] /\ \A c \in Clients : conn[c].phase = "down"
  BY DownConnection DEF Init, Down
<1>3. Accepted = {} /\ OpenFds = {}
  BY <1>2 DEF Accepted, OpenFds
<1>4. /\ acceptQueue = <<>> /\ acceptQueue \in Seq(Clients)
      /\ masterSet = {Listener} /\ tempSet = {} /\ maxFd = Listener
  BY DEF Init
<1>5. QueueOK /\ OpenHaveDescriptors /\ ReportedReadable
  BY <1>2, <1>4 DEF QueueOK, OpenHaveDescriptors, ReportedReadable
<1>6. DescriptorsTracked
  BY <1>3, <1>4, ChatServerAssumption DEF DescriptorsTracked
<1> QED
  BY <1>1, <1>2, <1>4, <1>5, <1>6 DEF ServerInv, NetInv

LEMMA ServerStep ==
  ASSUME ServerInv, [Next]_vars
  PROVE  ServerInv'
<1>1. CASE Select
  <2>1. NetInv'
    BY <1>1, SelectReturns DEF ServerInv
  <2> QED
    BY <1>1, <2>1 DEF ServerInv, Select
<1>2. CASE AcceptNewClient
  <2>1. NetInv'
    BY <1>2, ConnectionAccepted DEF ServerInv
  <2> QED
    BY <1>2, <2>1 DEF ServerInv, AcceptNewClient
<1>3. CASE AcceptFails
  <2>1. UNCHANGED <<userManager, groupManager, conn, acceptQueue, masterSet, maxFd>>
        /\ tempSet' \subseteq tempSet
    BY <1>3 DEF AcceptFails, netVars
  <2> QED
    BY <2>1, DescriptorPassed DEF ServerInv
<1>4. ASSUME NEW c \in Clients, ProcessClient(c)
      PROVE  ServerInv'
  BY <1>4, RegisterStep, LoginStep, LogoutStep, ExitStep, CreateStep,
     JoinStep, LeaveStep, PeerGoneStep DEF ProcessClient
<1>5. CASE Environment
  BY <1>5, ClientStep DEF Environment
<1>6. CASE UNCHANGED vars
  <2>1. UNCHANGED <<userManager, groupManager>> /\ NetInv'
    BY <1>6, DescriptorPassed DEF ServerInv, vars
  <2> QED
    BY <2>1 DEF ServerInv
<1> QED
  BY <1>1, <1>2, <1>3, <1>4, <1>5, <1>6 DEF Next, Server

\* The inductive invariant of the server.
THEOREM ServerInvariant == Spec => []ServerInv
<1>1. Init => ServerInv
  BY InitInv
<1>2. ServerInv /\ [Next]_vars => ServerInv'
  BY ServerStep
<1> QED
  BY <1>1, <1>2, PTL DEF Spec

\* Every variable of the server and of the network keeps its type; in
\* particular the handlers only send well-formed responses.
THEOREM ServerTypeCorrect == Spec => []ServerTypeOK
<1>1. ServerInv => ServerTypeOK
  <2> SUFFICES ASSUME ServerInv
               PROVE  ServerTypeOK
    OBVIOUS
  <2>1. UserManagerTypeOK /\ GroupManagerTypeOK
    BY DEF ServerInv, UsersInv, ManagerInv, UserManagerTypeOK,
           GroupManagerTypeOK
  <2>2. masterSet \subseteq {Listener} \cup Sockets
    BY DEF ServerInv, NetInv, DescriptorsTracked, OpenFds, Accepted,
           OpenHaveDescriptors
  <2>3. tempSet \subseteq masterSet /\ maxFd \in masterSet
    BY DEF ServerInv, NetInv, DescriptorsTracked, ReportedReadable
  <2> QED
    BY <2>1, <2>2, <2>3 DEF ServerInv, NetInv, ServerTypeOK
<1> QED
  BY <1>1, ServerInvariant, PTL

\* masterSet and maxFd agree with the connections the server has open: no
\* client is forgotten by select and select never meets a closed descriptor.
THEOREM DescriptorsAlwaysTracked == Spec => []DescriptorsTracked
<1>1. ServerInv => DescriptorsTracked
  BY DEF ServerInv, NetInv
<1> QED
  BY <1>1, ServerInvariant, PTL

\* Nothing the loop does for one descriptor invalidates what select said of
\* the later ones, whichever descriptors are closed and reused meanwhile.
THEOREM ReportsNeverStale == Spec => []ReportedStillReadable
<1>1. ServerInv => ReportedStillReadable
  BY DEF ServerInv, NetInv, ReportedReadable, ReportedStillReadable, Pending
<1> QED
  BY <1>1, ServerInvariant, PTL

\* Every request has exactly one answer, through every order of requests,
\* failures and ends, but for a port of more than five digits.
THEOREM RequestsAnsweredOnce == Spec => []AnsweredExactlyOnce
<1>1. Init => AnsweredInv
  BY NothingInFlight DEF Init, AnsweredInv
<1>2. ServerInv /\ AnsweredInv /\ [Next]_vars => AnsweredInv'
  BY AnsweredStep
<1>3. AnsweredInv => AnsweredExactlyOnce
  BY DEF AnsweredInv, InFlightOK, InFlight, PortsOutgrown, AnsweredExactlyOnce, Alive
<1> QED
  BY <1>1, <1>2, <1>3, ServerInvariant, PTL DEF Spec

\* The managers' invariants survive their composition in the server, whose
\* handlers call several operations in one step.
THEOREM ManagersStayConsistent ==
  Spec => [](SocketMapConsistent /\ AddressPoolConserved /\ MemberCountExact
             /\ PortsUnique)
<1>1. ServerInv => /\ SocketMapConsistent
                   /\ AddressPoolConserved
                   /\ MemberCountExact
                   /\ PortsUnique
  BY DEF ServerInv, UsersInv, ManagerInv, SocketMapConsistent,
         AddressPoolConserved, MemberCountExact, PortsUnique
<1> QED
  BY <1>1, ServerInvariant, PTL

\* A group without members comes only from a creation that is refused for
\* want of memory for its creator, and goes with the next logout.
THEOREM NoUnexplainedEmptyGroup == Spec => EmptyGroupsExplained
<1> DEFINE A == \A n \in DOMAIN Live' : Live'[n].members = {} =>
                  /\ \A c \in Clients :
                       ~(HandleLogoutRequest(c) /\ IsLoggedIn(userManager, conn[c].fd))
                  /\ \/ n \in DOMAIN Live /\ Live[n].members = {}
                     \/ \E c \in Clients :
                          /\ Handling(c, "create") /\ Packet(c).group = n
                          /\ Answer(c, <<[tag |-> "create", ok |-> FALSE]>>)
<1>1. ServerInv /\ [Next]_vars => [A]_vars
  <2> SUFFICES ASSUME ServerInv, [Next]_vars,
                      NEW n \in DOMAIN groupManager'.groups,
                      groupManager'.groups[n].members = {}
               PROVE  /\ \A c \in Clients :
                           ~(HandleLogoutRequest(c) /\ IsLoggedIn(userManager, conn[c].fd))
                      /\ NewlyAlone(groupManager, groupManager', n) =>
                           \E c \in Clients :
                             /\ Handling(c, "create") /\ Packet(c).group = n
                             /\ Answer(c, Refusal("create"))
    BY DEF Live, NewlyAlone, Refusal
  <2>1. \A c \in Clients :
          ~(HandleLogoutRequest(c) /\ IsLoggedIn(userManager, conn[c].fd))
    BY GroupsServed DEF NobodyAlone, ProcessClient
  <2>2. CASE \A d \in Clients : ~ProcessClient(d)
    BY <2>1, <2>2, ManagersUntouched DEF NewlyAlone
  <2>3. ASSUME NEW d \in Clients, ProcessClient(d),
               NewlyAlone(groupManager, groupManager', n)
        PROVE  /\ Handling(d, "create") /\ Packet(d).group = n
               /\ Answer(d, Refusal("create"))
    BY <2>3, GroupsServed
  <2> QED
    BY <2>1, <2>2, <2>3
<1> HIDE DEF A
<1>2. Spec => [][A]_vars
  BY <1>1, ServerInvariant, PTL DEF Spec
<1> QED
  BY <1>2 DEF A, EmptyGroupsExplained

\* The invariants of the server together.
THEOREM ServerPromises == Spec => [](ServerInv /\ AnsweredInv /\ UnreadInv /\ GrantInv)
<1>1. Init => AnsweredInv /\ UnreadInv /\ GrantInv
  <2> SUFFICES ASSUME Init, NEW c \in Clients
               PROVE  /\ InFlightOK(conn[c], PortsOutgrown)
                      /\ UnreadOK(conn[c])
                      /\ GrantOf(conn[c], userManager, groupManager)
    BY DEF AnsweredInv, UnreadInv, GrantInv
  <2>1. conn[c] = Down
    BY DEF Init
  <2>2. Down.phase = "down" /\ Down.toClient = <<>>
    BY DEF Down
  <2> QED
    BY <2>1, <2>2, NothingInFlight DEF UnreadOK, GrantOf
<1>2. ServerInv /\ AnsweredInv /\ [Next]_vars => AnsweredInv'
  BY AnsweredStep
<1>3. ServerInv /\ UnreadInv /\ [Next]_vars => UnreadInv'
  BY UnreadStep
<1>4. ServerInv /\ AnsweredInv /\ UnreadInv /\ GrantInv /\ [Next]_vars => GrantInv'
  BY GrantStep
<1> QED
  BY <1>1, <1>2, <1>3, <1>4, ServerInvariant, PTL DEF Spec

\* A client that reads that it has a group has it at that moment, with that
\* address and port: no other client's requests, no collected group and no
\* reused address or descriptor can have made the answer stale on its way.
THEOREM GrantsStillHold == Spec => []GrantStillHolds
<1>1. ServerInv /\ AnsweredInv /\ UnreadInv /\ GrantInv => GrantStillHolds
  <2> SUFFICES ASSUME ServerInv, AnsweredInv, UnreadInv, GrantInv,
                      NEW c \in Accepted, NEW i \in DOMAIN conn[c].toClient,
                      conn[c].toClient[i].tag \in {"create", "join"},
                      conn[c].toClient[i].ok
               PROVE  /\ IsLoggedIn(userManager, conn[c].fd)
                      /\ \E n \in DOMAIN Live :
                           /\ Live[n].multicastIp = conn[c].toClient[i].ip
                           /\ Live[n].multicastPort = conn[c].toClient[i].port
                           /\ UsernameBySocket(userManager, conn[c].fd)
                                \in Live[n].members
    BY DEF GrantStillHolds
  <2> DEFINE k == conn[c]
  <2>1. /\ c \in Clients /\ k \in Connection /\ k.phase = "open"
        /\ InFlightOK(k, PortsOutgrown) /\ UnreadOK(k)
        /\ GrantOf(k, userManager, groupManager)
    BY DEF Accepted, ServerInv, NetInv, AnsweredInv, UnreadInv, GrantInv
  <2>2. k.toClient \in Seq(Response) /\ k.toClient # <<>>
    BY <2>1, ChannelLengths
  <2>3. Len(k.toClient) = 1
    BY <2>1, <2>2, OneInFlight DEF UnreadOK
  <2>4. k.toClient[i] = Head(k.toClient) /\ Head(k.toClient) \in Response
    BY <2>2, <2>3
  <2>5. Head(k.toClient).ok \in BOOLEAN
    BY <2>4 DEF Response, StatusResponse, GroupInfoResponse
  <2>6. Head(k.toClient).ok = TRUE
    BY <2>4, <2>5
  <2>7. GrantIn(k)
    BY <2>2, <2>4, <2>6 DEF GrantIn
  <2>8. /\ IsLoggedIn(userManager, k.fd)
        /\ \E n : Holds(groupManager, UsernameBySocket(userManager, k.fd), n,
                        <<Head(k.toClient).ip, Head(k.toClient).port>>)
    BY <2>1, <2>7 DEF GrantOf
  <2> QED
    BY <2>4, <2>8 DEF Holds, Live
<1> QED
  BY <1>1, ServerPromises, PTL

\* A login that ends on a connection that stays ends by its own logout, and
\* then its user is in no group: neither another client's request nor a
\* connection that is closed ends it.
THEOREM LogoutsClearMemberships == Spec => LogoutClearsMemberships
<1> DEFINE Cleared ==
             \A s \in DOMAIN SocketToUser \ DOMAIN SocketToUser' :
               s \in masterSet' =>
                 \A n \in DOMAIN Live' : SocketToUser[s] \notin Live'[n].members
<1>1. ASSUME ServerInv, [Next]_vars
      PROVE  Cleared
  <2> SUFFICES ASSUME NEW s, IsLoggedIn(userManager, s), ~IsLoggedIn(userManager', s),
                      s \in masterSet'
               PROVE  \A n \in DOMAIN groupManager'.groups :
                        UsernameBySocket(userManager, s)
                          \notin groupManager'.groups[n].members
    BY DEF SocketToUser, Live, IsLoggedIn, UsernameBySocket
  <2>1. ~LoginKept(userManager, userManager', s)
    BY DEF LoginKept
  <2>2. PICK d \in Clients : ProcessClient(d)
    BY <1>1, ManagersUntouched
  <2>3. /\ conn[d].fd = s
        /\ PeerClosed(d) \/ HandleLogoutRequest(d) \/ HandleExitRequest(d)
    BY <1>1, <2>1, <2>2, LoginEnds
  <2>4. ~PeerClosed(d) /\ ~HandleExitRequest(d)
    BY <2>3 DEF PeerClosed, HandleExitRequest, CloseConnection
  <2> QED
    BY <1>1, <2>2, <2>3, <2>4, GroupsServed
<1>2. ServerInv /\ [Next]_vars => [Cleared]_vars
  BY <1>1
<1> QED
  BY <1>2, ServerInvariant, PTL DEF Spec, LogoutClearsMemberships

\* Also in the server, whose handlers call several operations in a step, no
\* session is taken over and no group is moved.
THEOREM ServerKeepsSessionsAndGroups ==
  Spec => SessionNeverStolen /\ AddressStable
<1>1. ASSUME ServerInv, [Next]_vars
      PROVE  SessionsKept(userManager, userManager')
  <2>1. CASE \A d \in Clients : ~ProcessClient(d)
    BY <1>1, <2>1, ManagersUntouched DEF SessionsKept
  <2>2. ASSUME NEW d \in Clients, ProcessClient(d)
        PROVE  SessionsKept(userManager, userManager')
    <3>1. CASE HandleRegisterRequest(d)
      BY <1>1, <3>1, PacketTyped, RegisterGood
      DEF HandleRegisterRequest, Good, ServerInv
    <3>2. CASE HandleLoginRequest(d)
      BY <1>1, <3>2, PacketTyped, LoginGood
      DEF HandleLoginRequest, Good, ServerInv
    <3>3. CASE HandleLogoutRequest(d) \/ HandleExitRequest(d) \/ PeerClosed(d)
      <4>1. userManager' = UserManagerLogout(userManager, conn[d].fd).manager
        BY <3>3, ExitLogsOut DEF HandleLogoutRequest, PeerClosed
      <4>2. conn[d].fd \in Sockets
        BY <1>1, <2>2, ServedIsAccepted
        DEF ServerInv, NetInv, OpenHaveDescriptors, Accepted
      <4> QED
        BY <1>1, <4>1, <4>2, LogoutGood DEF Good, ServerInv
    <3>4. CASE \/ RecvFailed(d) \/ HandleCreateGroupRequest(d)
               \/ HandleJoinGroupRequest(d) \/ HandleLeaveGroupRequest(d)
      BY <3>4 DEF RecvFailed, HandleCreateGroupRequest, HandleJoinGroupRequest,
                  HandleLeaveGroupRequest, SessionsKept
    <3> QED
      BY <2>2, <3>1, <3>2, <3>3, <3>4 DEF ProcessClient
  <2> QED
    BY <2>1, <2>2
<1>2. ServerInv /\ [Next]_vars => [~Stolen]_userManager
  BY <1>1 DEF SessionsKept, Stolen, Accounts, SocketToUser
<1>3. ServerInv /\ ServerInv' /\ [Next]_vars => [~Moved]_groupManager
  <2> SUFFICES ASSUME ServerInv, ServerInv', [Next]_vars
               PROVE  ~Moved
    OBVIOUS
  <2>1. Stable(groupManager, groupManager')
    BY GroupsStep
  <2>2. /\ \A n \in DOMAIN groupManager'.groups :
             groupManager'.groups[n].multicastPort \in Nat
        /\ groupManager.nextMulticastPort \in Nat
    BY DEF ServerInv, ManagerInv, ManagerTypeOK, Group
  <2> QED
    BY <2>1, <2>2 DEF Stable, Moved, Live
<1> QED
  BY <1>2, <1>3, ServerInvariant, PTL DEF Spec, SessionNeverStolen, AddressStable
=============================================================================
