----------------------------- MODULE ChatServer -----------------------------
(***************************************************************************)
(* The chat server of assignment 16: one thread that selects over its      *)
(* listener and its client connections and handles one request of each     *)
(* ready connection per round (server/src/server.c), on top of             *)
(* UserManager and GroupManager.                                           *)
(*                                                                         *)
(* The clients and the network are the environment.  A client connects,    *)
(* sends a request, waits for the answer before it sends the next one      *)
(* (client/src/client_manager.c, ProcessClientRequest), and may die at any *)
(* moment.  A request arrives whole.  A connection is tracked by client:   *)
(*   phase     "down", "queued" in the listener's backlog, "open" (the     *)
(*             server holds descriptor fd) or "closed" (the server has     *)
(*             closed its end, the client process is still there)          *)
(*   toServer, toClient   the packets in the two directions                *)
(*   end       "up", or how the peer went: "fin" when it closed with       *)
(*             nothing unread, "rst" when an unread answer was discarded   *)
(*   awaiting  the client is blocked in recv for an answer                 *)
(*                                                                         *)
(* What the server does between two calls of select or recv touches        *)
(* nothing the environment sees except through send, so one iteration of   *)
(* its descriptor loop is one action.  tempSet is kept without the         *)
(* descriptors the loop has passed: the next one to be served is its least *)
(* element up to maxFd, and an iteration over a descriptor outside tempSet *)
(* does nothing and is no step.                                            *)
(***************************************************************************)
EXTENDS UserManager, GroupManager

CONSTANTS Listener,            \* the listening descriptor
          Backlog,             \* length of the kernel's accept queue
          LargestPortText,     \* largest port of five digits
          WirePorts            \* 2^16: ports are 16 bits wide on the wire

\* The listener is opened before any connection, so its number is the least.
ASSUME ChatServerAssumption ==
  /\ Listener \in Nat
  /\ \A s \in Sockets : Listener < s
  /\ Backlog \in Nat
  /\ LargestPortText \in Nat
  /\ WirePorts \in Nat \ {0}

VARIABLES conn,         \* the connection of each client
          acceptQueue,  \* connections the server has not accepted yet
          masterSet, tempSet, maxFd

netVars == <<conn, acceptQueue>>
loopVars == <<masterSet, tempSet, maxFd>>
vars == <<userManager, groupManager, conn, acceptQueue,
          masterSet, tempSet, maxFd>>

UserRequest == [tag : {"register", "login"}, user : Users,
                password : Passwords]
GroupRequest == [tag : {"create", "join", "leave"}, group : GroupNames]
PlainRequest == [tag : {"logout", "exit"}]
Request == UserRequest \cup GroupRequest \cup PlainRequest

StatusResponse == [tag : {"register", "login", "logout", "exit", "leave",
                          "create", "join"}, ok : BOOLEAN]
GroupInfoResponse == [tag : {"create", "join"}, ok : {TRUE},
                      ip : MulticastIps, port : Nat]
Response == StatusResponse \cup GroupInfoResponse

Connection == [phase : {"down", "queued", "open", "closed"},
               fd : Sockets \cup {NoSocket},
               toServer : Seq(Request), toClient : Seq(Response),
               end : {"up", "fin", "rst"}, awaiting : BOOLEAN]

Down == [phase |-> "down", fd |-> NoSocket, toServer |-> <<>>,
         toClient |-> <<>>, end |-> "up", awaiting |-> FALSE]

Init ==
  /\ UserManagerInit
  /\ GroupManagerInit
  /\ conn = [c \in Clients |-> Down]
  /\ acceptQueue = <<>>
  /\ masterSet = {Listener}
  /\ tempSet = {}
  /\ maxFd = Listener

Accepted == {c \in Clients : conn[c].phase = "open"}
OpenFds == {conn[c].fd : c \in Accepted}
Alive(c) == conn[c].phase # "down" /\ conn[c].end = "up"

-----------------------------------------------------------------------------
\* The environment: client processes and the kernel's side of TCP.

ConnectToServer(c) ==
  /\ conn[c].phase = "down"
  /\ Len(acceptQueue) < Backlog
  /\ conn' = [conn EXCEPT ![c].phase = "queued"]
  /\ acceptQueue' = Append(acceptQueue, c)
  /\ UNCHANGED <<userManager, groupManager, loopVars>>

WithRequest(k, request) ==
  [k EXCEPT !.toServer = Append(@, request), !.awaiting = TRUE]

\* connect() returns before the server accepts, so a request may be sent
\* from the backlog.  Creations are explored below PortBound.
SendRequest(c, request) ==
  /\ Alive(c)
  /\ conn[c].phase \in {"queued", "open"}
  /\ ~conn[c].awaiting
  /\ request.tag = "create" => groupManager.nextMulticastPort < PortBound
  /\ conn' = [conn EXCEPT ![c] = WithRequest(@, request)]
  /\ UNCHANGED <<userManager, groupManager, acceptQueue, loopVars>>

WithoutResponse(k) == [k EXCEPT !.toClient = Tail(@), !.awaiting = FALSE]

ReceiveResponse(c) ==
  /\ Alive(c)
  /\ conn[c].toClient # <<>>
  /\ conn' = [conn EXCEPT ![c] = WithoutResponse(@)]
  /\ UNCHANGED <<userManager, groupManager, acceptQueue, loopVars>>

\* The kernel of a process that ended closes the connection with a FIN, or
\* with a RST when data it had received was never read.
Ended(k) ==
  IF k.phase = "closed" THEN Down
  ELSE [k EXCEPT !.end = IF k.toClient = <<>> THEN "fin" ELSE "rst",
                 !.toClient = <<>>, !.awaiting = FALSE]

\* The process ends, by itself or killed.
ClientEnds(c) ==
  /\ Alive(c)
  /\ conn' = [conn EXCEPT ![c] = Ended(@)]
  /\ UNCHANGED <<userManager, groupManager, acceptQueue, loopVars>>

-----------------------------------------------------------------------------
\* The server's loop.

Readable(fd) ==
  IF fd = Listener
    THEN acceptQueue # <<>>
    ELSE \E c \in Accepted : /\ conn[c].fd = fd
                             /\ conn[c].toServer # <<>> \/ conn[c].end # "up"

\* What is left of the current pass of "for (fd = 0; fd <= maxFd; fd++)".
Pending == {fd \in tempSet : fd <= maxFd}
IsNext(fd) == fd \in Pending /\ \A other \in Pending : fd <= other

\* Mutant: the loop tests masterSet instead of what select reported.
Select_MasterSet ==
  /\ Pending = {}
  /\ \E fd \in masterSet : fd <= maxFd /\ Readable(fd)
  /\ tempSet' = masterSet
  /\ UNCHANGED <<userManager, groupManager, netVars, masterSet, maxFd>>

\* tempSet = masterSet; select(maxFd + 1, &tempSet, ...)
Select ==
  /\ Pending = {}
  /\ LET ready == {fd \in masterSet : fd <= maxFd /\ Readable(fd)}
     IN  ready # {} /\ tempSet' = ready
  /\ UNCHANGED <<userManager, groupManager, netVars, masterSet, maxFd>>

\* The kernel gives the least descriptor that is free.
IsLeastFree(fd) ==
  /\ fd \in Sockets \ OpenFds
  /\ \A other \in Sockets \ OpenFds : fd <= other

Opened(k, fd) == [k EXCEPT !.phase = "open", !.fd = fd]

AcceptNewClient ==
  /\ IsNext(Listener)
  /\ acceptQueue # <<>>
  /\ \E fd \in Sockets :
       /\ IsLeastFree(fd)
       /\ conn' = [conn EXCEPT ![Head(acceptQueue)] = Opened(@, fd)]
       /\ masterSet' = masterSet \cup {fd}
       /\ maxFd' = IF fd > maxFd THEN fd ELSE maxFd
  /\ acceptQueue' = Tail(acceptQueue)
  /\ tempSet' = tempSet \ {Listener}
  /\ UNCHANGED <<userManager, groupManager>>

TableFull == Sockets \subseteq OpenFds

\* Mutant: accept is tried again until it succeeds.
AcceptFails_Retries ==
  /\ IsNext(Listener)
  /\ TableFull
  /\ UNCHANGED <<userManager, groupManager, netVars, loopVars>>

\* accept() finds the descriptor table full; the connection stays queued.
AcceptFails ==
  /\ IsNext(Listener)
  /\ TableFull
  /\ tempSet' = tempSet \ {Listener}
  /\ UNCHANGED <<userManager, groupManager, netVars, masterSet, maxFd>>

\* ProcessClient is at c's descriptor.
Serving(c) == c \in Accepted /\ IsNext(conn[c].fd)

\* Mutant: the search for the largest descriptor ends one too low.
UpdateMaxFd_OneTooLow(set, fd) ==
  (CHOOSE m \in set : m <= fd /\ \A other \in set : other <= fd => other <= m)
    - 1

\* UpdateMaxFd: the largest descriptor of "set" from fd downwards.
UpdateMaxFd(set, fd) ==
  CHOOSE m \in set : m <= fd /\ \A other \in set : other <= fd => other <= m

\* Mutant: FD_CLR is forgotten.
CloseConnection_NoFdClr(c) ==
  /\ tempSet' = tempSet \ {conn[c].fd}
  /\ UNCHANGED <<masterSet, maxFd, acceptQueue>>

\* close(), FD_CLR and, back in the loop, UpdateMaxFd.
CloseConnection(c) ==
  LET fd == conn[c].fd
  IN  /\ masterSet' = masterSet \ {fd}
      /\ tempSet' = tempSet \ {fd}
      /\ maxFd' = IF fd = maxFd THEN UpdateMaxFd(masterSet', maxFd)
                                ELSE maxFd
      /\ UNCHANGED acceptQueue

\* recv returned 0: the peer's user is logged out, its groups keep it.
PeerClosed(c) ==
  /\ Serving(c)
  /\ conn[c].toServer = <<>> /\ conn[c].end = "fin"
  /\ userManager' = UserManagerLogout(userManager, conn[c].fd).manager
  /\ conn' = [conn EXCEPT ![c] = Down]
  /\ CloseConnection(c)
  /\ UNCHANGED groupManager

\* Mutant: every failed recv is taken for EAGAIN.
RecvFailed_Retries(c) ==
  /\ Serving(c)
  /\ conn[c].toServer = <<>> /\ conn[c].end = "rst"
  /\ tempSet' = tempSet \ {conn[c].fd}
  /\ UNCHANGED <<userManager, groupManager, netVars, masterSet, maxFd>>

\* recv failed: the descriptor is closed and nothing else happens.
RecvFailed(c) ==
  /\ Serving(c)
  /\ conn[c].toServer = <<>> /\ conn[c].end = "rst"
  /\ conn' = [conn EXCEPT ![c] = Down]
  /\ CloseConnection(c)
  /\ UNCHANGED <<userManager, groupManager>>

-----------------------------------------------------------------------------
\* The request handlers (server/src/server_manager.c).

\* The request c's descriptor is served with in this step.
Packet(c) == Head(conn[c].toServer)

Handling(c, tag) ==
  /\ Serving(c)
  /\ conn[c].toServer # <<>>
  /\ Packet(c).tag = tag

\* The connection after its request was read and "responses" were sent: a
\* sequence of one, or empty when building the response failed.  Data for
\* a peer that is gone is discarded.
Answered(k, responses) ==
  [k EXCEPT !.toServer = Tail(@),
            !.toClient = IF k.end = "up" THEN @ \o responses ELSE @]

\* The connection stays open after the answer.
Answer(c, responses) ==
  /\ conn' = [conn EXCEPT ![c] = Answered(@, responses)]
  /\ tempSet' = tempSet \ {conn[c].fd}
  /\ UNCHANGED <<acceptQueue, masterSet, maxFd>>

\* BuildStatusResponse
Status(tag, result) == <<[tag |-> tag, ok |-> result = "success"]>>

\* BuildGroupInfoResponse: a failure carries the status alone; a port of
\* more than five digits cannot be encoded and nothing is sent.
GroupInfo(tag, result, info) ==
  IF result # "success"
    THEN Status(tag, result)
  ELSE IF info.port > LargestPortText
    THEN <<>>
  ELSE <<[tag |-> tag, ok |-> TRUE, ip |-> info.ip, port |-> info.port]>>

HandleRegisterRequest(c) ==
  /\ Handling(c, "register")
  /\ \E fault \in Faults :
       LET call == UserManagerRegister(userManager, Packet(c).user,
                                       Packet(c).password, fault)
       IN  /\ userManager' = call.manager
           /\ Answer(c, Status("register", call.result))
  /\ UNCHANGED groupManager

HandleLoginRequest(c) ==
  /\ Handling(c, "login")
  /\ \E fault \in Faults :
       LET call == UserManagerLogin(userManager, Packet(c).user,
                                    Packet(c).password, conn[c].fd, fault)
       IN  /\ userManager' = call.manager
           /\ Answer(c, Status("login", call.result))
  /\ UNCHANGED groupManager

\* Mutant: the login ends first, so the user's name is not found any more.
HandleLogoutRequest_LoginFirst(c) ==
  /\ Handling(c, "logout")
  /\ LET call == UserManagerLogout(userManager, conn[c].fd)
     IN  /\ userManager' = call.manager
         /\ Answer(c, Status("logout", call.result))
  /\ UNCHANGED groupManager

\* The user leaves all groups before the login ends.
HandleLogoutRequest(c) ==
  /\ Handling(c, "logout")
  /\ IF IsLoggedIn(userManager, conn[c].fd)
       THEN LET user == UsernameBySocket(userManager, conn[c].fd)
            IN  \E order \in
                    VisitOrders(EmptyGroups(LeaveAll(groupManager, user))) :
                  groupManager' = GroupManagerRemoveUserFromAllGroups(
                                    groupManager, user, order).manager
       ELSE UNCHANGED groupManager
  /\ LET call == UserManagerLogout(userManager, conn[c].fd)
     IN  /\ userManager' = call.manager
         /\ Answer(c, Status("logout", call.result))

\* The connection after close(), and the one of a peer that had gone.
Closed(k) ==
  IF k.end = "up" THEN [k EXCEPT !.phase = "closed", !.fd = NoSocket]
                  ELSE Down

\* The handler logs the user out and answers; ProcessClient then logs out
\* once more, which finds nothing, and closes the connection.
HandleExitRequest(c) ==
  /\ Handling(c, "exit")
  /\ userManager' =
       UserManagerLogout(UserManagerLogout(userManager, conn[c].fd).manager,
                         conn[c].fd).manager
  /\ conn' = [conn EXCEPT ![c] =
                Closed(Answered(@, Status("exit", "success")))]
  /\ CloseConnection(c)
  /\ UNCHANGED groupManager

\* Create the group, add its creator, look its address up.  When adding the
\* creator fails the new group stays behind.
HandleCreateGroupRequest(c) ==
  /\ Handling(c, "create")
  /\ IF ~IsLoggedIn(userManager, conn[c].fd)
       THEN /\ Answer(c, Status("create", "not_found"))
            /\ UNCHANGED groupManager
       ELSE \E fault \in Faults :
              LET name  == Packet(c).group
                  user  == UsernameBySocket(userManager, conn[c].fd)
                  new   == GroupManagerCreateGroup(groupManager, name, fault)
                  added == IF new.result = "success"
                             THEN GroupManagerAddUserToGroup(
                                    new.manager, name, user, fault)
                             ELSE new
              IN  /\ groupManager' = added.manager
                  /\ Answer(c, GroupInfo("create", added.result,
                                 GroupManagerFindGroup(added.manager, name)))
  /\ UNCHANGED userManager

HandleJoinGroupRequest(c) ==
  /\ Handling(c, "join")
  /\ IF ~IsLoggedIn(userManager, conn[c].fd)
       THEN /\ Answer(c, Status("join", "not_found"))
            /\ UNCHANGED groupManager
       ELSE \E fault \in Faults :
              LET name  == Packet(c).group
                  user  == UsernameBySocket(userManager, conn[c].fd)
                  added == GroupManagerAddUserToGroup(groupManager, name,
                                                      user, fault)
              IN  /\ groupManager' = added.manager
                  /\ Answer(c, GroupInfo("join", added.result,
                                 GroupManagerFindGroup(added.manager, name)))
  /\ UNCHANGED userManager

\* Mutant: a client that is not logged in gets no answer.
HandleLeaveGroupRequest_Silent(c) ==
  /\ Handling(c, "leave")
  /\ IF ~IsLoggedIn(userManager, conn[c].fd)
       THEN Answer(c, <<>>) /\ UNCHANGED groupManager
       ELSE LET call == GroupManagerRemoveUserFromGroup(groupManager,
                          Packet(c).group,
                          UsernameBySocket(userManager, conn[c].fd))
            IN  /\ groupManager' = call.manager
                /\ Answer(c, Status("leave", call.result))
  /\ UNCHANGED userManager

HandleLeaveGroupRequest(c) ==
  /\ Handling(c, "leave")
  /\ IF ~IsLoggedIn(userManager, conn[c].fd)
       THEN /\ Answer(c, Status("leave", "not_found"))
            /\ UNCHANGED groupManager
       ELSE LET call == GroupManagerRemoveUserFromGroup(groupManager,
                          Packet(c).group,
                          UsernameBySocket(userManager, conn[c].fd))
            IN  /\ groupManager' = call.manager
                /\ Answer(c, Status("leave", call.result))
  /\ UNCHANGED userManager

-----------------------------------------------------------------------------
\* ProcessClient: one descriptor of the loop.
ProcessClient(c) ==
  \/ PeerClosed(c)
  \/ RecvFailed(c)
  \/ HandleRegisterRequest(c)
  \/ HandleLoginRequest(c)
  \/ HandleLogoutRequest(c)
  \/ HandleExitRequest(c)
  \/ HandleCreateGroupRequest(c)
  \/ HandleJoinGroupRequest(c)
  \/ HandleLeaveGroupRequest(c)

Server ==
  \/ Select
  \/ AcceptNewClient
  \/ AcceptFails
  \/ \E c \in Clients : ProcessClient(c)

Environment ==
  \E c \in Clients :
    \/ ConnectToServer(c)
    \/ \E request \in Request : SendRequest(c, request)
    \/ ReceiveResponse(c)
    \/ ClientEnds(c)

Next == Server \/ Environment

Spec == Init /\ [][Next]_vars

\* The server is one thread that never blocks outside select, and a client
\* blocked in recv wakes up when its answer arrives.  Nothing obliges a
\* client to connect, to send or to end.
Fairness ==
  /\ WF_vars(Server)
  /\ \A c \in Clients : WF_vars(ReceiveResponse(c))

FairSpec == Spec /\ Fairness

-----------------------------------------------------------------------------
\* Properties.

\* Type invariant.
ServerTypeOK ==
  /\ UserManagerTypeOK
  /\ GroupManagerTypeOK
  /\ conn \in [Clients -> Connection]
  /\ acceptQueue \in Seq(Clients)
  /\ masterSet \subseteq {Listener} \cup Sockets
  /\ tempSet \subseteq {Listener} \cup Sockets
  /\ maxFd \in {Listener} \cup Sockets

\* The descriptor set is the truth about the kernel's table: every open
\* connection has a descriptor of its own, masterSet holds exactly these and
\* the listener, and maxFd is its largest element.  A descriptor missing
\* from masterSet or above maxFd would never be served again; one too many
\* would make select fail with EBADF, which ends the server.
DescriptorsTracked ==
  /\ masterSet = {Listener} \cup OpenFds
  /\ \A c1, c2 \in Accepted : conn[c1].fd = conn[c2].fd => c1 = c2
  /\ maxFd \in masterSet
  /\ \A fd \in masterSet : fd <= maxFd

\* What select reported still holds when the loop gets there: the accept and
\* the closings that come before it in the round leave it readable, so the
\* first recv of a packet never finds EAGAIN.  (The listener is the least
\* descriptor, so a round accepts before it closes anything, and a number that
\* was closed is given out in a later round.)
ReportedStillReadable ==
  \A fd \in Pending : fd \in masterSet /\ Readable(fd)

\* A group without members, whose address no leave can free, comes only from
\* a creation whose creator could not be added and who is told that it failed;
\* and a logout ends all such groups, whoever created them.
EmptyGroupsExplained ==
  [][ \A n \in DOMAIN Live' : Live'[n].members = {} =>
        /\ \A c \in Clients :
             ~(HandleLogoutRequest(c) /\ IsLoggedIn(userManager, conn[c].fd))
        /\ \/ n \in DOMAIN Live /\ Live[n].members = {}
           \/ \E c \in Clients :
                /\ Handling(c, "create") /\ Packet(c).group = n
                /\ Answer(c, <<[tag |-> "create", ok |-> FALSE]>>)
    ]_vars

\* Stop-and-wait, seen from the client: while it waits, its request is on
\* the way or its answer is, never both, never twice; otherwise nothing is
\* in flight.  The one exception: a successful create or join whose port no
\* longer fits five digits is never answered.
AnsweredExactlyOnce ==
  \A c \in Clients :
    Alive(c) =>
      LET inFlight == Len(conn[c].toServer) + Len(conn[c].toClient)
      IN  \/ inFlight = IF conn[c].awaiting THEN 1 ELSE 0
          \/ /\ conn[c].awaiting /\ inFlight = 0
             /\ groupManager.nextMulticastPort > LargestPortText + 1

\* A granted create or join is still true when its answer is read, whatever
\* other clients did meanwhile: the address and port in the packet are those
\* of a live group that has the connection's user as a member.
GrantStillHolds ==
  \A c \in Accepted : \A i \in DOMAIN conn[c].toClient :
    LET answer == conn[c].toClient[i]
    IN  answer.tag \in {"create", "join"} /\ answer.ok =>
          /\ IsLoggedIn(userManager, conn[c].fd)
          /\ \E n \in DOMAIN Live :
               /\ Live[n].multicastIp = answer.ip
               /\ Live[n].multicastPort = answer.port
               /\ UsernameBySocket(userManager, conn[c].fd)
                    \in Live[n].members

\* A login that ends while the connection stays open ends by the user's own
\* logout, after which the user is in no group.  (A login that ends with its
\* connection leaves the memberships behind: see the README.)
LogoutClearsMemberships ==
  [][ \A s \in DOMAIN SocketToUser \ DOMAIN SocketToUser' :
        s \in masterSet' =>
          \A n \in DOMAIN Live' : SocketToUser[s] \notin Live'[n].members
    ]_vars

\* The connection waits in the backlog of a server whose descriptor table
\* stays full for ever, of clients that neither exit nor die.
ShutOut(c) == conn[c].phase = "queued" /\ []TableFull

\* The request was a create or join whose port has outgrown its five digits.
CannotBeAnswered(c) ==
  /\ conn[c].awaiting /\ conn[c].toServer = <<>> /\ conn[c].toClient = <<>>
  /\ groupManager.nextMulticastPort > LargestPortText + 1

\* Every request is answered, unless its client ends first, in whatever order
\* others are served, accepts fail and descriptors come free: it is lost only
\* with the port that cannot be encoded, and kept waiting only as long as the
\* descriptor table stays full.
EveryRequestAnswered ==
  \A c \in Clients :
    conn[c].awaiting ~>
      ~conn[c].awaiting \/ CannotBeAnswered(c) \/ ShutOut(c)

\* The server notices every peer that went away and releases its descriptor;
\* one that died in the backlog, as soon as the table has room for it.
DeadConnectionsReleased ==
  \A c \in Clients :
    conn[c].end # "up" ~> conn[c].phase = "down" \/ ShutOut(c)

\* user_manager.c:19 calls m_socket_to_user the "currently logged in users":
\* every entry belongs to a connection the server has.
LoggedInUsersAreConnected == DOMAIN SocketToUser \subseteq OpenFds

\* htons of a port, as multicast.c binds and addresses it.
OnWire(port) == port % WirePorts

\* README.md:14: "Each chat group is assigned a unique multicast address and
\* multicast port": on the wire a port is 16 bits (htons in multicast.c).
PortsUniqueOnTheWire ==
  \A n1, n2 \in DOMAIN Live :
    OnWire(Live[n1].multicastPort) = OnWire(Live[n2].multicastPort)
      => n1 = n2
=============================================================================
