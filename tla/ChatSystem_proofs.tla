------------------------- MODULE ChatSystem_proofs -------------------------
(***************************************************************************)
(* The composed system runs the server of ChatServer, because its clients  *)
(* send less than that module's environment may, and the sessions of       *)
(* ChatSessions, because an answer opens and stops only what those can     *)
(* take.  So what is proved of either holds in the system, and the         *)
(* system's own invariants are proved on top of theirs.                    *)
(*                                                                         *)
(* SystemInv says what a client's menu, its connection, its table and the  *)
(* server's managers have in common at any moment: who is logged in and    *)
(* who is a member of what, up to the one request or answer that is on its *)
(* way.  PortInv says that live groups and chats, also those left behind,  *)
(* have a port for one group only.                                         *)
(*                                                                         *)
(* AddressesKnown: Addresses has every address the server can give.        *)
(***************************************************************************)
EXTENDS ChatSystem, ChatServer_proofs, ChatSessions_proofs

\* What a client does to its connection the environment of ChatServer does.
LEMMA StepsOfTheServer ==
  ASSUME [SystemNext]_systemVars
  PROVE  [Next]_vars
<1>1. CASE Serve
  BY <1>1 DEF Serve, Next
<1> SUFFICES ASSUME NEW c \in Clients,
                    Connect(c) \/ Choose(c) \/ Read(c) \/ Chat(c) \/ Die(c)
             PROVE  [Next]_vars
  BY <1>1 DEF SystemNext, systemVars, vars
<1>2. (\E request \in Request : SendRequest(c, request)) => Next
  BY DEF Next, Environment
<1>3. CASE Connect(c)
  BY <1>3 DEF Connect, Next, Environment
<1>4. CASE Choose(c)
  <2>1. CASE ChooseRegister(c)
    BY <1>2, <2>1 DEF ChooseRegister, Request, UserRequest
  <2>2. CASE ChooseLogin(c)
    BY <1>2, <2>2 DEF ChooseLogin, Request, UserRequest
  <2>3. CASE ChooseExit(c)
    BY <1>2, <2>3 DEF ChooseExit, Request, PlainRequest
  <2>4. CASE ChooseGroupRequest(c)
    BY <1>2, <2>4 DEF ChooseGroupRequest, Request
  <2>5. CASE ChooseLogout(c)
    BY <1>2, <2>5 DEF ChooseLogout, Request, PlainRequest
  <2> QED
    BY <1>4, <2>1, <2>2, <2>3, <2>4, <2>5 DEF Choose
<1>5. CASE Read(c)
  <2>1. ReceiveResponse(c)
    BY <1>5 DEF Read, GrantRead, LeaveRead, LogoutRead, ExitRead, LoginRead,
                OtherRead, Reads
  <2> QED
    BY <2>1 DEF Next, Environment
<1>6. CASE Chat(c)
  BY <1>6 DEF Chat
<1>7. CASE Die(c)
  BY <1>7 DEF Die, Next, Environment
<1> QED
  BY <1>3, <1>4, <1>5, <1>6, <1>7

\* The system implements the server with its most general clients
\* (server.c with any number of client.c).
THEOREM SystemImplementsServer == SystemSpec => Spec
<1>1. SystemInit => Init
  BY DEF SystemInit
<1> QED
  BY <1>1, StepsOfTheServer, PTL DEF SystemSpec, Spec

\* In the composed system, too, the descriptor sets match the connections,
\* no report of select is stale, no group shares its address or port or is
\* left without a member, every request has one answer, every grant holds
\* until it is read, and logging out leaves the groups.
THEOREM SystemKeepsServerInvariants ==
  SystemSpec => /\ [](/\ ServerTypeOK
                      /\ DescriptorsTracked
                      /\ ReportedStillReadable
                      /\ AddressPoolConserved
                      /\ PortsUnique
                      /\ AnsweredExactlyOnce
                      /\ GrantStillHolds)
                /\ LogoutClearsMemberships
                /\ EmptyGroupsExplained
                /\ SessionNeverStolen
                /\ AddressStable
  BY SystemImplementsServer, ServerTypeCorrect, DescriptorsAlwaysTracked,
     ReportsNeverStale, ManagersStayConsistent, NoUnexplainedEmptyGroup,
     RequestsAnsweredOnce, GrantsStillHold, LogoutsClearMemberships,
     ServerKeepsSessionsAndGroups, PTL

-----------------------------------------------------------------------------
\* What a client's menu, its connection and its table say together.

Got(k, tags) ==
  /\ k.toClient # <<>>
  /\ Head(k.toClient).tag \in tags
  /\ Head(k.toClient).ok = TRUE

Requested(k, tags) == k.toServer # <<>> /\ Head(k.toServer).tag \in tags

GroupTags == {"create", "join", "leave"}

\* What a menu asks for, and so what it gets an answer to.
MenuTags(menu) == CASE menu = "main" -> {"register", "login", "exit"}
                    [] menu = "group" -> GroupTags \cup {"logout"}
                    [] OTHER -> {}

LoggedInAs(um, fd, user) == IsLoggedIn(um, fd) /\ UsernameBySocket(um, fd) = user

\* The menu a client can be in.  One that starts a session waits for nothing
\* else.
MenuOK(k, cl, s) ==
  /\ cl.menu = "gone" => k.phase = "down" \/ k.end # "up"
  /\ cl.menu = "group" => k.phase = "open" /\ k.end = "up"
  /\ cl.menu # "group" => s.table = <<>>
  /\ s.starting # "no" => cl.menu = "group" /\ k.awaiting = FALSE

\* What is on the way was asked for in this menu, with what is remembered.
PacketOK(k, cl) ==
  k.end = "up" =>
    /\ k.toServer # <<>> => Head(k.toServer).tag \in MenuTags(cl.menu)
    /\ k.toClient # <<>> => Head(k.toClient).tag \in MenuTags(cl.menu)
    /\ Requested(k, GroupTags) => Head(k.toServer).group = cl.pending
    /\ Requested(k, {"login"}) => Head(k.toServer).user = cl.user

\* The server knows the client by the name it uses, until it is told that it
\* logged out and from when it is told that it logged in.
LoginOK(k, cl, um) ==
  /\ cl.menu = "group" /\ ~Got(k, {"logout"}) => LoggedInAs(um, k.fd, cl.user)
  /\ Got(k, {"login"}) => k.phase = "open" /\ LoggedInAs(um, k.fd, cl.user)

\* The sessions in the table are memberships, except one it is told to have
\* left.
TableOK(k, cl, s, gm) ==
  cl.menu = "group" /\ ~Got(k, {"logout"}) =>
    \A i \in DOMAIN s.table :
      \/ Got(k, {"leave"}) /\ s.table[i].group = cl.pending
      \/ Holds(gm, cl.user, s.table[i].group, s.table[i].address)

\* A grant is of the pending group, of which the table knows nothing yet.
GrantOK(k, cl, s, gm) ==
  Got(k, {"create", "join"}) =>
    /\ Holds(gm, cl.user, cl.pending,
             <<Head(k.toClient).ip, Head(k.toClient).port>>)
    /\ Entries(s, cl.pending) = {}

ClientInv(k, cl, s, um, gm) ==
  /\ MenuOK(k, cl, s)
  /\ PacketOK(k, cl)
  /\ LoginOK(k, cl, um)
  /\ TableOK(k, cl, s, gm)
  /\ GrantOK(k, cl, s, gm)

ClientRecord == [menu : {"main", "group", "over", "gone"},
                 user : Users \cup {NoName}, pending : GroupNames \cup {NoName}]

SystemInv ==
  /\ ServerInv /\ AnsweredInv /\ UnreadInv
  /\ ChatInv
  /\ client \in [Clients -> ClientRecord]
  /\ \A c \in Clients :
       ClientInv(conn[c], client[c], sessions[c], userManager, groupManager)

-----------------------------------------------------------------------------
\* The ways a connection changes, and that they keep what a client's state
\* says together.

\* r is sent, the answer is read, the request is answered with rs.
Sent(k, k2, r) ==
  /\ k2.phase = k.phase /\ k2.fd = k.fd /\ k2.end = k.end
  /\ k.toClient = <<>> /\ k.awaiting = FALSE
  /\ k2.toServer # <<>> /\ Head(k2.toServer) = r
  /\ k2.toClient = <<>>

AnswerRead(k, k2) ==
  /\ k2.phase = k.phase /\ k2.fd = k.fd /\ k2.end = k.end
  /\ k.toClient # <<>> /\ k.awaiting = TRUE
  /\ k2.toServer = <<>> /\ k2.toClient = <<>>

Replied(k, k2, rs) ==
  /\ k2.phase = k.phase /\ k2.fd = k.fd /\ k2.end = k.end
  /\ k.toServer # <<>> /\ k.toClient = <<>> /\ k.awaiting = TRUE
  /\ k2.toServer = <<>> /\ k2.toClient = rs

LEMMA SendStep ==
  ASSUME ServerInv, AnsweredInv, NEW c \in Clients, NEW r \in Request,
         SendRequest(c, r)
  PROVE  Sent(conn[c], conn'[c], r)
<1>1. /\ conn[c] \in Connection
      /\ InFlightOK(conn[c], PortsOutgrown)
  BY DEF ServerInv, NetInv, AnsweredInv
<1>2. /\ conn[c].awaiting = FALSE /\ conn[c].end = "up"
      /\ conn'[c] = WithRequest(conn[c], r)
  BY <1>1 DEF SendRequest, Alive, Connection, ServerInv, NetInv
<1>3. conn[c].toServer = <<>> /\ conn[c].toClient = <<>>
  BY <1>1, <1>2, OneInFlight
<1>4. /\ WithRequest(conn[c], r).toServer = Append(conn[c].toServer, r)
      /\ WithRequest(conn[c], r).toClient = conn[c].toClient
  BY <1>1, Channels
<1>5. Append(<<>>, r) # <<>> /\ Head(Append(<<>>, r)) = r
  OBVIOUS
<1> QED
  BY <1>1, <1>2, <1>3, <1>4, <1>5, WithRequestFields DEF Sent

LEMMA ReceiveStep ==
  ASSUME ServerInv, AnsweredInv, NEW c \in Clients, ReceiveResponse(c)
  PROVE  AnswerRead(conn[c], conn'[c]) /\ conn[c].end = "up" /\ conn[c].toServer = <<>>
<1>1. /\ conn[c] \in Connection
      /\ InFlightOK(conn[c], PortsOutgrown)
  BY DEF ServerInv, NetInv, AnsweredInv
<1>2. /\ conn[c].toClient # <<>> /\ conn[c].end = "up"
      /\ conn'[c] = WithoutResponse(conn[c])
  BY <1>1 DEF ReceiveResponse, Alive, ServerInv, NetInv
<1>3. /\ conn[c].awaiting \in BOOLEAN
      /\ conn[c].toServer # <<>> => conn[c].toClient = <<>>
      /\ conn[c].awaiting = FALSE => conn[c].toClient = <<>>
      /\ Tail(conn[c].toClient) = <<>>
  BY <1>1, <1>2, OneInFlight DEF Connection
<1>4. conn[c].toServer = <<>> /\ conn[c].awaiting = TRUE
  BY <1>2, <1>3
<1>5. /\ WithoutResponse(conn[c]).toClient = Tail(conn[c].toClient)
      /\ WithoutResponse(conn[c]).toServer = conn[c].toServer
  BY <1>1, Channels
<1> QED
  BY <1>1, <1>2, <1>3, <1>4, <1>5, WithoutResponseFields DEF AnswerRead

\* A request is sent from the menu that offers it.
LEMMA SentKeeps ==
  ASSUME NEW k, NEW k2, NEW r, NEW cl, NEW cl2, NEW s, NEW um, NEW gm,
         ClientInv(k, cl, s, um, gm), Sent(k, k2, r), s.starting = "no",
         cl2.menu = cl.menu, r.tag \in MenuTags(cl.menu),
         r.tag \in GroupTags => cl2.pending = r.group,
         r.tag = "login" => cl2.user = r.user,
         cl.menu = "group" => cl2.user = cl.user
  PROVE  ClientInv(k2, cl2, s, um, gm)
<1>1. MenuOK(k2, cl2, s)
  BY DEF ClientInv, MenuOK, Sent
<1>2. PacketOK(k2, cl2)
  BY DEF PacketOK, Sent, Requested
<1>3. \A tags : ~Got(k, tags) /\ ~Got(k2, tags)
  BY DEF Got, Sent
<1>4. LoginOK(k2, cl2, um)
  BY <1>3 DEF ClientInv, LoginOK, Sent
<1>5. TableOK(k2, cl2, s, gm)
  BY <1>3 DEF ClientInv, TableOK
<1>6. GrantOK(k2, cl2, s, gm)
  BY <1>3 DEF GrantOK
<1> QED
  BY <1>1, <1>2, <1>4, <1>5, <1>6 DEF ClientInv

-----------------------------------------------------------------------------
\* What the operations on the sessions do to the groups and addresses they
\* hold.

\* The same groups at the same places of the table.
SameEntries(s, t) ==
  /\ DOMAIN t.table = DOMAIN s.table
  /\ \A i \in DOMAIN s.table : /\ t.table[i].group = s.table[i].group
                               /\ t.table[i].address = s.table[i].address
  /\ s.table = <<>> => t.table = <<>>

InTable(s, group, address) ==
  \E i \in DOMAIN s.table : s.table[i].group = group /\ s.table[i].address = address

\* The table, or a chat process, has the group with this address.
Mentions(s, group, address) ==
  \/ InTable(s, group, address)
  \/ \E pid \in Pids : /\ Running(s, pid)
                       /\ s.processes[pid].group = group
                       /\ s.processes[pid].address = address

LEMMA LaunchedEffect ==
  ASSUME NEW s, SessionInv(s), NEW role, NEW pid \in Pids, s.starting = role,
         role \in Roles
  PROVE  LET t == Launched(s, role, pid)
         IN  /\ SameEntries(s, t)
             /\ \A g, a : Mentions(t, g, a) => Mentions(s, g, a)
<1> DEFINE t == Launched(s, role, pid)
           new == [role |-> role, group |-> Newest(s).group,
                   address |-> Newest(s).address, reported |-> FALSE,
                   orphan |-> FALSE]
           n == Len(s.table)
<1>1. /\ s \in SessionRecord /\ s.table # <<>>
      /\ s.processes \in [Pids -> Process \cup {NoProcess}]
      /\ n \in DOMAIN s.table
  BY RecordFacts DEF SessionInv, TableInv, Roles
<1>2. t.table = s.table /\ t.processes = [s.processes EXCEPT ![pid] = new]
  BY <1>1 DEF Launched, SessionRecord
<1>3. /\ t.processes[pid] = new
      /\ \A q \in Pids : q # pid => t.processes[q] = s.processes[q]
  BY <1>1, <1>2
<1>4. /\ new.group = s.table[n].group /\ new.address = s.table[n].address
  BY DEF Newest
<1> HIDE DEF t, new, n
<1>5. SameEntries(s, t)
  BY <1>2 DEF SameEntries
<1>6. ASSUME NEW g, NEW a, Mentions(t, g, a)
      PROVE  Mentions(s, g, a)
  BY <1>1, <1>2, <1>3, <1>4, <1>6 DEF Mentions, InTable, Running
<1> QED
  BY <1>5, <1>6 DEF t

LEMMA ReceivedEffect ==
  ASSUME NEW s, SessionInv(s), NEW role, NEW pid \in Pids, s.table # <<>>
  PROVE  LET t == PidReceived(s, role, pid)
         IN  /\ SameEntries(s, t)
             /\ \A g, a : Mentions(t, g, a) => Mentions(s, g, a)
<1> DEFINE t == PidReceived(s, role, pid)
           n == Len(s.table)
           e == IF role = "receiver" THEN [s.table[n] EXCEPT !.receiver = pid]
                                     ELSE [s.table[n] EXCEPT !.sender = pid]
           table == [s.table EXCEPT ![n] = e]
<1>1. /\ s \in SessionRecord /\ n \in DOMAIN s.table /\ s.table[n] \in Session
  BY RecordFacts DEF SessionInv
<1>2. e.group = s.table[n].group /\ e.address = s.table[n].address
  BY <1>1 DEF Session
<1>3. t.table = table /\ t.processes = s.processes
  BY <1>1 DEF PidReceived, SessionRecord
<1> HIDE DEF t, e
<1>4. SameEntries(s, t)
  BY <1>2, <1>3 DEF SameEntries
<1>5. ASSUME NEW g, NEW a, Mentions(t, g, a)
      PROVE  Mentions(s, g, a)
  BY <1>3, <1>4, <1>5 DEF Mentions, InTable, Running, SameEntries
<1> QED
  BY <1>4, <1>5 DEF t

\* Processes that end or change in what they know of their client.
LEMMA ProcessesEffect ==
  ASSUME NEW s, NEW t, t.table = s.table,
         \A q \in Pids : Running(t, q) =>
           /\ Running(s, q)
           /\ t.processes[q].group = s.processes[q].group
           /\ t.processes[q].address = s.processes[q].address
  PROVE  /\ SameEntries(s, t)
         /\ \A g, a : Mentions(t, g, a) => Mentions(s, g, a)
BY DEF SameEntries, Mentions, InTable

LEMMA ReportedEffect ==
  ASSUME NEW s \in SessionRecord, NEW pid \in Pids, Running(s, pid)
  PROVE  LET t == Reported(s, pid)
         IN  /\ t.starting = s.starting
             /\ SameEntries(s, t)
             /\ \A g, a : Mentions(t, g, a) => Mentions(s, g, a)
<1> DEFINE t == Reported(s, pid)
           new == [s.processes[pid] EXCEPT !.reported = TRUE]
<1>1. /\ s.processes \in [Pids -> Process \cup {NoProcess}]
      /\ s.processes[pid] \in Process
  BY RecordFacts
<1>2. new.group = s.processes[pid].group /\ new.address = s.processes[pid].address
  BY <1>1 DEF Process
<1>3. /\ t.table = s.table /\ t.starting = s.starting
      /\ t.processes = [s.processes EXCEPT ![pid] = new]
  BY DEF Reported, SessionRecord
<1>4. /\ t.processes[pid] = new
      /\ \A q \in Pids : q # pid => t.processes[q] = s.processes[q]
  BY <1>1, <1>3
<1> HIDE DEF t, new
<1>5. \A q \in Pids : Running(t, q) =>
        /\ Running(s, q)
        /\ t.processes[q].group = s.processes[q].group
        /\ t.processes[q].address = s.processes[q].address
  BY <1>2, <1>4 DEF Running
<1> QED
  BY <1>3, <1>5, ProcessesEffect DEF t

LEMMA EndedEffect ==
  ASSUME NEW s \in SessionRecord, NEW pid \in Pids
  PROVE  LET t == ProcessEnded(s, pid)
         IN  /\ t.starting = s.starting
             /\ SameEntries(s, t)
             /\ \A g, a : Mentions(t, g, a) => Mentions(s, g, a)
<1> DEFINE t == ProcessEnded(s, pid)
<1>1. s.processes \in [Pids -> Process \cup {NoProcess}]
  BY RecordFacts
<1>2. /\ t.table = s.table /\ t.starting = s.starting
      /\ t.processes = [s.processes EXCEPT ![pid] = NoProcess]
  BY DEF ProcessEnded, SessionRecord
<1>3. \A q \in Pids : t.processes[q] \in {s.processes[q], NoProcess}
  BY <1>1, <1>2
<1> HIDE DEF t
<1>4. \A q \in Pids : Running(t, q) => /\ Running(s, q)
                                      /\ t.processes[q] = s.processes[q]
  BY <1>3 DEF Running
<1> QED
  BY <1>2, <1>4, ProcessesEffect DEF t

\* The steps of a start and of the processes open and close no session.
LEMMA ChatStepEffect ==
  ASSUME ChatInv, NEW c \in Clients, ChatStep(c)
  PROVE  /\ SameEntries(sessions[c], sessions'[c])
         /\ sessions'[c].starting # "no" => sessions[c].starting # "no"
         /\ \A g, a : Mentions(sessions'[c], g, a) => Mentions(sessions[c], g, a)
         /\ \A d \in Clients : d # c => sessions'[d] = sessions[d]
<1> DEFINE s == sessions[c]
<1>1. SessionInv(s) /\ s \in SessionRecord
  BY DEF ChatInv, SessionInv
<1>2. ASSUME NEW t, SetSessions(c, t)
      PROVE  sessions'[c] = t /\ \A d \in Clients : d # c => sessions'[d] = sessions[d]
  BY <1>2 DEF SetSessions, ChatInv
<1>3. ASSUME NEW role \in Roles, Launch(c, role)
      PROVE  /\ SameEntries(s, sessions'[c])
             /\ s.starting # "no"
             /\ \A g, a : Mentions(sessions'[c], g, a) => Mentions(s, g, a)
             /\ \A d \in Clients : d # c => sessions'[d] = sessions[d]
  <2>1. s.starting = role /\ s.starting # "no"
    BY <1>3 DEF Launch, Roles
  <2>2. ASSUME NEW pid \in Pids, SetSessions(c, Launched(s, role, pid))
        PROVE  /\ SameEntries(s, sessions'[c])
               /\ \A g, a : Mentions(sessions'[c], g, a) => Mentions(s, g, a)
               /\ \A d \in Clients : d # c => sessions'[d] = sessions[d]
    BY <1>1, <1>2, <2>1, <2>2, LaunchedEffect
  <2>3. ASSUME SetSessions(c, NotLaunched(s, role))
        PROVE  /\ SameEntries(s, sessions'[c])
               /\ \A g, a : Mentions(sessions'[c], g, a) => Mentions(s, g, a)
               /\ \A d \in Clients : d # c => sessions'[d] = sessions[d]
    <3> DEFINE t == NotLaunched(s, role)
    <3>1. t.table = s.table /\ t.processes = s.processes
      BY <1>1 DEF NotLaunched, SessionRecord
    <3>2. sessions'[c] = t /\ \A d \in Clients : d # c => sessions'[d] = sessions[d]
      BY <1>2, <2>3
    <3> HIDE DEF t
    <3> QED
      BY <3>1, <3>2, ProcessesEffect DEF Running
  <2> QED
    BY <1>3, <2>1, <2>2, <2>3 DEF Launch
<1>4. ASSUME NEW role \in Roles, ReceivePid(c, role)
      PROVE  /\ SameEntries(s, sessions'[c])
             /\ s.starting # "no"
             /\ \A g, a : Mentions(sessions'[c], g, a) => Mentions(s, g, a)
             /\ \A d \in Clients : d # c => sessions'[d] = sessions[d]
  <2>1. PICK pid \in Pids : SetSessions(c, PidReceived(s, role, pid))
    BY <1>4 DEF ReceivePid
  <2>2. s.starting # "no" /\ s.table # <<>>
    BY <1>1, <1>4 DEF ReceivePid, WaitsFor, SessionInv, TableInv
  <2> QED
    BY <1>1, <1>2, <2>1, <2>2, ReceivedEffect
<1>5. ASSUME NEW pid \in Pids, SendPid(c, pid)
      PROVE  /\ SameEntries(s, sessions'[c])
             /\ sessions'[c].starting = s.starting
             /\ \A g, a : Mentions(sessions'[c], g, a) => Mentions(s, g, a)
             /\ \A d \in Clients : d # c => sessions'[d] = sessions[d]
  BY <1>1, <1>2, <1>5, ReportedEffect DEF SendPid
<1>6. ASSUME NEW pid \in Pids, ProcessEnds(c, pid)
      PROVE  /\ SameEntries(s, sessions'[c])
             /\ sessions'[c].starting = s.starting
             /\ \A g, a : Mentions(sessions'[c], g, a) => Mentions(s, g, a)
             /\ \A d \in Clients : d # c => sessions'[d] = sessions[d]
  BY <1>1, <1>2, <1>6, EndedEffect DEF ProcessEnds
<1> QED
  BY <1>3, <1>4, <1>5, <1>6 DEF ChatStep, Starting

\* A stop takes the group's entry out of the table.
LEMMA StopEffect ==
  ASSUME NEW s, SessionInv(s), NEW group
  PROVE  LET t == StopChatSession(s, group)
         IN  /\ t.starting = s.starting
             /\ \A x \in DOMAIN t.table : \E j \in DOMAIN s.table :
                  t.table[x] = s.table[j] /\ s.table[j].group # group
             /\ \A g, a : Mentions(t, g, a) => Mentions(s, g, a)
<1>1. CASE Entries(s, group) = {}
  BY <1>1 DEF StopChatSession, Entries
<1>2. CASE Entries(s, group) # {}
  <2>1. /\ s \in SessionRecord /\ s.table \in Seq(Session) /\ Len(s.table) \in Nat
        /\ DOMAIN s.table = 1..Len(s.table)
        /\ s.processes \in [Pids -> Process \cup {NoProcess}]
        /\ \A i, j \in DOMAIN s.table : s.table[i].group = s.table[j].group => i = j
    BY RecordFacts DEF SessionInv, TableInv
  <2>2. PICK i \in DOMAIN s.table : Entries(s, group) = {i}
    BY <1>2, <2>1 DEF Entries
  <2> DEFINE n == Len(s.table)
             table == RemoveChatSession(s.table, i)
             pids == {s.table[i].receiver, s.table[i].sender}
             processes == Killed(s.processes, pids)
             t == StopChatSession(s, group)
  <2>3. i = CHOOSE x \in Entries(s, group) : \A other \in Entries(s, group) : x <= other
    BY <2>1, <2>2
  <2>4. t = [s EXCEPT !.processes = processes, !.table = table]
    BY <1>2, <2>3 DEF StopChatSession
  <2>5. t.table = table /\ t.processes = processes /\ t.starting = s.starting
    BY <2>1, <2>4 DEF SessionRecord
  <2>6. /\ table \in Seq(Session) /\ Len(table) = n - 1
        /\ \A j \in DOMAIN table : table[j] = s.table[IF j = i THEN n ELSE j]
    <3> DEFINE old == s.table
    <3>1. old \in Seq(Session) /\ i \in DOMAIN old
      BY <2>1
    <3> HIDE DEF old, table
    <3>2. table = RemoveChatSession(old, i)
      BY DEF table, old
    <3>3. /\ table \in Seq(Session) /\ Len(table) = Len(old) - 1
          /\ \A j \in DOMAIN table : table[j] = old[IF j = i THEN Len(old) ELSE j]
      BY <3>1, <3>2, TableAfterRemove
    <3> QED
      BY <3>3 DEF old
  <2>7. DOMAIN table = 1..n - 1
    BY <2>6, LenProperties
  <2>8. \A q \in Pids : processes[q] \in {s.processes[q], NoProcess}
    BY <2>1 DEF Killed
  <2> HIDE DEF table, processes, t
  <2>9. ASSUME NEW x \in DOMAIN table
        PROVE  \E j \in DOMAIN s.table : table[x] = s.table[j] /\ s.table[j].group # group
    <3> DEFINE j == IF x = i THEN n ELSE x
    <3>1. j \in DOMAIN s.table /\ j # i /\ table[x] = s.table[j]
      BY <2>1, <2>6, <2>7
    <3>2. s.table[j].group # group
      BY <2>2, <3>1 DEF Entries
    <3> QED
      BY <3>1, <3>2
  <2>10. \A q \in Pids : Running(t, q) => Running(s, q) /\ t.processes[q] = s.processes[q]
    BY <2>5, <2>8 DEF Running
  <2>11. ASSUME NEW g, NEW a, Mentions(t, g, a)
         PROVE  Mentions(s, g, a)
    BY <2>5, <2>9, <2>10, <2>11 DEF Mentions, InTable
  <2> QED
    BY <2>5, <2>9, <2>11 DEF t
<1> QED
  BY <1>1, <1>2

LEMMA StopAllEffect ==
  ASSUME NEW s \in SessionRecord
  PROVE  LET t == StopAllChatSessions(s)
         IN  /\ t.starting = s.starting /\ t.table = <<>>
             /\ \A g, a : Mentions(t, g, a) => Mentions(s, g, a)
<1> DEFINE pids == {s.table[i].receiver : i \in DOMAIN s.table}
                     \cup {s.table[i].sender : i \in DOMAIN s.table}
           t == StopAllChatSessions(s)
<1>1. s.processes \in [Pids -> Process \cup {NoProcess}]
  BY RecordFacts
<1>2. /\ t.starting = s.starting /\ t.table = <<>>
      /\ t.processes = Killed(s.processes, pids)
  BY DEF StopAllChatSessions, SessionRecord
<1> HIDE DEF t, pids
<1>3. \A q \in Pids : t.processes[q] \in {s.processes[q], NoProcess}
  BY <1>1, <1>2 DEF Killed
<1>4. \A q \in Pids : Running(t, q) => Running(s, q) /\ t.processes[q] = s.processes[q]
  BY <1>3 DEF Running
<1>5. ASSUME NEW g, NEW a, Mentions(t, g, a)
      PROVE  Mentions(s, g, a)
  BY <1>2, <1>4, <1>5 DEF Mentions, InTable
<1> QED
  BY <1>2, <1>5 DEF t

LEMMA GoneEffect ==
  ASSUME NEW s \in SessionRecord
  PROVE  LET t == ClientGone(s)
         IN  /\ t.starting = "no" /\ t.table = <<>>
             /\ \A g, a : Mentions(t, g, a) => Mentions(s, g, a)
<1> DEFINE t == ClientGone(s)
<1>1. s.processes \in [Pids -> Process \cup {NoProcess}]
  BY RecordFacts
<1>2. /\ t.starting = "no" /\ t.table = <<>>
      /\ t.processes = [pid \in Pids |->
           IF s.processes[pid] = NoProcess THEN NoProcess
             ELSE [s.processes[pid] EXCEPT !.orphan = TRUE]]
  BY DEF ClientGone, SessionRecord
<1> HIDE DEF t
<1>3. ASSUME NEW q \in Pids, Running(t, q)
      PROVE  /\ Running(s, q)
             /\ t.processes[q].group = s.processes[q].group
             /\ t.processes[q].address = s.processes[q].address
  <2>1. s.processes[q] # NoProcess /\ s.processes[q] \in Process
    BY <1>1, <1>2, <1>3 DEF Running
  <2>2. t.processes[q] = [s.processes[q] EXCEPT !.orphan = TRUE]
    BY <1>2, <2>1
  <2> QED
    BY <2>1, <2>2 DEF Running, Process
<1>4. ASSUME NEW g, NEW a, Mentions(t, g, a)
      PROVE  Mentions(s, g, a)
  BY <1>2, <1>3, <1>4 DEF Mentions, InTable
<1> QED
  BY <1>2, <1>4 DEF t

LEMMA AddedEffect ==
  ASSUME NEW s \in SessionRecord, NEW group \in GroupNames, NEW address \in Addresses
  PROVE  LET t == Added(s, group, address)
         IN  /\ \A x \in DOMAIN t.table :
                  \/ x \in DOMAIN s.table /\ t.table[x] = s.table[x]
                  \/ t.table[x].group = group /\ t.table[x].address = address
             /\ \A g, a : Mentions(t, g, a) =>
                  Mentions(s, g, a) \/ (g = group /\ a = address)
<1> DEFINE t == Added(s, group, address)
           e == NewSession(group, address)
<1>1. e \in Session /\ e.group = group /\ e.address = address
  BY DEF NewSession, Session
<1>2. t.table = Append(s.table, e) /\ t.processes = s.processes
  BY DEF Added, SessionRecord
<1>3. s.table \in Seq(Session) /\ Len(s.table) \in Nat /\ DOMAIN s.table = 1..Len(s.table)
  BY RecordFacts
<1> HIDE DEF t, e
<1>4. ASSUME NEW x \in DOMAIN t.table
      PROVE  \/ x \in DOMAIN s.table /\ t.table[x] = s.table[x]
             \/ t.table[x].group = group /\ t.table[x].address = address
  BY <1>1, <1>2, <1>3, AppendProperties
<1>5. ASSUME NEW g, NEW a, Mentions(t, g, a)
      PROVE  Mentions(s, g, a) \/ (g = group /\ a = address)
  BY <1>2, <1>4, <1>5 DEF Mentions, InTable, Running
<1> QED
  BY <1>4, <1>5 DEF t

-----------------------------------------------------------------------------
\* The client's own steps.

\* The server gives addresses of its pool and ports of its counter.
AddressesKnown == MulticastIps \X Nat \subseteq Addresses

LEMMA HeldAddress ==
  ASSUME AddressesKnown, NEW gm, ManagerInv(gm), NEW user, NEW name, NEW address,
         Holds(gm, user, name, address)
  PROVE  name \in GroupNames /\ address \in Addresses
<1>1. /\ name \in DOMAIN gm.groups /\ gm.groups[name] \in Group
      /\ address = <<gm.groups[name].multicastIp, gm.groups[name].multicastPort>>
  BY LiveGroup DEF Holds
<1>2. address \in MulticastIps \X Nat
  BY <1>1 DEF Group
<1>3. DOMAIN gm.groups \subseteq GroupNames
  BY DEF ManagerInv, ManagerTypeOK
<1> QED
  BY <1>1, <1>2, <1>3 DEF AddressesKnown

\* After an answer was read nothing is on the way: what is left to show.
LEMMA ReadKeeps ==
  ASSUME NEW k, NEW k2, NEW cl2, NEW t, NEW um, NEW gm, AnswerRead(k, k2),
         MenuOK(k2, cl2, t),
         cl2.menu = "group" =>
           /\ LoggedInAs(um, k.fd, cl2.user)
           /\ \A i \in DOMAIN t.table :
                Holds(gm, cl2.user, t.table[i].group, t.table[i].address)
  PROVE  ClientInv(k2, cl2, t, um, gm)
<1>1. /\ k2.toServer = <<>> /\ k2.toClient = <<>> /\ k2.fd = k.fd
  BY DEF AnswerRead
<1>2. PacketOK(k2, cl2)
  BY <1>1 DEF PacketOK, Requested
<1>3. \A tags : ~Got(k2, tags)
  BY <1>1 DEF Got
<1>4. LoginOK(k2, cl2, um)
  BY <1>1, <1>3 DEF LoginOK
<1>5. TableOK(k2, cl2, t, gm)
  BY DEF TableOK
<1>6. GrantOK(k2, cl2, t, gm)
  BY <1>3 DEF GrantOK
<1> QED
  BY <1>2, <1>4, <1>5, <1>6 DEF ClientInv

\* What a client that reads knows, by the tag of its answer.
LEMMA AnswerMeans ==
  ASSUME NEW k, NEW cl, NEW s, NEW um, NEW gm, ClientInv(k, cl, s, um, gm),
         k.end = "up", k.toClient # <<>>
  PROVE  LET tag == Head(k.toClient).tag
         IN  /\ tag \in {"register", "login", "exit"} => cl.menu = "main"
             /\ tag \in GroupTags \cup {"logout"} => cl.menu = "group"
             /\ /\ tag \in GroupTags \/ Head(k.toClient).ok = FALSE
                /\ cl.menu = "group"
                =>
                    /\ LoggedInAs(um, k.fd, cl.user)
                    /\ \A i \in DOMAIN s.table :
                         \/ /\ tag = "leave" /\ Head(k.toClient).ok = TRUE
                            /\ s.table[i].group = cl.pending
                         \/ Holds(gm, cl.user, s.table[i].group, s.table[i].address)
<1> DEFINE tag == Head(k.toClient).tag
<1>1. tag \in MenuTags(cl.menu)
  BY DEF ClientInv, PacketOK
<1>2. /\ tag \in {"register", "login", "exit"} => cl.menu = "main"
      /\ tag \in GroupTags \cup {"logout"} => cl.menu = "group"
  BY <1>1 DEF MenuTags, GroupTags
<1>3. tag \in GroupTags \/ Head(k.toClient).ok = FALSE => ~Got(k, {"logout"})
  BY DEF Got, GroupTags
<1>4. Got(k, {"leave"}) => tag = "leave" /\ Head(k.toClient).ok = TRUE
  BY DEF Got
<1>5. ASSUME ~Got(k, {"logout"}), cl.menu = "group"
      PROVE  /\ LoggedInAs(um, k.fd, cl.user)
             /\ \A i \in DOMAIN s.table :
                  \/ /\ tag = "leave" /\ Head(k.toClient).ok = TRUE
                     /\ s.table[i].group = cl.pending
                  \/ Holds(gm, cl.user, s.table[i].group, s.table[i].address)
  BY <1>4, <1>5 DEF ClientInv, LoginOK, TableOK
<1> HIDE DEF tag
<1>6. ASSUME tag \in GroupTags \/ Head(k.toClient).ok = FALSE, cl.menu = "group"
      PROVE  /\ LoggedInAs(um, k.fd, cl.user)
             /\ \A i \in DOMAIN s.table :
                  \/ /\ tag = "leave" /\ Head(k.toClient).ok = TRUE
                     /\ s.table[i].group = cl.pending
                  \/ Holds(gm, cl.user, s.table[i].group, s.table[i].address)
  BY <1>3, <1>5, <1>6 DEF tag
<1> QED
  BY <1>2, <1>6 DEF tag

\* What reading does to the menu condition.
LEMMA MenuAfterRead ==
  ASSUME NEW k, NEW k2, NEW cl, NEW cl2, NEW s, NEW t, AnswerRead(k, k2),
         MenuOK(k, cl, s), k.end = "up", k2.awaiting = FALSE,
         cl.menu \in {"main", "group"},
         \/ /\ cl2 = cl /\ cl.menu = "group"
         \/ /\ cl2 = cl /\ t = s
         \/ /\ cl2.menu \in {"main", "over"} /\ t.table = <<>> /\ t.starting = "no"
         \/ /\ cl2.menu = "group" /\ k.phase = "open" /\ t = s
  PROVE  MenuOK(k2, cl2, t)
BY DEF MenuOK, AnswerRead

LEMMA ReadStep ==
  ASSUME AddressesKnown, SystemInv, NEW c \in Clients, Read(c)
  PROVE  /\ ClientInv(conn'[c], client'[c], sessions'[c], userManager', groupManager')
         /\ \A d \in Clients : d # c => /\ client'[d] = client[d]
                                        /\ sessions'[d] = sessions[d]
         /\ client' \in [Clients -> ClientRecord]
         /\ ChatInv'
<1> DEFINE k == conn[c]
           k2 == conn'[c]
           cl == client[c]
           s == sessions[c]
           um == userManager
           gm == groupManager
           answer == Head(conn[c].toClient)
<1>1. ReceiveResponse(c)
  BY DEF Read, GrantRead, LeaveRead, LogoutRead, ExitRead, LoginRead, OtherRead, Reads
<1>2. /\ AnswerRead(k, k2) /\ k.end = "up" /\ k.toServer = <<>>
      /\ k.toClient # <<>> /\ k.awaiting = TRUE
  BY <1>1, ReceiveStep DEF SystemInv, AnswerRead
<1>3. /\ UNCHANGED <<userManager, groupManager>>
      /\ k \in Connection /\ k2 = WithoutResponse(k)
  BY <1>1 DEF ReceiveResponse, SystemInv, ServerInv, NetInv
<1>4. k2.awaiting = FALSE
  BY <1>3 DEF WithoutResponse, Connection
<1>5. /\ ClientInv(k, cl, s, um, gm)
      /\ SessionInv(s) /\ s \in SessionRecord /\ cl \in ClientRecord
      /\ ManagerInv(gm)
  BY DEF SystemInv, ServerInv, ChatInv, SessionInv
<1>6. s.starting = "no" /\ Idle(c)
  BY <1>2, <1>5 DEF ClientInv, MenuOK, Idle
<1>7. /\ answer.tag \in {"register", "login", "exit"} => cl.menu = "main"
      /\ answer.tag \in GroupTags \cup {"logout"} => cl.menu = "group"
      /\ /\ answer.tag \in GroupTags \/ answer.ok = FALSE
         /\ cl.menu = "group"
         =>
             /\ LoggedInAs(um, k.fd, cl.user)
             /\ \A i \in DOMAIN s.table :
                  \/ /\ answer.tag = "leave" /\ answer.ok = TRUE
                     /\ s.table[i].group = cl.pending
                  \/ Holds(gm, cl.user, s.table[i].group, s.table[i].address)
  BY <1>2, <1>5, AnswerMeans
<1>8. ASSUME NEW t, SetSessions(c, t), SessionInv(t)
      PROVE  /\ sessions'[c] = t /\ ChatInv'
             /\ \A d \in Clients : d # c => sessions'[d] = sessions[d]
  BY <1>8, SetKeeps DEF SetSessions, SystemInv, ChatInv
<1>9. ASSUME UNCHANGED chatVars
      PROVE  sessions' = sessions /\ ChatInv'
  BY <1>9 DEF chatVars, SystemInv, ChatInv
<1>10. client \in [Clients -> ClientRecord]
  BY DEF SystemInv
<1>11. MenuOK(k, cl, s)
  BY <1>5 DEF ClientInv
<1> HIDE DEF k, k2, cl, s, um, gm, answer
<1>12. CASE GrantRead(c)
  <2>1. /\ Got(k, {"create", "join"}) /\ answer.tag \in {"create", "join"}
        /\ UNCHANGED client
        /\ StartChatSession(c, cl.pending, <<answer.ip, answer.port>>)
    BY <1>2, <1>12 DEF GrantRead, Reads, Got, k, answer, cl
  <2>2. /\ cl.menu = "group" /\ answer.tag # "leave" /\ answer.tag \in GroupTags
    BY <1>7, <2>1 DEF GroupTags
  <2>3. /\ LoggedInAs(um, k.fd, cl.user)
        /\ \A i \in DOMAIN s.table :
             Holds(gm, cl.user, s.table[i].group, s.table[i].address)
    BY <1>7, <2>2
  <2> DEFINE address == <<answer.ip, answer.port>>
  <2>4. /\ Holds(gm, cl.user, cl.pending, address)
        /\ Entries(s, cl.pending) = {}
    BY <1>5, <2>1 DEF ClientInv, GrantOK, answer, k
  <2>5. cl.pending \in GroupNames /\ address \in Addresses
    BY <1>5, <2>4, HeldAddress
  <2>6. ChatInv'
    BY <1>6, <2>1, <2>5, StartKeeps DEF Start, SystemInv
  <2>7. /\ \A d \in Clients : d # c => sessions'[d] = sessions[d]
        /\ \/ sessions'[c] = s
           \/ sessions'[c] = Added(s, cl.pending, address)
    BY <2>1 DEF StartChatSession, chatVars, SystemInv, ChatInv, s
  <2>8. \A i \in DOMAIN sessions'[c].table :
          Holds(gm, cl.user, sessions'[c].table[i].group, sessions'[c].table[i].address)
    <3>1. CASE sessions'[c] = s
      BY <2>3, <3>1
    <3>2. CASE sessions'[c] = Added(s, cl.pending, address)
      <4> HIDE DEF address
      <4>1. \A x \in DOMAIN sessions'[c].table :
              \/ x \in DOMAIN s.table /\ sessions'[c].table[x] = s.table[x]
              \/ /\ sessions'[c].table[x].group = cl.pending
                 /\ sessions'[c].table[x].address = address
        BY <1>5, <2>5, <3>2, AddedEffect
      <4> QED
        BY <2>3, <2>4, <4>1
    <3> QED
      BY <2>7, <3>1, <3>2
  <2> HIDE DEF address
  <2>9. MenuOK(k2, cl, sessions'[c])
    BY <1>2, <1>4, <1>11, <2>2, MenuAfterRead
  <2>10. ClientInv(k2, cl, sessions'[c], um, gm)
    BY <1>2, <2>3, <2>8, <2>9, ReadKeeps
  <2> QED
    BY <1>3, <1>10, <2>1, <2>6, <2>7, <2>10 DEF k2, cl, um, gm
<1>13. CASE LeaveRead(c)
  <2> DEFINE t == StopChatSession(s, cl.pending)
  <2>1. /\ answer.tag = "leave" /\ answer.ok = TRUE
        /\ UNCHANGED client /\ SetSessions(c, t)
    BY <1>13 DEF LeaveRead, Reads, answer, cl, s
  <2>2. cl.menu = "group" /\ answer.tag \in GroupTags
    BY <1>7, <2>1 DEF GroupTags
  <2>3. SessionInv(t)
    BY <1>5, <1>6, StopKeeps
  <2>4. \A x \in DOMAIN t.table : \E j \in DOMAIN s.table :
          t.table[x] = s.table[j] /\ s.table[j].group # cl.pending
    BY <1>5, StopEffect
  <2> HIDE DEF t
  <2>5. /\ LoggedInAs(um, k.fd, cl.user)
        /\ \A i \in DOMAIN t.table :
             Holds(gm, cl.user, t.table[i].group, t.table[i].address)
    BY <1>7, <2>1, <2>2, <2>4
  <2>6. ClientInv(k2, cl, t, um, gm)
    BY <1>2, <1>4, <1>11, <2>2, <2>5, MenuAfterRead, ReadKeeps
  <2> QED
    BY <1>3, <1>8, <1>10, <2>1, <2>3, <2>6 DEF k2, cl, um, gm
<1>14. ASSUME NEW menu \in {"main", "over"},
              answer.tag \in {"logout", "exit"},
              SetSessions(c, StopAllChatSessions(s)),
              client' = [client EXCEPT ![c].menu = menu]
       PROVE  /\ ClientInv(k2, client'[c], sessions'[c], um', gm')
              /\ \A d \in Clients : d # c => /\ client'[d] = client[d]
                                             /\ sessions'[d] = sessions[d]
              /\ client' \in [Clients -> ClientRecord]
              /\ ChatInv'
  <2> DEFINE t == StopAllChatSessions(s)
             cl2 == [cl EXCEPT !.menu = menu]
  <2>1. SessionInv(t)
    BY <1>5, <1>6, StopAllKeeps
  <2>2. t.table = <<>> /\ t.starting = "no"
    BY <1>5, <1>6, StopAllEffect
  <2>3. /\ sessions'[c] = t /\ ChatInv'
        /\ \A d \in Clients : d # c => sessions'[d] = sessions[d]
    BY <1>8, <1>14, <2>1
  <2>4. client' = [client EXCEPT ![c] = cl2]
    BY <1>14 DEF cl
  <2>5. cl2 \in ClientRecord /\ cl2.menu = menu
    BY <1>5 DEF ClientRecord
  <2>6. cl.menu \in {"main", "group"}
    BY <1>7, <1>14
  <2> HIDE DEF t, cl2
  <2>7. MenuOK(k2, cl2, t)
    BY <1>2, <1>4, <1>11, <2>2, <2>5, <2>6, MenuAfterRead
  <2>8. cl2.menu # "group"
    BY <2>5
  <2>9. ClientInv(k2, cl2, t, um, gm)
    BY <1>2, <2>7, <2>8, ReadKeeps
  <2> QED
    BY <1>3, <1>10, <2>3, <2>4, <2>5, <2>9 DEF um, gm
<1>15. CASE LogoutRead(c)
  BY <1>14, <1>15 DEF LogoutRead, Reads, answer, s, um, gm, k2
<1>16. CASE ExitRead(c)
  BY <1>14, <1>16 DEF ExitRead, Reads, answer, s, um, gm, k2
<1>17. CASE LoginRead(c)
  <2> DEFINE cl2 == [cl EXCEPT !.menu = "group"]
  <2>1. /\ Got(k, {"login"}) /\ answer.tag = "login" /\ UNCHANGED chatVars
        /\ client' = [client EXCEPT ![c] = cl2]
    BY <1>2, <1>17 DEF LoginRead, Reads, Got, k, answer, cl
  <2>2. cl2 \in ClientRecord /\ cl2.menu = "group" /\ cl2.user = cl.user
    BY <1>5 DEF ClientRecord
  <2>3. k.phase = "open" /\ LoggedInAs(um, k.fd, cl.user)
    BY <1>5, <2>1 DEF ClientInv, LoginOK
  <2>4. cl.menu = "main"
    BY <1>7, <2>1
  <2>5. s.table = <<>>
    BY <1>11, <2>4 DEF MenuOK
  <2> HIDE DEF cl2
  <2>6. MenuOK(k2, cl2, s)
    BY <1>2, <1>4, <1>11, <2>2, <2>3, <2>4, MenuAfterRead
  <2>7. \A i \in DOMAIN s.table :
          Holds(gm, cl2.user, s.table[i].group, s.table[i].address)
    BY <2>5
  <2>8. ClientInv(k2, cl2, s, um, gm)
    BY <1>2, <2>2, <2>3, <2>6, <2>7, ReadKeeps
  <2> QED
    BY <1>3, <1>9, <1>10, <2>1, <2>2, <2>8 DEF um, gm, k2, s
<1>18. CASE OtherRead(c)
  <2>1. /\ \/ answer.tag = "register"
           \/ /\ answer.tag \in {"register", "login"} \cup GroupTags \cup {"logout"}
              /\ answer.ok = FALSE
        /\ UNCHANGED <<chatVars, client>>
    BY <1>18 DEF OtherRead, Reads, GroupTags, answer
  <2>2. cl.menu \in {"main", "group"}
    BY <1>7, <2>1
  <2>3. cl.menu = "group" =>
          /\ LoggedInAs(um, k.fd, cl.user)
          /\ \A i \in DOMAIN s.table :
               Holds(gm, cl.user, s.table[i].group, s.table[i].address)
    BY <1>7, <2>1
  <2>4. MenuOK(k2, cl, s)
    BY <1>2, <1>4, <1>11, <2>2, MenuAfterRead
  <2>5. ClientInv(k2, cl, s, um, gm)
    BY <1>2, <2>3, <2>4, ReadKeeps
  <2> QED
    BY <1>3, <1>9, <1>10, <2>1, <2>5 DEF um, gm, k2, cl, s
<1> QED
  BY <1>12, <1>13, <1>15, <1>16, <1>17, <1>18 DEF Read

\* A session that changes with no answer on the way to a menu of no groups.
LEMMA SessionsChange ==
  ASSUME NEW k, NEW cl, NEW s, NEW t, NEW um, NEW gm, ClientInv(k, cl, s, um, gm),
         SameEntries(s, t), t.starting # "no" => s.starting # "no"
  PROVE  ClientInv(k, cl, t, um, gm)
<1>1. MenuOK(k, cl, t)
  BY DEF ClientInv, MenuOK, SameEntries
<1>2. TableOK(k, cl, t, gm)
  BY DEF ClientInv, TableOK, SameEntries
<1>3. Entries(t, cl.pending) = Entries(s, cl.pending)
  BY DEF Entries, SameEntries
<1>4. GrantOK(k, cl, t, gm)
  BY <1>3 DEF ClientInv, GrantOK
<1> QED
  BY <1>1, <1>2, <1>4 DEF ClientInv

LEMMA ChooseStep ==
  ASSUME SystemInv, NEW c \in Clients, Choose(c)
  PROVE  /\ ClientInv(conn'[c], client'[c], sessions'[c], userManager', groupManager')
         /\ \A d \in Clients : d # c => client'[d] = client[d]
         /\ client' \in [Clients -> ClientRecord]
         /\ UNCHANGED <<chatVars, userManager, groupManager>>
         /\ \E r \in Request : SendRequest(c, r)
<1> DEFINE cl == client[c]
<1>1. /\ ClientInv(conn[c], cl, sessions[c], userManager, groupManager)
      /\ cl \in ClientRecord /\ client \in [Clients -> ClientRecord]
      /\ ServerInv /\ AnsweredInv
  BY DEF SystemInv
<1>2. sessions[c].starting = "no" /\ cl.menu \in {"main", "group"}
  BY DEF Choose, ChooseRegister, ChooseLogin, ChooseExit, ChooseGroupRequest,
         ChooseLogout, ShowsMenu, Idle
<1>3. ASSUME NEW r \in Request, SendRequest(c, r), UNCHANGED chatVars,
             NEW cl2 \in ClientRecord, client' = [client EXCEPT ![c] = cl2],
             cl2.menu = cl.menu, r.tag \in MenuTags(cl.menu),
             r.tag \in GroupTags => cl2.pending = r.group,
             r.tag = "login" => cl2.user = r.user,
             cl.menu = "group" => cl2.user = cl.user
      PROVE  /\ ClientInv(conn'[c], client'[c], sessions'[c],
                          userManager', groupManager')
             /\ \A d \in Clients : d # c => client'[d] = client[d]
             /\ client' \in [Clients -> ClientRecord]
             /\ UNCHANGED <<chatVars, userManager, groupManager>>
  <2>1. Sent(conn[c], conn'[c], r)
    BY <1>1, <1>3, SendStep
  <2>2. ClientInv(conn'[c], cl2, sessions[c], userManager, groupManager)
    BY <1>1, <1>2, <1>3, <2>1, SentKeeps
  <2>3. UNCHANGED <<userManager, groupManager, sessions>>
    BY <1>3 DEF SendRequest, chatVars
  <2> QED
    BY <1>1, <1>3, <2>2, <2>3
<1>4. cl.menu = "main" => MenuTags(cl.menu) = {"register", "login", "exit"}
  BY DEF MenuTags
<1>5. cl.menu = "group" => MenuTags(cl.menu) = GroupTags \cup {"logout"}
  BY DEF MenuTags
<1>6. client = [client EXCEPT ![c] = cl]
  BY <1>1
<1>7. CASE ChooseRegister(c)
  <2>1. PICK user \in Users, password \in Passwords :
          SendRequest(c, [tag |-> "register", user |-> user, password |-> password])
    BY <1>7 DEF ChooseRegister
  <2> DEFINE r == [tag |-> "register", user |-> user, password |-> password]
  <2>2. r \in Request /\ r.tag = "register"
    BY DEF Request, UserRequest
  <2>3. cl.menu = "main" /\ UNCHANGED <<chatVars, client>> /\ SendRequest(c, r)
    BY <1>7, <2>1 DEF ChooseRegister, ShowsMenu
  <2> HIDE DEF r, cl
  <2> QED
    BY <1>1, <1>3, <1>4, <1>6, <2>2, <2>3 DEF GroupTags
<1>8. CASE ChooseLogin(c)
  <2>1. PICK user \in Users, password \in Passwords :
          /\ SendRequest(c, [tag |-> "login", user |-> user, password |-> password])
          /\ client' = [client EXCEPT ![c].user = user]
    BY <1>8 DEF ChooseLogin
  <2> DEFINE r == [tag |-> "login", user |-> user, password |-> password]
             cl2 == [cl EXCEPT !.user = user]
  <2>2. r \in Request /\ r.tag = "login" /\ r.user = user
    BY DEF Request, UserRequest
  <2>3. cl.menu = "main" /\ UNCHANGED chatVars /\ SendRequest(c, r)
    BY <1>8, <2>1 DEF ChooseLogin, ShowsMenu
  <2>4. /\ client' = [client EXCEPT ![c] = cl2]
        /\ cl2 \in ClientRecord /\ cl2.menu = cl.menu /\ cl2.user = user
    BY <1>1, <2>1 DEF ClientRecord
  <2> HIDE DEF r, cl, cl2
  <2>5. /\ ClientInv(conn'[c], client'[c], sessions'[c], userManager', groupManager')
        /\ \A d \in Clients : d # c => client'[d] = client[d]
        /\ client' \in [Clients -> ClientRecord]
        /\ UNCHANGED <<chatVars, userManager, groupManager>>
    BY <1>3, <1>4, <2>2, <2>3, <2>4 DEF GroupTags
  <2> QED
    BY <2>2, <2>3, <2>5
<1>9. CASE ChooseExit(c)
  <2> DEFINE r == [tag |-> "exit"]
  <2>1. r \in Request /\ r.tag = "exit"
    BY DEF Request, PlainRequest
  <2>2. cl.menu = "main" /\ UNCHANGED <<chatVars, client>> /\ SendRequest(c, r)
    BY <1>9 DEF ChooseExit, ShowsMenu
  <2> HIDE DEF r, cl
  <2> QED
    BY <1>1, <1>3, <1>4, <1>6, <2>1, <2>2 DEF GroupTags
<1>10. CASE ChooseGroupRequest(c)
  <2>1. PICK r \in GroupRequest : /\ SendRequest(c, r)
                                  /\ client' = [client EXCEPT ![c].pending = r.group]
    BY <1>10 DEF ChooseGroupRequest
  <2> DEFINE cl2 == [cl EXCEPT !.pending = r.group]
  <2>2. r \in Request /\ r.tag \in GroupTags /\ r.group \in GroupNames
    BY DEF Request, GroupRequest, GroupTags
  <2>3. cl.menu = "group" /\ UNCHANGED chatVars
    BY <1>10 DEF ChooseGroupRequest, ShowsMenu
  <2>4. /\ client' = [client EXCEPT ![c] = cl2]
        /\ cl2 \in ClientRecord /\ cl2.menu = cl.menu /\ cl2.user = cl.user
        /\ cl2.pending = r.group
    BY <1>1, <2>1, <2>2 DEF ClientRecord
  <2>5. r.tag # "login" /\ r.tag \in MenuTags(cl.menu)
    BY <1>5, <2>2, <2>3 DEF GroupTags
  <2> HIDE DEF cl, cl2
  <2> QED
    BY <1>3, <2>1, <2>2, <2>3, <2>4, <2>5
<1>11. CASE ChooseLogout(c)
  <2> DEFINE r == [tag |-> "logout"]
  <2>1. r \in Request /\ r.tag = "logout"
    BY DEF Request, PlainRequest
  <2>2. cl.menu = "group" /\ UNCHANGED <<chatVars, client>> /\ SendRequest(c, r)
    BY <1>11 DEF ChooseLogout, ShowsMenu
  <2> HIDE DEF r, cl
  <2> QED
    BY <1>1, <1>3, <1>5, <1>6, <2>1, <2>2 DEF GroupTags
<1> QED
  BY <1>7, <1>8, <1>9, <1>10, <1>11 DEF Choose

\* A connection without packets, of a client in no menu of groups.
LEMMA QuietKeeps ==
  ASSUME NEW k2, NEW cl2, NEW t, NEW um, NEW gm, MenuOK(k2, cl2, t),
         cl2.menu # "group",
         k2.toClient = <<>>, k2.end = "up" => k2.toServer = <<>>
  PROVE  ClientInv(k2, cl2, t, um, gm)
<1>1. \A tags : ~Got(k2, tags)
  BY DEF Got
<1>2. PacketOK(k2, cl2)
  BY DEF PacketOK, Requested
<1> QED
  BY <1>1, <1>2 DEF ClientInv, LoginOK, TableOK, GrantOK

LEMMA ConnectStep ==
  ASSUME SystemInv, NEW c \in Clients, Connect(c)
  PROVE  ClientInv(conn'[c], client'[c], sessions'[c], userManager', groupManager')
<1>1. /\ conn[c] \in Connection /\ conn[c].phase = "down"
      /\ client[c].menu = "main" /\ UNCHANGED <<chatVars, client>>
      /\ conn'[c] = [conn[c] EXCEPT !.phase = "queued"]
      /\ UNCHANGED <<userManager, groupManager>>
  BY DEF Connect, ConnectToServer, SystemInv, ServerInv, NetInv
<1>2. /\ conn'[c].phase = "queued" /\ conn'[c].end = conn[c].end
      /\ conn'[c].toServer = conn[c].toServer /\ conn'[c].toClient = conn[c].toClient
      /\ conn'[c].fd = conn[c].fd /\ conn'[c].awaiting = conn[c].awaiting
  BY <1>1 DEF Connection
<1>3. /\ ClientInv(conn[c], client[c], sessions[c], userManager, groupManager)
      /\ UnreadOK(conn[c])
  BY DEF SystemInv, UnreadInv
<1>4. conn[c].toClient = <<>>
  BY <1>1, <1>3 DEF UnreadOK
<1>5. \A tags : ~Got(conn'[c], tags)
  BY <1>2, <1>4 DEF Got
<1>6. MenuOK(conn'[c], client[c], sessions[c]) /\ PacketOK(conn'[c], client[c])
  BY <1>1, <1>2, <1>3 DEF ClientInv, MenuOK, PacketOK, Requested
<1>7. ClientInv(conn'[c], client[c], sessions[c], userManager, groupManager)
  BY <1>1, <1>5, <1>6 DEF ClientInv, LoginOK, TableOK, GrantOK
<1> QED
  BY <1>1, <1>7 DEF chatVars

LEMMA DieStep ==
  ASSUME SystemInv, NEW c \in Clients, Die(c)
  PROVE  /\ ClientInv(conn'[c], client'[c], sessions'[c], userManager', groupManager')
         /\ \A d \in Clients : d # c => /\ client'[d] = client[d]
                                        /\ sessions'[d] = sessions[d]
         /\ client' \in [Clients -> ClientRecord]
         /\ ChatInv'
<1> DEFINE k == conn[c]
           cl2 == [client[c] EXCEPT !.menu = "gone"]
           t == ClientGone(sessions[c])
<1>1. /\ k \in Connection /\ conn'[c] = Ended(k)
      /\ client' = [client EXCEPT ![c] = cl2]
      /\ SetSessions(c, t)
  BY DEF Die, ClientEnds, ClientDies, SystemInv, ServerInv, NetInv
<1>2. /\ client \in [Clients -> ClientRecord] /\ ChatInv
      /\ SessionInv(sessions[c]) /\ sessions[c] \in SessionRecord
  BY DEF SystemInv, ChatInv, SessionInv
<1>3. cl2 \in ClientRecord /\ cl2.menu = "gone"
  BY <1>2 DEF ClientRecord
<1>4. t.starting = "no" /\ t.table = <<>>
  BY <1>2, GoneEffect
<1>5. SessionInv(t)
  BY <1>2, GoneKeeps
<1> HIDE DEF cl2, t
<1>6. /\ Ended(k).toClient = <<>>
      /\ Ended(k).phase = "down" \/ Ended(k).end # "up"
  BY <1>1, EndedFields, Channels DEF Connection
<1>7. Ended(k).end = "up" => Ended(k).toServer = <<>>
  <2>1. CASE k.phase = "closed"
    BY <2>1 DEF Ended, Down
  <2>2. CASE k.phase # "closed"
    BY <1>1, <2>2, EndedFields
  <2> QED
    BY <2>1, <2>2
<1>8. MenuOK(Ended(k), cl2, t)
  BY <1>3, <1>4, <1>6 DEF MenuOK
<1>9. ClientInv(Ended(k), cl2, t, userManager', groupManager')
  BY <1>3, <1>6, <1>7, <1>8, QuietKeeps
<1>10. ChatInv' /\ sessions'[c] = t
  BY <1>1, <1>2, <1>5, SetKeeps DEF SetSessions, ChatInv
<1>11. \A d \in Clients : d # c => /\ client'[d] = client[d]
                                  /\ sessions'[d] = sessions[d]
  BY <1>1, <1>2 DEF SetSessions, ChatInv
<1> QED
  BY <1>1, <1>2, <1>3, <1>9, <1>10, <1>11

-----------------------------------------------------------------------------
\* The server's steps, seen from one client.

\* What the server does for others: logins and memberships stay.
LEMMA OthersKeep ==
  ASSUME NEW k, NEW cl, NEW s, NEW um, NEW gm, NEW um2, NEW gm2,
         ClientInv(k, cl, s, um, gm), UnreadOK(k), Stable(gm, gm2),
         k.phase = "open" /\ k.end = "up" /\ IsLoggedIn(um, k.fd) =>
           /\ LoginKept(um, um2, k.fd)
           /\ \A n : MemberKept(gm, gm2, n, UsernameBySocket(um, k.fd))
  PROVE  ClientInv(k, cl, s, um2, gm2)
<1>1. ASSUME k.phase = "open", k.end = "up", LoggedInAs(um, k.fd, cl.user)
      PROVE  /\ LoggedInAs(um2, k.fd, cl.user)
             /\ \A n, a : Holds(gm, cl.user, n, a) => Holds(gm2, cl.user, n, a)
  BY <1>1, HoldsOn DEF LoggedInAs, LoginKept
<1>2. cl.menu = "group" => k.phase = "open" /\ k.end = "up"
  BY DEF ClientInv, MenuOK
<1>3. Got(k, {"login"}) => k.phase = "open" /\ k.end = "up"
  BY DEF ClientInv, LoginOK, Got, UnreadOK
<1>4. LoginOK(k, cl, um2)
  BY <1>1, <1>2, <1>3 DEF ClientInv, LoginOK
<1>5. TableOK(k, cl, s, gm2)
  BY <1>1, <1>2 DEF ClientInv, LoginOK, TableOK
<1>6. GrantOK(k, cl, s, gm2)
  <2>1. ASSUME Got(k, {"create", "join"})
        PROVE  LoggedInAs(um, k.fd, cl.user) /\ k.phase = "open" /\ k.end = "up"
    <3>1. k.end = "up" /\ Head(k.toClient).tag \in MenuTags(cl.menu)
      BY <2>1 DEF ClientInv, PacketOK, Got, UnreadOK
    <3>2. cl.menu = "group"
      BY <2>1, <3>1 DEF Got, MenuTags
    <3>3. ~Got(k, {"logout"})
      BY <2>1 DEF Got
    <3> QED
      BY <1>2, <3>2, <3>3 DEF ClientInv, LoginOK
  <2> QED
    BY <1>1, <2>1 DEF ClientInv, GrantOK
<1> QED
  BY <1>4, <1>5, <1>6 DEF ClientInv

LEMMA OthersServed ==
  ASSUME SystemInv, Server, NEW c \in Clients, ~ProcessClient(c)
  PROVE  ClientInv(conn'[c], client[c], sessions[c], userManager', groupManager')
<1> DEFINE k == conn[c]
<1>1. /\ k \in Connection /\ UnreadOK(k) /\ ServerInv /\ NetInv /\ [Next]_vars
      /\ ClientInv(k, client[c], sessions[c], userManager, groupManager)
  BY DEF SystemInv, ServerInv, NetInv, UnreadInv, Next
<1>2. CASE conn'[c] = k
  <2>1. Stable(groupManager, groupManager')
    BY <1>1, GroupsStep
  <2>2. ~HandleLogoutRequest(c) /\ ~HandleExitRequest(c) /\ ~HandleLeaveGroupRequest(c)
    BY DEF ProcessClient
  <2>3. ASSUME k.phase = "open", k.end = "up", IsLoggedIn(userManager, k.fd)
        PROVE  /\ LoginKept(userManager, userManager', k.fd)
               /\ \A n : MemberKept(groupManager, groupManager', n,
                                    UsernameBySocket(userManager, k.fd))
    <3>1. c \in Accepted
      BY <2>3 DEF Accepted
    <3> QED
      BY <1>1, <2>2, <2>3, <3>1, LoginSurvives, MembershipSurvives
  <2> QED
    BY <1>1, <1>2, <2>1, <2>3, OthersKeep
<1>3. ASSUME k.phase = "queued", NEW fd \in Sockets, conn'[c] = Opened(k, fd)
      PROVE  ClientInv(conn'[c], client[c], sessions[c], userManager', groupManager')
  <2>1. /\ Opened(k, fd).toServer = k.toServer /\ Opened(k, fd).toClient = k.toClient
        /\ Opened(k, fd).end = k.end
    BY <1>1, Channels
  <2>2. k.toClient = <<>> /\ client[c].menu # "group"
    BY <1>1, <1>3 DEF UnreadOK, ClientInv, MenuOK
  <2>3. \A tags : ~Got(Opened(k, fd), tags)
    BY <2>1, <2>2 DEF Got
  <2>4. MenuOK(Opened(k, fd), client[c], sessions[c])
    BY <1>1, <1>3, <2>1, <2>2 DEF ClientInv, MenuOK
  <2>5. PacketOK(Opened(k, fd), client[c])
    BY <1>1, <2>1 DEF ClientInv, PacketOK, Requested
  <2> QED
    BY <1>3, <2>2, <2>3, <2>4, <2>5 DEF ClientInv, LoginOK, TableOK, GrantOK
<1> QED
  BY <1>1, <1>2, <1>3, ServerTouches

\* A connection whose peer is gone is read to its end and closed.
LEMMA GoneServed ==
  ASSUME SystemInv, NEW c \in Clients, ProcessClient(c), conn[c].end # "up"
  PROVE  ClientInv(conn'[c], client[c], sessions[c], userManager', groupManager')
<1> DEFINE k == conn[c]
<1>1. /\ k \in Connection /\ UnreadOK(k) /\ ServerInv /\ [Next]_vars
      /\ MenuOK(k, client[c], sessions[c])
  BY DEF SystemInv, ServerInv, NetInv, UnreadInv, Next, Server, ClientInv
<1>2. k.phase = "open" /\ k.toClient = <<>> /\ client[c].menu # "group"
  BY <1>1, ServedIsAccepted DEF Accepted, UnreadOK, MenuOK
<1>3. ASSUME NEW rs \in Seq(Response), k.toServer # <<>>
      PROVE  /\ Answered(k, rs).end # "up" /\ Answered(k, rs).toClient = <<>>
             /\ Closed(Answered(k, rs)) = Down
  <2>1. Answered(k, rs).end = k.end
    BY <1>1, <1>3, AnsweredFields
  <2>2. Answered(k, rs).toClient = IF k.end = "up" THEN k.toClient \o rs ELSE k.toClient
    BY <1>1, Channels
  <2> QED
    BY <1>2, <2>1, <2>2 DEF Closed
<1>4. /\ conn'[c].toClient = <<>>
      /\ conn'[c].phase = "down" \/ conn'[c].end # "up"
      /\ conn'[c].end = "up" => conn'[c].toServer = <<>>
  <2>1. CASE conn'[c] = Down
    BY <2>1 DEF Down
  <2>2. CASE conn'[c] = k
    BY <1>2, <2>2
  <2>3. ASSUME NEW rs \in Seq(Response), k.toServer # <<>>,
               \/ conn'[c] = Answered(k, rs)
               \/ conn'[c] = Closed(Answered(k, rs))
        PROVE  /\ conn'[c].toClient = <<>>
               /\ conn'[c].phase = "down" \/ conn'[c].end # "up"
               /\ conn'[c].end = "up" => conn'[c].toServer = <<>>
    BY <1>3, <2>1, <2>3
  <2>4. /\ ~ReceiveResponse(c) /\ ~ClientEnds(c)
        /\ \A r : ~SendRequest(c, r)
    BY DEF ReceiveResponse, ClientEnds, SendRequest, Alive
  <2> QED
    BY <1>1, <1>2, <2>1, <2>2, <2>3, <2>4, ConnectionStep
<1>5. MenuOK(conn'[c], client[c], sessions[c])
  BY <1>1, <1>2, <1>4 DEF MenuOK
<1> QED
  BY <1>2, <1>4, <1>5, QuietKeeps

\* An answer to the request of the menu: what is left to show.
LEMMA RepliedKeeps ==
  ASSUME NEW k, NEW k2, NEW rs, NEW cl, NEW s, NEW um, NEW gm, NEW um2, NEW gm2,
         ClientInv(k, cl, s, um, gm), k.end = "up", Replied(k, k2, rs),
         rs # <<>> => Head(rs).tag = Head(k.toServer).tag,
         LoginOK(k2, cl, um2), TableOK(k2, cl, s, gm2), GrantOK(k2, cl, s, gm2)
  PROVE  ClientInv(k2, cl, s, um2, gm2)
<1>1. MenuOK(k2, cl, s)
  BY DEF ClientInv, MenuOK, Replied
<1>2. PacketOK(k2, cl)
  BY DEF ClientInv, PacketOK, Replied, Requested
<1> QED
  BY <1>1, <1>2 DEF ClientInv

LEMMA OwnServed ==
  ASSUME SystemInv, NEW c \in Clients, ProcessClient(c), conn[c].end = "up"
  PROVE  ClientInv(conn'[c], client[c], sessions[c], userManager', groupManager')
<1> DEFINE k == conn[c]
           k2 == conn'[c]
           cl == client[c]
           s == sessions[c]
           um == userManager
           gm == groupManager
<1>1. /\ k \in Connection /\ UnreadOK(k) /\ InFlightOK(k, PortsOutgrown)
      /\ ServerInv /\ NetInv /\ UsersInv(um) /\ ManagerInv(gm)
      /\ AnsweredInv /\ UnreadInv
      /\ ClientInv(k, cl, s, um, gm)
  BY DEF SystemInv, ServerInv, NetInv, UnreadInv, AnsweredInv
<1>2. k.phase = "open"
  BY ServedIsAccepted DEF Accepted
<1>3. ~PeerClosed(c) /\ ~RecvFailed(c)
  BY DEF PeerClosed, RecvFailed
<1>4. k.toServer # <<>>
  BY <1>3 DEF ProcessClient, HandleRegisterRequest, HandleLoginRequest,
     HandleLogoutRequest, HandleExitRequest, HandleCreateGroupRequest,
     HandleJoinGroupRequest, HandleLeaveGroupRequest, Handling
<1>5. k.toClient = <<>> /\ k.awaiting = TRUE
  BY <1>1, <1>4, OneInFlight
<1>6. /\ Head(k.toServer).tag \in MenuTags(cl.menu)
      /\ Requested(k, GroupTags) => Head(k.toServer).group = cl.pending
      /\ Requested(k, {"login"}) => Head(k.toServer).user = cl.user
  BY <1>1, <1>4 DEF ClientInv, PacketOK
<1>7. /\ Head(k.toServer).tag \in {"register", "login", "exit"} => cl.menu = "main"
      /\ Head(k.toServer).tag \in GroupTags \cup {"logout"} => cl.menu = "group"
  BY <1>6 DEF MenuTags, GroupTags
<1>8. cl.menu = "group" =>
        /\ LoggedInAs(um, k.fd, cl.user)
        /\ \A i \in DOMAIN s.table :
             Holds(gm, cl.user, s.table[i].group, s.table[i].address)
  BY <1>1, <1>5 DEF ClientInv, LoginOK, TableOK, Got
<1>9. ASSUME NEW rs \in Seq(Response), Answer(c, rs)
      PROVE  Replied(k, k2, rs)
  <2>1. k2 = Answered(k, rs)
    BY <1>1, <1>9 DEF Answer, NetInv
  <2>2. Tail(k.toServer) = <<>> /\ <<>> \o rs = rs
    <3>1. <<>> \o rs = rs
      BY ConcatEmptySeq
    <3>2. Tail(k.toServer) = <<>>
      BY <1>1, <1>4, OneInFlight
    <3> QED
      BY <3>1, <3>2
  <2>3. /\ Answered(k, rs).toServer = Tail(k.toServer)
        /\ Answered(k, rs).toClient = k.toClient \o rs
    BY <1>1, Channels
  <2>4. /\ Answered(k, rs).phase = k.phase /\ Answered(k, rs).fd = k.fd
        /\ Answered(k, rs).end = k.end
    BY <1>1, <1>4, AnsweredFields
  <2>5. Answered(k, rs).toServer = <<>> /\ Answered(k, rs).toClient = rs
    BY <1>5, <2>2, <2>3
  <2> QED
    BY <1>4, <1>5, <2>1, <2>4, <2>5 DEF Replied
<1>10. ASSUME NEW tag, Handling(c, tag)
       PROVE  Head(k.toServer).tag = tag
  BY <1>10 DEF Handling, Packet
<1>11. ASSUME NEW tag \in {"register", "login", "logout", "leave"}, NEW result,
              Handling(c, tag), Answer(c, Status(tag, result))
       PROVE  /\ Replied(k, k2, Status(tag, result))
              /\ Head(Status(tag, result)).tag = Head(k.toServer).tag
              /\ \A tags : Got(k2, tags) <=> tag \in tags /\ result = "success"
  <2>1. Status(tag, result) \in Seq(Response)
    BY <1>11, StatusTyped
  <2>2. Replied(k, k2, Status(tag, result))
    BY <1>9, <1>11, <2>1
  <2>3. /\ Head(Status(tag, result)).tag = tag
        /\ Head(Status(tag, result)).ok = (result = "success")
        /\ Status(tag, result) # <<>>
    BY GrantFields
  <2>4. k2.toClient = Status(tag, result)
    BY <2>2 DEF Replied
  <2>5. Head(k2.toClient).ok = TRUE <=> result = "success"
    BY <2>3, <2>4
  <2>6. \A tags : Got(k2, tags) <=> tag \in tags /\ result = "success"
    BY <2>3, <2>4, <2>5 DEF Got
  <2> QED
    BY <1>10, <1>11, <2>2, <2>3, <2>6
<1>12. CASE HandleRegisterRequest(c)
  <2>1. PICK result : Answer(c, Status("register", result))
    BY <1>12 DEF HandleRegisterRequest
  <2>2. Handling(c, "register")
    BY <1>12 DEF HandleRegisterRequest
  <2>3. cl.menu = "main"
    BY <1>7, <1>10, <2>2
  <2>4. /\ Replied(k, k2, Status("register", result))
        /\ Head(Status("register", result)).tag = Head(k.toServer).tag
        /\ \A tags : Got(k2, tags) <=> "register" \in tags /\ result = "success"
    BY <1>11, <2>1, <2>2
  <2> HIDE DEF k, k2, cl, s
  <2>5. /\ LoginOK(k2, cl, userManager') /\ TableOK(k2, cl, s, groupManager')
        /\ GrantOK(k2, cl, s, groupManager')
    BY <2>3, <2>4 DEF LoginOK, TableOK, GrantOK
  <2>6. ClientInv(k2, cl, s, userManager', groupManager')
    BY <1>1, <2>4, <2>5, RepliedKeeps DEF k
  <2> QED
    BY <2>6 DEF k2, cl, s
<1>13. CASE HandleLoginRequest(c)
  <2> DEFINE call(fault) == UserManagerLogin(um, Packet(c).user, Packet(c).password,
                                             k.fd, fault)
  <2>1. PICK fault \in Faults : /\ userManager' = call(fault).manager
                                /\ Answer(c, Status("login", call(fault).result))
    BY <1>13 DEF HandleLoginRequest
  <2>2. Handling(c, "login")
    BY <1>13 DEF HandleLoginRequest
  <2>3. cl.menu = "main" /\ Packet(c).user = cl.user
    BY <1>4, <1>6, <1>7, <1>10, <2>2 DEF Requested, Packet
  <2> DEFINE result == call(fault).result
  <2>4. /\ Replied(k, k2, Status("login", result))
        /\ Head(Status("login", result)).tag = Head(k.toServer).tag
        /\ \A tags : Got(k2, tags) <=> "login" \in tags /\ result = "success"
    BY <1>11, <2>1, <2>2
  <2>5. result = "success" => LoggedInAs(userManager', k.fd, cl.user)
    BY <1>1, <2>1, <2>3, LoginEffect DEF LoggedInAs
  <2> HIDE DEF k, k2, cl, s, result
  <2>6. LoginOK(k2, cl, userManager')
    BY <1>2, <2>3, <2>4, <2>5 DEF LoginOK, Replied
  <2>7. TableOK(k2, cl, s, groupManager') /\ GrantOK(k2, cl, s, groupManager')
    BY <2>3, <2>4 DEF TableOK, GrantOK
  <2>8. ClientInv(k2, cl, s, userManager', groupManager')
    BY <1>1, <2>4, <2>6, <2>7, RepliedKeeps DEF k
  <2> QED
    BY <2>8 DEF k2, cl, s
<1>14. CASE HandleLogoutRequest(c)
  <2> DEFINE result == UserManagerLogout(um, k.fd).result
  <2>1. Handling(c, "logout") /\ Answer(c, Status("logout", result))
    BY <1>14 DEF HandleLogoutRequest
  <2>2. cl.menu = "group"
    BY <1>7, <1>10, <2>1 DEF GroupTags
  <2>3. result = "success"
    BY <1>8, <2>2 DEF LoggedInAs, IsLoggedIn, UserManagerLogout, Outcome
  <2>4. /\ Replied(k, k2, Status("logout", result))
        /\ Head(Status("logout", result)).tag = Head(k.toServer).tag
        /\ \A tags : Got(k2, tags) <=> "logout" \in tags /\ result = "success"
    BY <1>11, <2>1
  <2> HIDE DEF k, k2, cl, s, result
  <2>5. /\ LoginOK(k2, cl, userManager') /\ TableOK(k2, cl, s, groupManager')
        /\ GrantOK(k2, cl, s, groupManager')
    BY <2>3, <2>4 DEF LoginOK, TableOK, GrantOK
  <2>6. ClientInv(k2, cl, s, userManager', groupManager')
    BY <1>1, <2>4, <2>5, RepliedKeeps DEF k
  <2> QED
    BY <2>6 DEF k2, cl, s
<1>15. CASE HandleLeaveGroupRequest(c)
  <2> DEFINE name == Packet(c).group
             call == GroupManagerRemoveUserFromGroup(gm, name, cl.user)
             result == call.result
  <2>1. Handling(c, "leave") /\ UNCHANGED userManager
    BY <1>15 DEF HandleLeaveGroupRequest
  <2>2. cl.menu = "group" /\ name = cl.pending
    BY <1>4, <1>6, <1>7, <1>10, <2>1 DEF Requested, Packet, GroupTags
  <2>3. LoggedInAs(um, k.fd, cl.user)
    BY <1>8, <2>2
  <2>4. groupManager' = call.manager /\ Answer(c, Status("leave", result))
    BY <1>15, <2>3 DEF HandleLeaveGroupRequest, LoggedInAs
  <2>5. /\ Replied(k, k2, Status("leave", result))
        /\ Head(Status("leave", result)).tag = Head(k.toServer).tag
        /\ \A tags : Got(k2, tags) <=> "leave" \in tags /\ result = "success"
    BY <1>11, <2>1, <2>4
  <2>6. cl.user \in Users
    BY <1>1, <2>3, UsernameTyped DEF LoggedInAs
  <2>7. \A n : n # name => MemberKept(gm, groupManager', n, cl.user)
    BY <1>1, <2>4, <2>6, RemoveUserEffect
  <2>8. result # "success" => groupManager' = gm
    BY <1>1, <2>4, RemoveUserRefused
  <2>9. Stable(gm, groupManager')
    BY <1>1, GroupsServed
  <2>10. \A n, a : Holds(gm, cl.user, n, a) =>
           \/ result = "success" /\ n = name
           \/ Holds(groupManager', cl.user, n, a)
    BY <2>7, <2>8, <2>9, HoldsOn
  <2> HIDE DEF k, k2, cl, s, gm, um, name, call, result
  <2>11. TableOK(k2, cl, s, groupManager')
    BY <1>8, <2>2, <2>5, <2>10 DEF TableOK
  <2>12. GrantOK(k2, cl, s, groupManager')
    BY <2>5 DEF GrantOK
  <2>13. LoginOK(k2, cl, userManager')
    BY <2>1, <2>3, <2>5 DEF LoginOK, Replied, um
  <2>14. ClientInv(k2, cl, s, userManager', groupManager')
    BY <1>1, <2>5, <2>11, <2>12, <2>13, RepliedKeeps DEF k
  <2> QED
    BY <2>14 DEF k2, cl, s
<1>16. ASSUME NEW tag \in {"create", "join"}, Handling(c, tag), UNCHANGED userManager,
              GrantHandled(c, tag, gm, groupManager')
       PROVE  ClientInv(k2, cl, s, userManager', groupManager')
  <2>1. cl.menu = "group" /\ Packet(c).group = cl.pending
    BY <1>4, <1>6, <1>7, <1>10, <1>16 DEF Requested, Packet, GroupTags
  <2>2. LoggedInAs(um, k.fd, cl.user)
    BY <1>8, <2>1
  <2>3. PICK rs : /\ Answer(c, rs)
                  /\ GrantAnswer(rs, tag, gm, groupManager', Packet(c).group,
                                 UsernameBySocket(um, k.fd))
    BY <1>16 DEF GrantHandled
  <2>4. rs \in Seq(Response) /\ Replied(k, k2, rs)
    BY <1>9, <2>3 DEF GrantAnswer
  <2>5. rs # <<>> => Head(rs).tag = tag
    <3>1. CASE rs = Refusal(tag)
      BY <3>1 DEF Refusal
    <3>2. ASSUME NEW ip \in MulticastIps, NEW port \in Nat, rs = Grant(tag, ip, port)
          PROVE  Head(rs).tag = tag
      BY <3>2 DEF Grant
    <3> QED
      BY <2>3, <3>1, <3>2 DEF GrantAnswer
  <2>6. \A n, a : Holds(gm, cl.user, n, a) => Holds(groupManager', cl.user, n, a)
    BY <1>16, HoldsOn DEF GrantHandled
  <2>7. k2.toClient = rs /\ k2.fd = k.fd /\ k2.phase = "open"
    BY <1>2, <2>4 DEF Replied
  <2>8. ~Got(k2, {"leave"}) /\ ~Got(k2, {"logout"}) /\ ~Got(k2, {"login"})
    BY <1>16, <2>5, <2>7 DEF Got
  <2>9. LoginOK(k2, cl, userManager')
    BY <1>16, <2>2, <2>7, <2>8 DEF LoginOK
  <2>10. TableOK(k2, cl, s, groupManager')
    BY <1>8, <2>1, <2>6 DEF TableOK
  <2>11. GrantOK(k2, cl, s, groupManager')
    <3> SUFFICES ASSUME Got(k2, {"create", "join"})
                 PROVE  /\ Holds(groupManager', cl.user, cl.pending,
                                 <<Head(k2.toClient).ip, Head(k2.toClient).port>>)
                        /\ Entries(s, cl.pending) = {}
      BY DEF GrantOK
    <3>1. GrantIn(k2)
      BY DEF Got, GrantIn
    <3>2. PICK tag2 \in {"create", "join"}, ip \in MulticastIps, port \in Nat :
            LET name == Packet(c).group
                user == UsernameBySocket(userManager, conn[c].fd)
            IN  /\ Packet(c).tag = tag2
                /\ conn'[c].toClient = Grant(tag2, ip, port)
                /\ ~(/\ name \in DOMAIN groupManager.groups
                     /\ user \in groupManager.groups[name].members)
                /\ Holds(groupManager', user, name, <<ip, port>>)
      BY <1>1, <2>7, <3>1, NewGrant
    <3>3. Head(Grant(tag2, ip, port)).ip = ip /\ Head(Grant(tag2, ip, port)).port = port
      BY DEF Grant
    <3>4. Head(k2.toClient).ip = ip /\ Head(k2.toClient).port = port
      BY <3>2, <3>3
    <3>5. Holds(groupManager', cl.user, cl.pending, <<ip, port>>)
      BY <2>1, <2>2, <3>2 DEF LoggedInAs
    <3>6. \A a : ~Holds(gm, cl.user, cl.pending, a)
      BY <2>1, <2>2, <3>2 DEF LoggedInAs, Holds
    <3>7. Entries(s, cl.pending) = {}
      BY <1>8, <2>1, <3>6 DEF Entries
    <3> QED
      BY <3>4, <3>5, <3>7
  <2> HIDE DEF k, k2, cl, s, gm, um
  <2>12. rs # <<>> => Head(rs).tag = Head(k.toServer).tag
    BY <1>10, <1>16, <2>5
  <2> QED
    BY <1>1, <2>4, <2>9, <2>10, <2>11, <2>12, RepliedKeeps DEF k
<1>17. CASE HandleCreateGroupRequest(c)
  <2>1. Handling(c, "create") /\ UNCHANGED userManager
    BY <1>17 DEF HandleCreateGroupRequest
  <2>2. GrantHandled(c, "create", gm, groupManager')
    BY <1>1, <1>17, CreateHandled
  <2> QED
    BY <1>16, <2>1, <2>2
<1>18. CASE HandleJoinGroupRequest(c)
  <2>1. Handling(c, "join") /\ UNCHANGED userManager
    BY <1>18 DEF HandleJoinGroupRequest
  <2>2. GrantHandled(c, "join", gm, groupManager')
    BY <1>1, <1>18, JoinHandled
  <2> QED
    BY <1>16, <2>1, <2>2
<1>19. CASE HandleExitRequest(c)
  <2> DEFINE rs == Status("exit", "success")
             a == Answered(k, rs)
  <2>1. Handling(c, "exit") /\ k2 = Closed(a)
    BY <1>1, <1>19 DEF HandleExitRequest, NetInv
  <2>2. cl.menu = "main"
    BY <1>7, <1>10, <2>1
  <2>3. rs \in Seq(Response) /\ Head(rs).tag = "exit"
    BY StatusTyped, GrantFields
  <2>4. /\ a \in Connection /\ a.end = "up"
        /\ a.toServer = <<>> /\ a.toClient = rs
    <3>1. Tail(k.toServer) = <<>> /\ <<>> \o rs = rs
      <4>1. <<>> \o rs = rs
        BY <2>3, ConcatEmptySeq
      <4>2. Tail(k.toServer) = <<>>
        BY <1>1, <1>4, OneInFlight
      <4> QED
        BY <4>1, <4>2
    <3>2. a.toServer = Tail(k.toServer) /\ a.toClient = k.toClient \o rs
      BY <1>1, Channels
    <3>3. a \in Connection /\ a.end = k.end
      BY <1>1, <1>4, <2>3, AnsweredFields
    <3> HIDE DEF rs, a
    <3> QED
      BY <1>5, <3>1, <3>2, <3>3
  <2> HIDE DEF rs, a
  <2>5. /\ Closed(a).phase = "closed" /\ Closed(a).end = "up"
        /\ Closed(a).toServer = <<>> /\ Closed(a).toClient = rs
    BY <2>4 DEF Closed, Connection
  <2> HIDE DEF k2, cl, s
  <2>6. \A tags : Got(k2, tags) => "exit" \in tags
    BY <2>1, <2>3, <2>5 DEF Got
  <2>7. PacketOK(k2, cl)
    BY <2>1, <2>2, <2>3, <2>5 DEF PacketOK, Requested, MenuTags
  <2>8. MenuOK(k2, cl, s)
    BY <1>1, <2>2 DEF ClientInv, MenuOK
  <2>9. /\ LoginOK(k2, cl, userManager') /\ TableOK(k2, cl, s, groupManager')
        /\ GrantOK(k2, cl, s, groupManager')
    BY <2>2, <2>6 DEF LoginOK, TableOK, GrantOK
  <2> QED
    BY <2>7, <2>8, <2>9 DEF ClientInv, k2, cl, s
<1> QED
  BY <1>3, <1>12, <1>13, <1>14, <1>15, <1>17, <1>18, <1>19 DEF ProcessClient

-----------------------------------------------------------------------------
\* Every step of the system keeps the invariant.

\* A client touches its own connection only.
LEMMA OwnConnection ==
  ASSUME SystemInv, NEW c \in Clients,
         \/ ConnectToServer(c) \/ ReceiveResponse(c) \/ ClientEnds(c)
         \/ \E r \in Request : SendRequest(c, r)
  PROVE  /\ UNCHANGED <<userManager, groupManager>>
         /\ \A d \in Clients : d # c => conn'[d] = conn[d]
BY DEF ConnectToServer, ReceiveResponse, ClientEnds, SendRequest, SystemInv,
       ServerInv, NetInv

\* So what the others know stays what it was.
LEMMA OthersRest ==
  ASSUME SystemInv, NEW c \in Clients, NEW d \in Clients, d # c,
         conn'[d] = conn[d], client'[d] = client[d], sessions'[d] = sessions[d],
         UNCHANGED <<userManager, groupManager>>
  PROVE  ClientInv(conn'[d], client'[d], sessions'[d], userManager', groupManager')
BY DEF SystemInv

\* The part of the invariant that is about the clients, after the step.
ClientsInv ==
  /\ ChatInv
  /\ client \in [Clients -> ClientRecord]
  /\ \A c \in Clients :
       ClientInv(conn[c], client[c], sessions[c], userManager, groupManager)

LEMMA ClientsRest ==
  ASSUME SystemInv, NEW c \in Clients,
         \/ UNCHANGED vars
         \/ ConnectToServer(c) \/ ReceiveResponse(c) \/ ClientEnds(c)
         \/ \E r \in Request : SendRequest(c, r),
         \A d \in Clients : d # c => /\ client'[d] = client[d]
                                     /\ sessions'[d] = sessions[d],
         client' \in [Clients -> ClientRecord], ChatInv',
         ClientInv(conn'[c], client'[c], sessions'[c], userManager', groupManager')
  PROVE  ClientsInv'
<1>1. /\ UNCHANGED <<userManager, groupManager>>
      /\ \A d \in Clients : d # c => conn'[d] = conn[d]
  BY OwnConnection DEF vars
<1>2. \A d \in Clients :
        ClientInv(conn'[d], client'[d], sessions'[d], userManager', groupManager')
  BY <1>1, OthersRest
<1> QED
  BY <1>2 DEF ClientsInv

LEMMA ServeStep ==
  ASSUME SystemInv, Serve
  PROVE  ClientsInv'
<1>1. Server /\ UNCHANGED <<sessions, queuesLeft, client>>
  BY DEF Serve, chatVars
<1>2. ChatInv' /\ client' \in [Clients -> ClientRecord]
  BY <1>1 DEF SystemInv, ChatInv
<1>3. ASSUME NEW c \in Clients
      PROVE  ClientInv(conn'[c], client[c], sessions[c], userManager', groupManager')
  BY <1>1, OthersServed, GoneServed, OwnServed
<1> QED
  BY <1>1, <1>2, <1>3 DEF ClientsInv

LEMMA ClientsStep ==
  ASSUME AddressesKnown, SystemInv, [SystemNext]_systemVars
  PROVE  ClientsInv'
<1>1. CASE UNCHANGED systemVars
  <2>1. UNCHANGED <<conn, userManager, groupManager, sessions, queuesLeft, client>>
    BY <1>1 DEF systemVars, vars
  <2> QED
    BY <2>1 DEF ClientsInv, SystemInv, ChatInv
<1>2. ASSUME NEW c \in Clients, Connect(c)
      PROVE  ClientsInv'
  <2>1. ClientInv(conn'[c], client'[c], sessions'[c], userManager', groupManager')
    BY <1>2, ConnectStep
  <2>2. ConnectToServer(c) /\ UNCHANGED <<sessions, queuesLeft, client>>
    BY <1>2 DEF Connect, chatVars
  <2>3. ChatInv' /\ client' \in [Clients -> ClientRecord]
    BY <2>2 DEF SystemInv, ChatInv
  <2> QED
    BY <2>1, <2>2, <2>3, ClientsRest
<1>3. ASSUME NEW c \in Clients, Choose(c)
      PROVE  ClientsInv'
  <2>1. /\ ClientInv(conn'[c], client'[c], sessions'[c], userManager', groupManager')
        /\ \A d \in Clients : d # c => client'[d] = client[d]
        /\ client' \in [Clients -> ClientRecord]
        /\ UNCHANGED <<chatVars, userManager, groupManager>>
        /\ \E r \in Request : SendRequest(c, r)
    BY <1>3, ChooseStep
  <2>2. ChatInv' /\ sessions' = sessions
    BY <2>1 DEF SystemInv, ChatInv, chatVars
  <2> QED
    BY <2>1, <2>2, ClientsRest
<1>4. ASSUME NEW c \in Clients, Read(c)
      PROVE  ClientsInv'
  <2>1. ReceiveResponse(c)
    BY <1>4 DEF Read, GrantRead, LeaveRead, LogoutRead, ExitRead, LoginRead,
                OtherRead, Reads
  <2> QED
    BY <1>4, <2>1, ReadStep, ClientsRest
<1>5. ASSUME NEW c \in Clients, Chat(c)
      PROVE  ClientsInv'
  <2>1. ChatStep(c) /\ UNCHANGED vars /\ client' = client
    BY <1>5 DEF Chat
  <2>2. ChatInv /\ client \in [Clients -> ClientRecord]
        /\ ClientInv(conn[c], client[c], sessions[c], userManager, groupManager)
    BY DEF SystemInv
  <2>3. ChatInv'
    BY <2>1, <2>2, SessionsStep DEF SessionsNext
  <2>4. /\ SameEntries(sessions[c], sessions'[c])
        /\ sessions'[c].starting # "no" => sessions[c].starting # "no"
        /\ \A d \in Clients : d # c => sessions'[d] = sessions[d]
    BY <2>1, <2>2, ChatStepEffect
  <2>5. ClientInv(conn[c], client[c], sessions'[c], userManager, groupManager)
    BY <2>2, <2>4, SessionsChange
  <2>6. UNCHANGED <<conn, userManager, groupManager>>
    BY <2>1 DEF vars
  <2> QED
    BY <2>1, <2>2, <2>3, <2>4, <2>5, <2>6, ClientsRest
<1>6. ASSUME NEW c \in Clients, Die(c)
      PROVE  ClientsInv'
  <2>1. ClientEnds(c)
    BY <1>6 DEF Die
  <2> QED
    BY <1>6, <2>1, DieStep, ClientsRest
<1> QED
  BY <1>1, <1>2, <1>3, <1>4, <1>5, <1>6, ServeStep DEF SystemNext

LEMMA SystemStep ==
  ASSUME AddressesKnown, SystemInv, [SystemNext]_systemVars
  PROVE  SystemInv'
<1>1. ServerInv /\ AnsweredInv /\ UnreadInv /\ [Next]_vars
  BY StepsOfTheServer DEF SystemInv
<1>2. ServerInv' /\ AnsweredInv' /\ UnreadInv'
  BY <1>1, ServerStep, AnsweredStep, UnreadStep
<1> QED
  BY <1>2, ClientsStep DEF ClientsInv, SystemInv

LEMMA SystemStarts ==
  ASSUME SystemInit
  PROVE  SystemInv
<1>1. /\ Init /\ conn = [c \in Clients |-> Down]
      /\ sessions = [c \in Clients |-> NoSessions] /\ queuesLeft = MaxQueues
      /\ client = [c \in Clients |-> NewClient]
  BY DEF SystemInit, Init, SessionsInit
<1>2. ServerInv
  BY <1>1, InitInv
<1>3. AnsweredInv /\ UnreadInv
  BY <1>1, NothingInFlight DEF AnsweredInv, UnreadInv, UnreadOK, Down
<1>4. ChatInv
  <2>1. NoSessions \in SessionRecord
    BY NoneKeeps DEF SessionInv
  <2> QED
    BY <1>1, <2>1, NoneKeeps, ChatSessionsAssumption DEF ChatInv
<1>5. NewClient \in ClientRecord
  BY DEF NewClient, ClientRecord
<1>6. ClientInv(Down, NewClient, NoSessions, userManager, groupManager)
  <2>1. MenuOK(Down, NewClient, NoSessions)
    BY DEF MenuOK, NewClient, NoSessions
  <2>2. NewClient.menu # "group" /\ Down.toClient = <<>> /\ Down.toServer = <<>>
    BY DEF NewClient, Down
  <2> QED
    BY <2>1, <2>2, QuietKeeps
<1> QED
  BY <1>1, <1>2, <1>3, <1>4, <1>5, <1>6 DEF SystemInv

LEMMA SystemInvariant ==
  ASSUME AddressesKnown
  PROVE  SystemSpec => []SystemInv
<1>1. SystemInit => SystemInv
  BY SystemStarts
<1>2. SystemInv /\ [SystemNext]_systemVars => SystemInv'
  BY SystemStep
<1> QED
  BY <1>1, <1>2, PTL DEF SystemSpec

-----------------------------------------------------------------------------
\* Ports: the groups of the server and the chats of all clients, also those
\* left behind, together have a port for one group only.

InLive(group, port) ==
  group \in DOMAIN Live /\ Live[group].multicastPort = port

Carried(group, port) ==
  \/ InLive(group, port)
  \/ \E c \in Clients : \E a : Mentions(sessions[c], group, a) /\ a[2] = port

PortInv ==
  /\ groupManager.nextMulticastPort \in Nat
  /\ DefaultMulticastPort <= groupManager.nextMulticastPort
  /\ \A g, p : Carried(g, p) =>
       p \in Nat /\ DefaultMulticastPort <= p /\ p < groupManager.nextMulticastPort
  /\ \A g, h, p : Carried(g, p) /\ Carried(h, p) => g = h

\* A table learns of a group by a grant, and that is of a live group.
LEMMA MentionsRead ==
  ASSUME AddressesKnown, SystemInv, NEW c \in Clients, Read(c),
         NEW g, NEW a, Mentions(sessions'[c], g, a)
  PROVE  Mentions(sessions[c], g, a) \/ \E user : Holds(groupManager, user, g, a)
<1> DEFINE s == sessions[c]
           answer == Head(conn[c].toClient)
           group == client[c].pending
<1>1. /\ SessionInv(s) /\ s \in SessionRecord /\ sessions \in [Clients -> SessionRecord]
      /\ ManagerInv(groupManager)
      /\ ClientInv(conn[c], client[c], s, userManager, groupManager)
  BY DEF SystemInv, ServerInv, ChatInv, SessionInv
<1>2. ASSUME NEW t, SetSessions(c, t)
      PROVE  sessions'[c] = t
  BY <1>1, <1>2 DEF SetSessions
<1>3. CASE GrantRead(c)
  <2> DEFINE address == <<answer.ip, answer.port>>
  <2>1. Got(conn[c], {"create", "join"}) /\ StartChatSession(c, group, address)
    BY <1>3 DEF GrantRead, Reads, ReceiveResponse, Got
  <2>2. Holds(groupManager, client[c].user, group, address)
    BY <1>1, <2>1 DEF ClientInv, GrantOK
  <2>3. group \in GroupNames /\ address \in Addresses
    BY <1>1, <2>2, HeldAddress
  <2>4. sessions'[c] = s \/ sessions'[c] = Added(s, group, address)
    BY <1>1, <2>1 DEF StartChatSession, chatVars
  <2> HIDE DEF s, group, address
  <2>5. sessions'[c] = Added(s, group, address) =>
          Mentions(s, g, a) \/ (g = group /\ a = address)
    BY <1>1, <2>3, AddedEffect
  <2> QED
    BY <2>2, <2>4, <2>5 DEF s
<1>4. CASE LeaveRead(c)
  <2>1. sessions'[c] = StopChatSession(s, group)
    BY <1>2, <1>4 DEF LeaveRead
  <2> HIDE DEF s, group
  <2>2. Mentions(s, g, a)
    BY <1>1, <2>1, StopEffect
  <2> QED
    BY <2>2 DEF s
<1>5. CASE LogoutRead(c) \/ ExitRead(c)
  <2>1. sessions'[c] = StopAllChatSessions(s)
    BY <1>2, <1>5 DEF LogoutRead, ExitRead
  <2> HIDE DEF s
  <2>2. Mentions(s, g, a)
    BY <1>1, <2>1, StopAllEffect
  <2> QED
    BY <2>2 DEF s
<1>6. CASE LoginRead(c) \/ OtherRead(c)
  BY <1>6 DEF LoginRead, OtherRead, chatVars
<1> QED
  BY <1>3, <1>4, <1>5, <1>6 DEF Read

LEMMA MentionsStep ==
  ASSUME AddressesKnown, SystemInv, [SystemNext]_systemVars, NEW c \in Clients,
         NEW g, NEW a, Mentions(sessions'[c], g, a)
  PROVE  Mentions(sessions[c], g, a) \/ \E user : Holds(groupManager, user, g, a)
<1>1. CASE UNCHANGED sessions
  BY <1>1
<1>2. ASSUME NEW d \in Clients, Read(d)
      PROVE  Mentions(sessions[c], g, a) \/ \E user : Holds(groupManager, user, g, a)
  <2>1. c # d => sessions'[c] = sessions[c]
    BY <1>2, ReadStep
  <2> QED
    BY <1>2, <2>1, MentionsRead
<1>3. ASSUME NEW d \in Clients, Chat(d)
      PROVE  Mentions(sessions[c], g, a)
  BY <1>3, ChatStepEffect DEF Chat, SystemInv
<1>4. ASSUME NEW d \in Clients, Die(d)
      PROVE  Mentions(sessions[c], g, a)
  <2>1. /\ sessions'[d] = ClientGone(sessions[d]) /\ sessions[d] \in SessionRecord
        /\ c # d => sessions'[c] = sessions[c]
    BY <1>4 DEF Die, ClientDies, SetSessions, SystemInv, ChatInv
  <2> QED
    BY <2>1, GoneEffect
<1>5. ASSUME NEW d \in Clients, Connect(d) \/ Choose(d)
      PROVE  UNCHANGED sessions
  BY <1>5, ChooseStep DEF Connect, chatVars
<1>6. Serve \/ UNCHANGED systemVars => UNCHANGED sessions
  BY DEF Serve, systemVars, chatVars
<1> QED
  BY <1>1, <1>2, <1>3, <1>4, <1>5, <1>6 DEF SystemNext

\* A step opens at most one group, on the next port.
LEMMA NewGroupStep ==
  ASSUME ServerInv, [Next]_vars
  PROVE  /\ Stable(groupManager, groupManager')
         /\ \E name : OnlyNew(groupManager, groupManager', name)
<1>1. Stable(groupManager, groupManager')
  BY GroupsStep
<1>2. CASE \A d \in Clients : ~ProcessClient(d)
  <2>1. groupManager' = groupManager
    BY <1>2, ManagersUntouched
  <2>2. \A name : OnlyNew(groupManager, groupManager', name)
    BY <2>1 DEF OnlyNew
  <2> QED
    BY <1>1, <2>2
<1>3. ASSUME NEW d \in Clients, ProcessClient(d)
      PROVE  OnlyNew(groupManager, groupManager', Packet(d).group)
  BY <1>3, GroupsServed
<1> QED
  BY <1>1, <1>2, <1>3

LEMMA PortsStep ==
  ASSUME AddressesKnown, SystemInv, PortInv, [SystemNext]_systemVars
  PROVE  PortInv'
<1> DEFINE next == groupManager.nextMulticastPort
           next2 == groupManager'.nextMulticastPort
<1>1. ServerInv /\ ManagerInv(groupManager) /\ [Next]_vars /\ ServerInv'
  BY StepsOfTheServer, ServerStep DEF SystemInv, ServerInv
<1>2. Stable(groupManager, groupManager')
  BY <1>1, NewGroupStep
<1>3. PICK name : OnlyNew(groupManager, groupManager', name)
  BY <1>1, NewGroupStep
<1>4. next \in Nat /\ next2 \in Nat /\ next <= next2
  BY <1>1, <1>2 DEF Stable, ServerInv, ManagerInv, ManagerTypeOK
<1>5. ASSUME NEW g, NEW p, InLive(g, p)'
      PROVE  InLive(g, p) \/ (g = name /\ p = next /\ next2 = next + 1)
  <2>1. CASE g \in DOMAIN groupManager.groups
    BY <1>2, <1>5, <2>1 DEF InLive, Live, Stable
  <2>2. CASE g \notin DOMAIN groupManager.groups
    BY <1>3, <1>5, <2>2 DEF InLive, Live, OnlyNew
  <2> QED
    BY <2>1, <2>2
<1>6. ASSUME NEW c \in Clients, NEW g, NEW a, Mentions(sessions'[c], g, a)
      PROVE  Carried(g, a[2])
  <2>1. CASE Mentions(sessions[c], g, a)
    BY <2>1 DEF Carried
  <2>2. ASSUME NEW user, Holds(groupManager, user, g, a)
        PROVE  InLive(g, a[2])
    BY <2>2 DEF Holds, InLive, Live
  <2> QED
    BY <1>6, <2>1, <2>2, MentionsStep DEF Carried
<1>7. ASSUME NEW g, NEW p, Carried(g, p)'
      PROVE  Carried(g, p) \/ (g = name /\ p = next /\ next2 = next + 1)
  <2>1. CASE InLive(g, p)'
    BY <1>5, <2>1 DEF Carried
  <2>2. ASSUME NEW c \in Clients, NEW a, Mentions(sessions'[c], g, a), a[2] = p
        PROVE  Carried(g, p)
    BY <1>6, <2>2
  <2> QED
    BY <1>7, <2>1, <2>2 DEF Carried
<1>8. ASSUME NEW g, NEW p, Carried(g, p)'
      PROVE  p \in Nat /\ DefaultMulticastPort <= p /\ p < next2
  <2>1. DefaultMulticastPort \in Nat /\ DefaultMulticastPort <= next
    BY GroupManagerAssumption DEF PortInv
  <2> QED
    BY <1>4, <1>7, <1>8, <2>1 DEF PortInv
<1>9. ASSUME NEW g, NEW h, NEW p, Carried(g, p)', Carried(h, p)'
      PROVE  g = h
  <2>1. /\ Carried(g, p) \/ (g = name /\ p = next)
        /\ Carried(h, p) \/ (h = name /\ p = next)
    BY <1>7, <1>9
  <2>2. Carried(g, p) \/ Carried(h, p) => p # next
    BY <1>4 DEF PortInv
  <2> QED
    BY <2>1, <2>2 DEF PortInv
<1>10. DefaultMulticastPort <= next2
  BY <1>4, GroupManagerAssumption DEF PortInv
<1> QED
  BY <1>4, <1>8, <1>9, <1>10 DEF PortInv

LEMMA PortsStart ==
  ASSUME SystemInit
  PROVE  PortInv
<1>1. /\ DOMAIN Live = {} /\ sessions = [c \in Clients |-> NoSessions]
  BY DEF SystemInit, SessionsInit, Init, GroupManagerInit, GroupManagerCreate, Live
<1>2. \A g, a : ~Mentions(NoSessions, g, a)
  BY DEF Mentions, InTable, NoSessions, Running
<1>3. \A g, p : ~Carried(g, p)
  BY <1>1, <1>2 DEF Carried, InLive
<1>4. groupManager.nextMulticastPort = DefaultMulticastPort
  BY DEF SystemInit, Init, GroupManagerInit, GroupManagerCreate
<1> QED
  BY <1>3, <1>4, GroupManagerAssumption DEF PortInv

LEMMA PortInvariant ==
  ASSUME AddressesKnown
  PROVE  SystemSpec => []PortInv
<1>1. SystemInit => SystemInv /\ PortInv
  BY SystemStarts, PortsStart
<1>2. SystemInv /\ PortInv /\ [SystemNext]_systemVars => SystemInv' /\ PortInv'
  BY SystemStep, PortsStep
<1> QED
  BY <1>1, <1>2, PTL DEF SystemSpec

-----------------------------------------------------------------------------
\* The sessions of the system are those of ChatSessions.

\* What an answer does to the table, a session's environment may do: it finds
\* no start under way, and a grant is of a group that exists.
LEMMA ReadIsSessionStep ==
  ASSUME AddressesKnown, SystemInv, NEW c \in Clients, Read(c)
  PROVE  [SessionsNext]_chatVars
<1> DEFINE s == sessions[c]
           answer == Head(conn[c].toClient)
           group == client[c].pending
<1>1. /\ s \in SessionRecord /\ sessions \in [Clients -> SessionRecord]
      /\ ManagerInv(groupManager)
      /\ ClientInv(conn[c], client[c], s, userManager, groupManager)
  BY DEF SystemInv, ServerInv, ChatInv, SessionInv
<1>2. ReceiveResponse(c)
  BY DEF Read, GrantRead, LeaveRead, LogoutRead, ExitRead, LoginRead, OtherRead, Reads
<1>3. conn[c].awaiting = TRUE
  BY <1>2, ReceiveStep DEF SystemInv, AnswerRead
<1>4. Idle(c)
  BY <1>1, <1>3 DEF ClientInv, MenuOK, Idle
<1>5. CASE GrantRead(c)
  <2> DEFINE address == <<answer.ip, answer.port>>
  <2>1. Got(conn[c], {"create", "join"}) /\ StartChatSession(c, group, address)
    BY <1>5 DEF GrantRead, Reads, ReceiveResponse, Got
  <2>2. Holds(groupManager, client[c].user, group, address)
    BY <1>1, <2>1 DEF ClientInv, GrantOK
  <2>3. group \in GroupNames /\ address \in Addresses
    BY <1>1, <2>2, HeldAddress
  <2> QED
    BY <1>4, <2>1, <2>3 DEF Start, SessionsNext
<1>6. CASE LeaveRead(c)
  <2>1. SetSessions(c, StopChatSession(s, group))
    BY <1>6 DEF LeaveRead
  <2>2. CASE group \in GroupNames
    BY <1>4, <2>1, <2>2 DEF Stop, SessionsNext
  <2>3. CASE group \notin GroupNames
    <3>1. \A i \in DOMAIN s.table : s.table[i] \in Session
      BY <1>1, RecordFacts
    <3>2. Entries(s, group) = {}
      BY <2>3, <3>1 DEF Entries, Session
    <3>3. StopChatSession(s, group) = s
      BY <3>2 DEF StopChatSession
    <3>4. UNCHANGED chatVars
      BY <1>1, <2>1, <3>3 DEF SetSessions, chatVars
    <3> QED
      BY <3>4
  <2> QED
    BY <2>2, <2>3
<1>7. CASE LogoutRead(c) \/ ExitRead(c)
  BY <1>4, <1>7 DEF LogoutRead, ExitRead, StopAll, SessionsNext
<1>8. CASE LoginRead(c) \/ OtherRead(c)
  BY <1>8 DEF LoginRead, OtherRead
<1> QED
  BY <1>5, <1>6, <1>7, <1>8 DEF Read

LEMMA StepsOfTheSessions ==
  ASSUME AddressesKnown, SystemInv, [SystemNext]_systemVars
  PROVE  [SessionsNext]_chatVars
<1>1. ASSUME NEW c \in Clients, Connect(c) \/ Choose(c)
      PROVE  UNCHANGED chatVars
  BY <1>1, ChooseStep DEF Connect
<1>2. ASSUME NEW c \in Clients, Chat(c) \/ Die(c)
      PROVE  SessionsNext
  BY <1>2 DEF Chat, Die, SessionsNext
<1>3. Serve \/ UNCHANGED systemVars => UNCHANGED chatVars
  BY DEF Serve, systemVars, chatVars
<1> QED
  BY <1>1, <1>2, <1>3, ReadIsSessionStep DEF SystemNext

-----------------------------------------------------------------------------
\* The theorems.  Addresses has every address the server can give: an
\* assumption on the instance, which the code has no counterpart of.

\* client.c opens and stops its chats only as client_chat.c can take it.
THEOREM SystemImplementsSessions ==
  ASSUME AddressesKnown
  PROVE  SystemSpec => SessionsSpec
<1>1. SystemInit => SessionsInit
  BY DEF SystemInit
<1>2. SystemInv /\ [SystemNext]_systemVars => [SessionsNext]_chatVars
  BY StepsOfTheSessions
<1> QED
  BY <1>1, <1>2, SystemInvariant, PTL DEF SystemSpec, SessionsSpec

\* So in the composed system, too, no chat process escapes its client and a
\* group has one session.
THEOREM SystemKeepsSessionInvariants ==
  ASSUME AddressesKnown
  PROVE  SystemSpec => [](SessionsTypeOK /\ NoStrayProcess /\ OneSessionPerGroup)
  BY SystemImplementsSessions, SessionsTypeCorrect, NoProcessStrays,
     SessionsNeverDoubled, PTL

\* A client in its group menu that waits for nothing has its connection open.
LEMMA NothingOnTheWay ==
  ASSUME SystemInv, NEW c \in Clients, conn[c].end = "up", ~conn[c].awaiting
  PROVE  conn[c].toServer = <<>> /\ conn[c].toClient = <<>>
<1>1. conn[c] \in Connection /\ InFlightOK(conn[c], PortsOutgrown)
  BY DEF SystemInv, ServerInv, NetInv, AnsweredInv
<1>2. conn[c].awaiting = FALSE
  BY <1>1 DEF Connection
<1> QED
  BY <1>1, <1>2, OneInFlight

\* Both ends of a connection agree who is logged in.
THEOREM MenusAgreeWithServer ==
  ASSUME AddressesKnown
  PROVE  SystemSpec => []MenuAgreesWithServer
<1>1. SystemInv => MenuAgreesWithServer
  <2> SUFFICES ASSUME SystemInv, NEW c \in Clients, Alive(c),
                      client[c].menu = "group", ~conn[c].awaiting
               PROVE  LoggedInAs(userManager, conn[c].fd, client[c].user)
    BY DEF MenuAgreesWithServer, LoggedInAs
  <2>1. ~Got(conn[c], {"logout"})
    BY NothingOnTheWay DEF Got, Alive
  <2> QED
    BY <2>1 DEF SystemInv, ClientInv, LoginOK
<1> QED
  BY <1>1, SystemInvariant, PTL

\* Nobody listens or speaks in a group it is not in.
THEOREM ChatsStayMemberships ==
  ASSUME AddressesKnown
  PROVE  SystemSpec => []ChatsAreMemberships
<1>1. SystemInv /\ NoStrayProcess => ChatsAreMemberships
  <2> SUFFICES ASSUME SystemInv, NoStrayProcess, NEW c \in Clients, NEW pid \in Pids,
                      Alive(c), ~conn[c].awaiting,
                      Running(sessions[c], pid), ~sessions[c].processes[pid].orphan
               PROVE  Holds(groupManager, client[c].user,
                            sessions[c].processes[pid].group,
                            sessions[c].processes[pid].address)
    BY DEF ChatsAreMemberships, Holds, Live
  <2> DEFINE s == sessions[c]
             p == sessions[c].processes[pid]
  <2>1. PICK i \in DOMAIN s.table :
          s.table[i].group = p.group /\ s.table[i].address = p.address
    BY DEF NoStrayProcess, BelongsTo
  <2>2. ClientInv(conn[c], client[c], s, userManager, groupManager)
    BY DEF SystemInv
  <2>3. client[c].menu = "group"
    BY <2>1, <2>2 DEF ClientInv, MenuOK
  <2>4. \A tags : ~Got(conn[c], tags)
    BY NothingOnTheWay DEF Got, Alive
  <2>5. Holds(groupManager, client[c].user, s.table[i].group, s.table[i].address)
    BY <2>2, <2>3, <2>4 DEF ClientInv, TableOK
  <2> QED
    BY <2>1, <2>5
<1> QED
  BY <1>1, SystemInvariant, SystemKeepsSessionInvariants, PTL

\* A grant is never taken for a chat of the past.
THEOREM GrantsStayNew ==
  ASSUME AddressesKnown
  PROVE  SystemSpec => []GrantsAreNew
<1>1. SystemInv => GrantsAreNew
  <2> SUFFICES ASSUME SystemInv, NEW c \in Clients, conn[c].toClient # <<>>,
                      Head(conn[c].toClient).tag \in {"create", "join"},
                      Head(conn[c].toClient).ok
               PROVE  Entries(sessions[c], client[c].pending) = {}
    BY DEF GrantsAreNew
  <2>1. conn[c].toClient \in Seq(Response)
    BY ChannelLengths DEF SystemInv, ServerInv, NetInv
  <2>2. Head(conn[c].toClient) \in Response
    BY <2>1, HeadTailProperties
  <2>3. Head(conn[c].toClient).ok = TRUE
    BY <2>2 DEF Response, StatusResponse, GroupInfoResponse
  <2>4. Got(conn[c], {"create", "join"})
    BY <2>3 DEF Got
  <2> QED
    BY <2>4 DEF SystemInv, ClientInv, GrantOK
<1> QED
  BY <1>1, SystemInvariant, PTL

\* Ports that are given one after the other are told apart on the wire as
\* long as there are no more of them than the wire has.
LEMMA WireTellsApart ==
  ASSUME NEW a \in Nat, NEW b \in Nat, OnWire(a) = OnWire(b),
         DefaultMulticastPort <= a, a < DefaultMulticastPort + WirePorts,
         DefaultMulticastPort <= b, b < DefaultMulticastPort + WirePorts
  PROVE  a = b
<1> DEFINE w == WirePorts
           qa == a \div w
           qb == b \div w
           r == a % w
<1>1. w \in Nat /\ w > 0 /\ DefaultMulticastPort \in Nat
  BY ChatServerAssumption, GroupManagerAssumption
<1>2. /\ qa \in Int /\ qb \in Int /\ r \in Nat
      /\ a = w * qa + r /\ b = w * qb + r
  BY <1>1 DEF OnWire
<1>3. a - b < w /\ b - a < w
  BY <1>1
<1> HIDE DEF w, qa, qb, r
<1>4. a - b = w * (qa - qb)
  BY <1>1, <1>2
<1>5. CASE qa - qb >= 1
  <2>1. w * (qa - qb) >= w
    BY <1>1, <1>2, <1>5
  <2> QED
    BY <1>1, <1>2, <1>3, <1>4, <2>1
<1>6. CASE qb - qa >= 1
  <2>1. b - a = w * (qb - qa)
    BY <1>1, <1>2
  <2>2. w * (qb - qa) >= w
    BY <1>1, <1>2, <1>6
  <2> QED
    BY <1>1, <1>2, <1>3, <2>1, <2>2
<1>7. CASE qa = qb
  BY <1>2, <1>7
<1> QED
  BY <1>2, <1>5, <1>6, <1>7

\* Groups never hear each other, nor do chats that were left behind, as long
\* as no port repeats on the wire.
THEOREM GroupsNeverCross ==
  ASSUME AddressesKnown
  PROVE  SystemSpec => []NoCrosstalk
<1>1. PortInv => NoCrosstalk
  <2> SUFFICES ASSUME PortInv, NEW c1 \in Clients, NEW pid1 \in Pids,
                      groupManager.nextMulticastPort <= DefaultMulticastPort + WirePorts,
                      Running(sessions[c1], pid1)
               PROVE  LET p1 == sessions[c1].processes[pid1]
                      IN  /\ \A n \in DOMAIN Live :
                               OnWire(Live[n].multicastPort) = OnWire(p1.address[2])
                                 => n = p1.group
                          /\ \A c2 \in Clients, pid2 \in Pids :
                               LET p2 == sessions[c2].processes[pid2]
                               IN  /\ Running(sessions[c2], pid2)
                                   /\ OnWire(p1.address[2]) = OnWire(p2.address[2])
                                   => p1.group = p2.group
    BY DEF NoCrosstalk
  <2>1. ASSUME NEW c \in Clients, NEW pid \in Pids, Running(sessions[c], pid)
        PROVE  LET p == sessions[c].processes[pid] IN Carried(p.group, p.address[2])
    BY <2>1 DEF Carried, Mentions
  <2>2. ASSUME NEW n \in DOMAIN Live
        PROVE  Carried(n, Live[n].multicastPort)
    BY DEF Carried, InLive
  <2>3. ASSUME NEW g, NEW h, NEW p, NEW q, Carried(g, p), Carried(h, q),
               OnWire(p) = OnWire(q)
        PROVE  g = h
    <3>1. /\ p \in Nat /\ DefaultMulticastPort <= p /\ p < groupManager.nextMulticastPort
          /\ q \in Nat /\ DefaultMulticastPort <= q /\ q < groupManager.nextMulticastPort
      BY <2>3 DEF PortInv
    <3>2. groupManager.nextMulticastPort \in Nat
      BY DEF PortInv
    <3>3. p = q
      BY <2>3, <3>1, <3>2, WireTellsApart, ChatServerAssumption, GroupManagerAssumption
    <3> QED
      BY <2>3, <3>3 DEF PortInv
  <2> QED
    BY <2>1, <2>2, <2>3
<1> QED
  BY <1>1, PortInvariant, PTL
=============================================================================
