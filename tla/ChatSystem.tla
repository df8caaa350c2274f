----------------------------- MODULE ChatSystem -----------------------------
(***************************************************************************)
(* The whole chat system: the server (ChatServer), and each client's menus *)
(* (client/src/client.c) and requests (client/src/client_manager.c), which *)
(* open and close its chat sessions (ChatSessions) as answers come in.     *)
(*                                                                         *)
(* A client is one run of the client program: it connects once, and when   *)
(* it has ended only its chat processes may be left.  client[c] is what it *)
(* keeps next to its connection and its sessions:                          *)
(*   menu     the menu it is in, "main" or "group", "over" when it was     *)
(*            told that its exit was accepted, "gone" when it has ended    *)
(*   user     g_loggedInUsername, set before the login is even sent        *)
(*   pending  g_pendingGroupName, the group of the last group request      *)
(*                                                                         *)
(* The program is one thread: while it waits for an answer or for a PID it *)
(* shows no menu.                                                          *)
(***************************************************************************)
EXTENDS ChatServer, ChatSessions

CONSTANT NoName   \* the empty string both globals start with

VARIABLE client

systemVars == <<vars, sessions, queuesLeft, client>>

NewClient == [menu |-> "main", user |-> NoName, pending |-> NoName]

SystemInit ==
  /\ Init
  /\ SessionsInit
  /\ client = [c \in Clients |-> NewClient]

-----------------------------------------------------------------------------
\* The menus: a choice builds one request and sends it.

Connect(c) ==
  /\ client[c].menu = "main"
  /\ ConnectToServer(c)
  /\ UNCHANGED <<chatVars, client>>

ShowsMenu(c, menu) == client[c].menu = menu /\ Idle(c)

ChooseRegister(c) ==
  /\ ShowsMenu(c, "main")
  /\ \E user \in Users, password \in Passwords :
       SendRequest(c, [tag |-> "register", user |-> user,
                       password |-> password])
  /\ UNCHANGED <<chatVars, client>>

ChooseLogin(c) ==
  /\ ShowsMenu(c, "main")
  /\ \E user \in Users, password \in Passwords :
       /\ SendRequest(c, [tag |-> "login", user |-> user,
                          password |-> password])
       /\ client' = [client EXCEPT ![c].user = user]
  /\ UNCHANGED chatVars

ChooseExit(c) ==
  /\ ShowsMenu(c, "main")
  /\ SendRequest(c, [tag |-> "exit"])
  /\ UNCHANGED <<chatVars, client>>

\* Create, join and leave remember the group they ask about.
ChooseGroupRequest(c) ==
  /\ ShowsMenu(c, "group")
  /\ \E request \in GroupRequest :
       /\ SendRequest(c, request)
       /\ client' = [client EXCEPT ![c].pending = request.group]
  /\ UNCHANGED chatVars

ChooseLogout(c) ==
  /\ ShowsMenu(c, "group")
  /\ SendRequest(c, [tag |-> "logout"])
  /\ UNCHANGED <<chatVars, client>>

-----------------------------------------------------------------------------
\* The answers (the rest of ProcessClientRequest, and what the menu loops
\* make of its result).

Reads(c, tags, ok) ==
  /\ ReceiveResponse(c)
  /\ Head(conn[c].toClient).tag \in tags
  /\ Head(conn[c].toClient).ok = ok

GrantRead(c) ==
  /\ Reads(c, {"create", "join"}, TRUE)
  /\ LET answer == Head(conn[c].toClient)
     IN  StartChatSession(c, client[c].pending, <<answer.ip, answer.port>>)
  /\ UNCHANGED client

LeaveRead(c) ==
  /\ Reads(c, {"leave"}, TRUE)
  /\ SetSessions(c, StopChatSession(sessions[c], client[c].pending))
  /\ UNCHANGED client

\* Mutant: the chats go on after a logout.
LogoutRead_SessionsKept(c) ==
  /\ Reads(c, {"logout"}, TRUE)
  /\ client' = [client EXCEPT ![c].menu = "main"]
  /\ UNCHANGED chatVars

LogoutRead(c) ==
  /\ Reads(c, {"logout"}, TRUE)
  /\ SetSessions(c, StopAllChatSessions(sessions[c]))
  /\ client' = [client EXCEPT ![c].menu = "main"]

ExitRead(c) ==
  /\ Reads(c, {"exit"}, TRUE)
  /\ SetSessions(c, StopAllChatSessions(sessions[c]))
  /\ client' = [client EXCEPT ![c].menu = "over"]

\* Mutant: the result of the login is not looked at.
LoginRead_AnyResult(c) ==
  /\ ReceiveResponse(c)
  /\ Head(conn[c].toClient).tag = "login"
  /\ client' = [client EXCEPT ![c].menu = "group"]
  /\ UNCHANGED chatVars

LoginRead(c) ==
  /\ Reads(c, {"login"}, TRUE)
  /\ client' = [client EXCEPT ![c].menu = "group"]
  /\ UNCHANGED chatVars

\* A registration, and everything that was refused, is only printed; a
\* refused logout leaves the client in its group menu.
OtherRead(c) ==
  /\ \/ Reads(c, {"register"}, TRUE)
     \/ \E tag \in {"register", "login", "logout", "create", "join", "leave"} :
          Reads(c, {tag}, FALSE)
  /\ UNCHANGED <<chatVars, client>>

Read(c) ==
  \/ GrantRead(c) \/ LeaveRead(c) \/ LogoutRead(c)
  \/ ExitRead(c) \/ LoginRead(c) \/ OtherRead(c)

-----------------------------------------------------------------------------
Choose(c) ==
  \/ ChooseRegister(c) \/ ChooseLogin(c) \/ ChooseExit(c)
  \/ ChooseGroupRequest(c) \/ ChooseLogout(c)

\* The client ends: killed, or after its exit.  Its chat processes stay.
Die(c) ==
  /\ ClientEnds(c)
  /\ ClientDies(c)
  /\ client' = [client EXCEPT ![c].menu = "gone"]

Chat(c) == ChatStep(c) /\ UNCHANGED <<vars, client>>

Serve == Server /\ UNCHANGED <<chatVars, client>>

SystemNext ==
  \/ Serve
  \/ \E c \in Clients :
       Connect(c) \/ Choose(c) \/ Read(c) \/ Chat(c) \/ Die(c)

SystemSpec == SystemInit /\ [][SystemNext]_systemVars

-----------------------------------------------------------------------------
\* Properties.

\* Both ends of a connection agree who is logged in: a client in its group
\* menu that waits for no answer is logged in at the server under the name
\* its chat processes use, even when the login of an earlier owner of its
\* descriptor went stale.
MenuAgreesWithServer ==
  \A c \in Clients :
    Alive(c) /\ client[c].menu = "group" /\ ~conn[c].awaiting =>
      /\ IsLoggedIn(userManager, conn[c].fd)
      /\ UsernameBySocket(userManager, conn[c].fd) = client[c].user

\* Nobody listens or speaks in a group it is not in: as long as its client
\* lives and waits for no answer, a chat process belongs to a live group
\* that has that very address and the client's user among its members.
\* This goes through everything: the grant, the time it takes to reach the
\* client, the start of the processes, and the way they are ended.
ChatsAreMemberships ==
  \A c \in Clients : \A pid \in Pids :
    LET p == sessions[c].processes[pid]
    IN  /\ Alive(c) /\ ~conn[c].awaiting
        /\ Running(sessions[c], pid) /\ ~p.orphan
        => /\ p.group \in DOMAIN Live
           /\ <<Live[p.group].multicastIp, Live[p.group].multicastPort>>
                = p.address
           /\ client[c].user \in Live[p.group].members

\* A grant finds no chat of its group in the client's table.  (It would be
\* taken for the chat that was granted, with an address of the past: "Chat
\* session already opened".)
GrantsAreNew ==
  \A c \in Clients :
    Alive(c) /\ conn[c].toClient # <<>> =>
      LET answer == Head(conn[c].toClient)
      IN  answer.tag \in {"create", "join"} /\ answer.ok =>
            Entries(sessions[c], client[c].pending) = {}

\* As long as no more ports were given than the wire has, groups never hear
\* each other.  A receiver listens on every address of its port (INADDR_ANY
\* and htons, multicast.c), so two chat processes with the same port on the
\* wire must be of the same group, and one with the port of a live group of
\* that group: also when one was left behind by a client that died, or was
\* started from an answer that was on its way for long.  (Later ports repeat
\* on the wire: PortsUniqueOnTheWire.)
NoCrosstalk ==
  groupManager.nextMulticastPort <= DefaultMulticastPort + WirePorts =>
  \A c1, c2 \in Clients : \A pid1, pid2 \in Pids :
    LET p1 == sessions[c1].processes[pid1]
        p2 == sessions[c2].processes[pid2]
    IN  Running(sessions[c1], pid1) =>
          /\ \A n \in DOMAIN Live :
               OnWire(Live[n].multicastPort) = OnWire(p1.address[2])
                 => n = p1.group
          /\ /\ Running(sessions[c2], pid2)
             /\ OnWire(p1.address[2]) = OnWire(p2.address[2])
             => p1.group = p2.group
=============================================================================
