---------------------------- MODULE ChatSessions ----------------------------
(***************************************************************************)
(* The chat sessions of the clients (client/src/client_chat.c): each keeps *)
(* a table of the groups it chats in, each with a receiver and a sender    *)
(* process that run in terminals of their own (the first lines of main in  *)
(* client.c) and report their PIDs through a message queue                 *)
(* (common/src/chat_ipc.c).                                                *)
(*                                                                         *)
(* sessions[c] is a record s:                                              *)
(*   table       g_sessions, up to g_sessionCount                          *)
(*   starting    what StartChatSession does next for the last entry of the *)
(*               table: launch the "receiver" or the "sender", wait for    *)
(*               the "receiver_pid" or the "sender_pid"; or "no"           *)
(*   inbox       the reports in the message queue of the session started   *)
(*   processes   the chat processes started for c, by PID                  *)
(* queuesLeft is how many message queues the kernel will still create: the *)
(* clients run on one machine, each session takes a queue and nobody gives *)
(* one back.                                                               *)
(*                                                                         *)
(* A chat process does not notice when its client dies: "orphan" marks the *)
(* processes of a client that is gone.  Each client has PIDs of its own: a *)
(* signal that would reach another client's process by a reused PID ends a *)
(* process that may end at any moment anyway.                              *)
(***************************************************************************)
EXTENDS ChatCommon, Integers, Sequences

CONSTANTS Addresses,        \* multicast addresses, as pairs [ip, port]
          Pids,             \* PIDs the kernel gives to chat processes
          MaxActiveGroups,  \* MAX_ACTIVE_GROUPS: the size of g_sessions
          MaxQueues         \* the kernel's limit of message queues

NoPid == -1

ASSUME ChatSessionsAssumption ==
  /\ NoPid \notin Pids
  /\ MaxActiveGroups \in Nat
  /\ MaxQueues \in Nat

VARIABLES sessions, queuesLeft

chatVars == <<sessions, queuesLeft>>

Roles == {"receiver", "sender"}

Session == [group : GroupNames, address : Addresses,
            receiver : Pids \cup {NoPid}, sender : Pids \cup {NoPid}]

Process == [role : Roles, group : GroupNames, address : Addresses,
            reported : BOOLEAN, orphan : BOOLEAN]
NoProcess == [role |-> "none"]

NoSessions ==
  [table |-> <<>>, starting |-> "no", inbox |-> {},
   processes |-> [pid \in Pids |-> NoProcess]]

-----------------------------------------------------------------------------
\* The client's side.

SetSessions(c, s) ==
  /\ sessions' = [sessions EXCEPT ![c] = s]
  /\ UNCHANGED queuesLeft

\* FindChatSession, as the set of matching indices.
Entries(s, group) == {i \in DOMAIN s.table : s.table[i].group = group}

NewSession(group, address) ==
  [group |-> group, address |-> address, receiver |-> NoPid, sender |-> NoPid]

\* AddChatSession, at the start.
Added(s, group, address) ==
  [s EXCEPT !.table = Append(@, NewSession(group, address)),
            !.starting = "receiver", !.inbox = {}]

\* Mutant: a group that is open already is opened again.
StartChatSession_Again(c, group, address) ==
  IF Len(sessions[c].table) = MaxActiveGroups \/ queuesLeft = 0
    THEN UNCHANGED chatVars
    ELSE /\ sessions' = [sessions EXCEPT ![c] = Added(@, group, address)]
         /\ queuesLeft' = queuesLeft - 1

\* StartChatSession up to the first call of system().  An entry that was
\* added is taken back when no message queue can be created.
StartChatSession(c, group, address) ==
  IF \/ Entries(sessions[c], group) # {}
     \/ Len(sessions[c].table) = MaxActiveGroups
     \/ queuesLeft = 0
    THEN UNCHANGED chatVars
    ELSE /\ sessions' = [sessions EXCEPT ![c] = Added(@, group, address)]
         /\ queuesLeft' = queuesLeft - 1

\* The entry that is being started.
Newest(s) == s.table[Len(s.table)]

NextStart(role) == IF role = "receiver" THEN "sender" ELSE "receiver_pid"

\* system("gnome-terminal ...") puts the process on its way.
Launched(s, role, pid) ==
  [s EXCEPT !.starting = NextStart(role),
            !.processes[pid] = [role |-> role, group |-> Newest(s).group,
                                address |-> Newest(s).address,
                                reported |-> FALSE, orphan |-> FALSE]]

\* The terminal could not be started: system() is not asked for its result.
NotLaunched(s, role) == [s EXCEPT !.starting = NextStart(role)]

WaitsFor(s, role) ==
  s.starting = IF role = "receiver" THEN "receiver_pid" ELSE "sender_pid"

\* Mutant: the second call asks for messages of the first type again.
PidReceived_TypeOneTwice(s, role, pid) ==
  [s EXCEPT !.inbox = @ \ {[role |-> role, pid |-> pid]},
            !.starting = "receiver_pid",
            !.table[Len(s.table)].receiver = pid]

\* ReceivePid: msgrcv takes a message of this type out of the queue.
PidReceived(s, role, pid) ==
  [s EXCEPT !.inbox = @ \ {[role |-> role, pid |-> pid]},
            !.starting = IF role = "receiver" THEN "sender_pid" ELSE "no",
            !.table[Len(s.table)] = IF role = "receiver"
                                      THEN [@ EXCEPT !.receiver = pid]
                                      ELSE [@ EXCEPT !.sender = pid]]

\* kill() ends whatever process has one of these PIDs now.
Killed(processes, pids) ==
  [pid \in DOMAIN processes |-> IF pid \in pids THEN NoProcess
                                                ELSE processes[pid]]

\* RemoveChatSession: the last entry takes the place of the removed one.
RemoveChatSession(table, i) ==
  SubSeq([table EXCEPT ![i] = table[Len(table)]], 1, Len(table) - 1)

\* Mutant: the sender is forgotten.
StopChatSession_SenderForgotten(s, group) ==
  LET i == CHOOSE i \in Entries(s, group) :
             \A other \in Entries(s, group) : i <= other
  IN  IF Entries(s, group) = {} THEN s
      ELSE [s EXCEPT !.processes = Killed(@, {s.table[i].receiver}),
                     !.table = RemoveChatSession(@, i)]

\* Mutant: the processes end, the entry stays in the table.
StopChatSession_EntryKept(s, group) ==
  [s EXCEPT !.processes =
     Killed(@, {s.table[i].receiver : i \in Entries(s, group)}
                 \cup {s.table[i].sender : i \in Entries(s, group)})]

StopChatSession(s, group) ==
  LET i == CHOOSE i \in Entries(s, group) :
             \A other \in Entries(s, group) : i <= other
  IN  IF Entries(s, group) = {} THEN s
      ELSE [s EXCEPT !.processes = Killed(@, {s.table[i].receiver,
                                              s.table[i].sender}),
                     !.table = RemoveChatSession(@, i)]

\* Stops the first session of the table until there is none.
StopAllChatSessions(s) ==
  [s EXCEPT !.processes = Killed(@, {s.table[i].receiver : i \in DOMAIN s.table}
                                    \cup {s.table[i].sender :
                                            i \in DOMAIN s.table}),
            !.table = <<>>]

-----------------------------------------------------------------------------
\* The chat processes.

Running(s, pid) == s.processes[pid] # NoProcess

\* SendPid, the first thing a chat process does.  (The queue of a client
\* that is gone is read by nobody.)
Reported(s, pid) ==
  [s EXCEPT !.processes[pid].reported = TRUE,
            !.inbox = IF s.processes[pid].orphan THEN @
                      ELSE @ \cup {[role |-> s.processes[pid].role,
                                    pid |-> pid]}]

\* The process ends: its terminal is closed, its socket cannot be opened,
\* its input ends.
ProcessEnded(s, pid) == [s EXCEPT !.processes[pid] = NoProcess]

\* The client ends; its chat processes do not.
ClientGone(s) ==
  [s EXCEPT !.table = <<>>, !.starting = "no", !.inbox = {},
            !.processes = [pid \in Pids |->
              IF @[pid] = NoProcess THEN NoProcess
                                    ELSE [@[pid] EXCEPT !.orphan = TRUE]]]

-----------------------------------------------------------------------------
\* The steps of client c and of its chat processes.

SessionsInit ==
  /\ sessions = [c \in Clients |-> NoSessions]
  /\ queuesLeft = MaxQueues

\* StartChatSession is not waiting for anything.
Idle(c) == sessions[c].starting = "no"

\* A terminal is started for the receiver and then for the sender.
Launch(c, role) ==
  /\ sessions[c].starting = role
  /\ \/ \E pid \in Pids : /\ ~Running(sessions[c], pid)
                          /\ SetSessions(c, Launched(sessions[c], role, pid))
     \/ SetSessions(c, NotLaunched(sessions[c], role))

ReceivePid(c, role) ==
  /\ WaitsFor(sessions[c], role)
  /\ \E pid \in Pids :
       /\ [role |-> role, pid |-> pid] \in sessions[c].inbox
       /\ SetSessions(c, PidReceived(sessions[c], role, pid))

SendPid(c, pid) ==
  /\ Running(sessions[c], pid) /\ ~sessions[c].processes[pid].reported
  /\ SetSessions(c, Reported(sessions[c], pid))

ProcessEnds(c, pid) ==
  /\ Running(sessions[c], pid)
  /\ SetSessions(c, ProcessEnded(sessions[c], pid))

Starting(c) == \E role \in Roles : Launch(c, role) \/ ReceivePid(c, role)

ChatStep(c) ==
  \/ Starting(c)
  \/ \E pid \in Pids : SendPid(c, pid) \/ ProcessEnds(c, pid)

-----------------------------------------------------------------------------
\* Clients that open and close sessions as they like.

Start(c, group, address) == Idle(c) /\ StartChatSession(c, group, address)

Stop(c, group) ==
  Idle(c) /\ SetSessions(c, StopChatSession(sessions[c], group))

StopAll(c) == Idle(c) /\ SetSessions(c, StopAllChatSessions(sessions[c]))

ClientDies(c) == SetSessions(c, ClientGone(sessions[c]))

SessionsNext ==
  \E c \in Clients :
    \/ \E group \in GroupNames, address \in Addresses :
         Start(c, group, address)
    \/ \E group \in GroupNames : Stop(c, group)
    \/ StopAll(c)
    \/ ClientDies(c)
    \/ ChatStep(c)

SessionsSpec == SessionsInit /\ [][SessionsNext]_chatVars

\* A client that can go on with a start does, and a chat process that was
\* launched reports unless it ends first.
SessionsFairness ==
  \A c \in Clients :
    /\ WF_chatVars(Starting(c))
    /\ \A pid \in Pids : WF_chatVars(SendPid(c, pid))

SessionsFairSpec == SessionsSpec /\ SessionsFairness

-----------------------------------------------------------------------------
\* Properties.

SessionsTypeOf(s) ==
  /\ s.table \in Seq(Session) /\ Len(s.table) <= MaxActiveGroups
  /\ s.starting \in {"no", "receiver", "sender", "receiver_pid", "sender_pid"}
  /\ s.inbox \subseteq [role : Roles, pid : Pids]
  /\ s.processes \in [Pids -> Process \cup {NoProcess}]

\* Process pid was launched for entry i and the client knows it or is still
\* going to hear of it.
BelongsTo(s, pid, i) ==
  LET p == s.processes[pid]
  IN  /\ s.table[i].group = p.group /\ s.table[i].address = p.address
      /\ \/ pid = IF p.role = "receiver" THEN s.table[i].receiver
                                         ELSE s.table[i].sender
         \/ /\ i = Len(s.table) /\ s.starting # "no"
            /\ p.reported => [role |-> p.role, pid |-> pid] \in s.inbox

\* Type invariant.
SessionsTypeOK ==
  /\ queuesLeft \in 0..MaxQueues
  /\ DOMAIN sessions = Clients
  /\ \A c \in Clients : SessionsTypeOf(sessions[c])

\* No process of a living client escapes it: every chat process belongs to
\* an open session that knows its PID or is about to be told, so stopping
\* the session, or all of them, ends it.  PIDs that were reused and entries
\* that were moved in the table do not change this.
NoStrayProcess ==
  \A c \in Clients, pid \in Pids :
    LET s == sessions[c]
    IN  Running(s, pid) /\ ~s.processes[pid].orphan =>
          \E i \in DOMAIN s.table : BelongsTo(s, pid, i)

\* The table has one entry for a group, and once StartChatSession is over
\* the entry has both PIDs.
OneSessionPerGroup ==
  \A c \in Clients :
    LET table == sessions[c].table
    IN  \A i \in DOMAIN table :
          /\ \A j \in DOMAIN table : table[i].group = table[j].group => i = j
          /\ NoPid \in {table[i].receiver, table[i].sender} =>
               i = Len(table) /\ ~Idle(c)

\* The process the client waits for is gone, and did not report.
Abandoned(s) ==
  \E role \in Roles :
    /\ WaitsFor(s, role)
    /\ \A m \in s.inbox : m.role # role
    /\ \A pid \in Pids :
         LET p == s.processes[pid]
         IN  Running(s, pid) /\ ~p.orphan =>
               ~(p.role = role /\ p.group = Newest(s).group)

\* StartChatSession returns, unless a chat process is gone before it has
\* reported: then the client waits for ever.
StartCompletes ==
  \A c \in Clients : ~Idle(c) ~> (Idle(c) \/ Abandoned(sessions[c]))
=============================================================================
