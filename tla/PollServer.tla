----------------------------- MODULE PollServer -----------------------------
(***************************************************************************)
(* The poll server of assignment 15 (server.c, the same file in three of   *)
(* its directories): one thread, an array fds of which the first nfds      *)
(* entries are used, the listener's first.  A removed client's entry is    *)
(* overwritten by the last one, while the loop runs over the array.        *)
(*                                                                         *)
(* A client is tracked from connect to the server's close:                 *)
(*   phase      "down", "queued" in the backlog, "open" (in the server) or *)
(*              "closed" (the server has closed its end, the client not)   *)
(*   message, reply   one is on its way to the server, to the client       *)
(*   end        "up", or how the client went: "fin", or "rst" with a       *)
(*              reply unread or to which the server replied afterwards     *)
(* The shipped clients wait for a reply before they send again, and may    *)
(* die at any moment.                                                      *)
(***************************************************************************)
EXTENDS Integers, Sequences, FiniteSets

CONSTANTS Clients,
          ServerSock,   \* the listener's entry
          MaxClients,   \* MAX_CLIENTS: the array has one entry more
          Backlog

ASSUME PollServerAssumption ==
  /\ ServerSock \notin Clients
  /\ MaxClients \in Nat
  /\ Backlog \in Nat

VARIABLES conn, backlog,
          fds, nfds,
          pc,           \* "poll", "accept" or "serve"
          i,            \* the loop's index
          unserved      \* what this round's poll reported and no step served

clientVars == <<conn, backlog>>
serverVars == <<fds, nfds, pc, i, unserved>>
pollVars == <<conn, backlog, fds, nfds, pc, i, unserved>>

Entries == 0..MaxClients
Connection == [phase : {"down", "queued", "open", "closed"},
               message : BOOLEAN, reply : BOOLEAN, end : {"up", "fin", "rst"}]
Down == [phase |-> "down", message |-> FALSE, reply |-> FALSE, end |-> "up"]

Entry(fd, revents) == [fd |-> fd, revents |-> revents]

\* Entries from nfds on were never written; whatever they hold, ServerSock
\* with an event is as bad as any.
PollServerInit ==
  /\ conn = [c \in Clients |-> Down]
  /\ backlog = <<>>
  /\ fds = [e \in Entries |-> Entry(ServerSock, IF e = 0 THEN {} ELSE {"in"})]
  /\ nfds = 1
  /\ pc = "poll" /\ i = 1 /\ unserved = {}

-----------------------------------------------------------------------------
\* The clients.

Up(c) == conn[c].phase # "down" /\ conn[c].end = "up"

Connect(c) ==
  /\ conn[c].phase = "down"
  /\ Len(backlog) < Backlog
  /\ conn' = [conn EXCEPT ![c].phase = "queued"]
  /\ backlog' = Append(backlog, c)
  /\ UNCHANGED serverVars

\* What is sent to a connection the server has closed is lost.
Send(c) ==
  /\ Up(c)
  /\ ~conn[c].message /\ ~conn[c].reply
  /\ conn' = [conn EXCEPT ![c].message = (conn[c].phase # "closed")]
  /\ UNCHANGED <<backlog, serverVars>>

\* recv returns the reply.
Receive(c) ==
  /\ Up(c) /\ conn[c].reply
  /\ conn' = [conn EXCEPT ![c].reply = FALSE]
  /\ UNCHANGED <<backlog, serverVars>>

Gone(k) ==
  IF k.phase = "closed"
    THEN Down
    ELSE [k EXCEPT !.end = IF k.reply THEN "rst" ELSE "fin", !.reply = FALSE]

Close(c) ==
  /\ Up(c)
  /\ conn' = [conn EXCEPT ![c] = Gone(@)]
  /\ UNCHANGED <<backlog, serverVars>>

-----------------------------------------------------------------------------
\* The server.

Events(fd) ==
  IF fd = ServerSock
    THEN IF backlog = <<>> THEN {} ELSE {"in"}
    ELSE (IF conn[fd].message \/ conn[fd].end # "up" THEN {"in"} ELSE {})
           \cup (IF conn[fd].end = "rst" THEN {"err"} ELSE {})

Used == 0..nfds - 1
ClientEntries == 1..nfds - 1

Poll ==
  /\ pc = "poll"
  /\ \E e \in Used : Events(fds[e].fd) # {}
  /\ fds' = [e \in Entries |->
               IF e \in Used THEN Entry(fds[e].fd, Events(fds[e].fd)) ELSE fds[e]]
  /\ unserved' = {fds[e].fd : e \in {x \in ClientEntries : Events(fds[x].fd) # {}}}
  /\ pc' = IF fds'[0].revents # {} THEN "accept" ELSE "serve"
  /\ i' = 1
  /\ UNCHANGED <<clientVars, nfds>>

\* The kernel's side of close(): the client still has to notice.
Released(k) ==
  IF k.end # "up" THEN Down ELSE [k EXCEPT !.phase = "closed", !.message = FALSE]

AddClient(c) ==
  /\ fds' = [fds EXCEPT ![nfds] = Entry(c, {})]
  /\ nfds' = nfds + 1

\* One turn of the accept loop: the connection is added, or closed when the
\* array is full.
AcceptNewClient ==
  LET c == Head(backlog)
  IN  /\ pc = "accept"
      /\ backlog # <<>>
      /\ backlog' = Tail(backlog)
      /\ IF nfds < MaxClients + 1
           THEN /\ AddClient(c)
                /\ conn' = [conn EXCEPT ![c].phase = "open"]
           ELSE /\ conn' = [conn EXCEPT ![c] = Released(@)]
                /\ UNCHANGED <<fds, nfds>>
      /\ UNCHANGED <<pc, i, unserved>>

\* accept fails with EAGAIN.
AcceptDone ==
  /\ pc = "accept"
  /\ backlog = <<>>
  /\ pc' = "serve"
  /\ UNCHANGED <<clientVars, fds, nfds, i, unserved>>

\* Mutant: the entries move down, but the loop goes on behind the moved one.
RemoveClient_SkipMoved(e) ==
  /\ conn' = [conn EXCEPT ![fds[e].fd] = Released(@)]
  /\ fds' = [fds EXCEPT ![e] = fds[nfds - 1]]
  /\ nfds' = nfds - 1
  /\ i' = i + 1

\* Mutant: the last entry is dropped, the removed one stays.
RemoveClient_DropLast(e) ==
  /\ conn' = [conn EXCEPT ![fds[e].fd] = Released(@)]
  /\ nfds' = nfds - 1
  /\ UNCHANGED <<fds, i>>

\* RemoveClient with the loop's i-- and i++.
RemoveClient(e) ==
  /\ conn' = [conn EXCEPT ![fds[e].fd] = Released(@)]
  /\ fds' = [fds EXCEPT ![e] = fds[nfds - 1]]
  /\ nfds' = nfds - 1
  /\ UNCHANGED i

\* A reply to a client that has closed is answered by a reset.
Answered(k) ==
  [k EXCEPT !.message = FALSE,
            !.reply = (k.end = "up"),
            !.end = IF k.end = "up" THEN "up" ELSE "rst"]

\* recv fails (the connection was reset since poll) or returns 0; a message
\* is answered; with neither, recv returns EAGAIN.
HandleClientMessage(e) ==
  LET k == conn[fds[e].fd]
  IN  \/ /\ k.end = "rst" \/ (k.end = "fin" /\ ~k.message)
         /\ RemoveClient(e)
      \/ /\ k.end # "rst" /\ k.message
         /\ conn' = [conn EXCEPT ![fds[e].fd] = Answered(@)]
         /\ i' = i + 1
         /\ UNCHANGED <<fds, nfds>>
      \/ /\ k.end = "up" /\ ~k.message
         /\ i' = i + 1
         /\ UNCHANGED <<conn, fds, nfds>>

ServeEntry ==
  /\ pc = "serve" /\ i < nfds
  /\ CASE "err" \in fds[i].revents -> RemoveClient(i)
       [] fds[i].revents = {"in"} -> HandleClientMessage(i)
       [] OTHER -> i' = i + 1 /\ UNCHANGED <<conn, fds, nfds>>
  /\ unserved' = unserved \ {fds[i].fd}
  /\ UNCHANGED <<backlog, pc>>

RoundDone ==
  /\ pc = "serve" /\ i >= nfds
  /\ pc' = "poll"
  /\ UNCHANGED <<clientVars, fds, nfds, i, unserved>>

Server == Poll \/ AcceptNewClient \/ AcceptDone \/ ServeEntry \/ RoundDone
Client(c) == Connect(c) \/ Send(c) \/ Receive(c) \/ Close(c)

PollServerNext == Server \/ \E c \in Clients : Client(c)

PollServerSpec == PollServerInit /\ [][PollServerNext]_pollVars

-----------------------------------------------------------------------------
\* Properties.

\* The entries 1 .. nfds - 1 are the connections the server holds, each in
\* one entry: RemoveClient's overwriting neither loses nor doubles one.
EntriesMatchConnections ==
  /\ nfds \in 1..MaxClients + 1
  /\ fds[0].fd = ServerSock
  /\ {fds[e].fd : e \in ClientEntries} = {c \in Clients : conn[c].phase = "open"}
  /\ \A d, e \in ClientEntries : fds[d].fd = fds[e].fd => d = e

StillToServe ==
  {fds[e].fd : e \in {x \in ClientEntries :
                        fds[x].revents # {} /\ (pc = "serve" => x >= i)}}

\* What poll reported is served in the round, once, and is still true when
\* it is: also when clients are removed, moved and added on the way, the
\* entries the loop has to come to hold exactly the reports not yet served,
\* and recv on them has something to say.
ReportsServedOnce ==
  IF pc = "poll"
    THEN unserved = {}
    ELSE /\ StillToServe = unserved
         /\ \A c \in unserved : Events(c) # {}
=============================================================================
