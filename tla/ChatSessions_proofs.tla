------------------------ MODULE ChatSessions_proofs ------------------------
(***************************************************************************)
(* No chat process escapes its client, and a group has one session, for    *)
(* every number of clients, groups, PIDs and table entries.                *)
(***************************************************************************)
EXTENDS ChatSessions, SequenceTheorems, TLAPS

States == {"no", "receiver", "sender", "receiver_pid", "sender_pid"}

SessionRecord ==
  [table : Seq(Session), starting : States,
   inbox : SUBSET [role : Roles, pid : Pids],
   processes : [Pids -> Process \cup {NoProcess}]]

Slot(entry, role) == IF role = "receiver" THEN entry.receiver ELSE entry.sender

\* The roles still to be launched for the newest entry, and those whose
\* report has been read.
ToLaunch(s) == CASE s.starting = "receiver" -> Roles
                 [] s.starting = "sender" -> {"sender"}
                 [] OTHER -> {}
Heard(s) == IF s.starting = "sender_pid" THEN {"receiver"} ELSE {}

\* A chat process of the living client, and those of the newest entry.
Owned(s, pid) == Running(s, pid) /\ ~s.processes[pid].orphan
Mine(s, role) == {pid \in Pids : /\ Owned(s, pid)
                                 /\ s.processes[pid].role = role
                                 /\ s.processes[pid].group = Newest(s).group}

\* The table: a group once, and every entry but the one being started has
\* both PIDs.
TableInv(s) ==
  /\ Len(s.table) <= MaxActiveGroups
  /\ s.starting # "no" => s.table # <<>>
  /\ \A i, j \in DOMAIN s.table : s.table[i].group = s.table[j].group => i = j
  /\ \A i \in DOMAIN s.table : i < Len(s.table) \/ s.starting = "no" =>
       s.table[i].receiver # NoPid /\ s.table[i].sender # NoPid

\* The start: each role is launched once, so its process, if there is one, is
\* the one a report in the queue is about; reports are read once.
StartInv(s) ==
  s.starting # "no" =>
    /\ \A role \in ToLaunch(s) : /\ Mine(s, role) = {}
                                 /\ \A m \in s.inbox : m.role # role
    /\ \A role \in Roles : \A p, q \in Mine(s, role) : p = q
    /\ \A m \in s.inbox : \A pid \in Mine(s, m.role) :
         pid = m.pid /\ s.processes[pid].reported
    /\ \A role \in Heard(s) :
         /\ Slot(Newest(s), role) # NoPid
         /\ \A pid \in Mine(s, role) :
              pid = Slot(Newest(s), role) /\ s.processes[pid].reported
    /\ \A role \in Roles \ Heard(s) : Slot(Newest(s), role) = NoPid

\* The client has read the process's PID, or will read it.
Known(s, pid) ==
  LET p == s.processes[pid]
  IN  /\ p.reported
      /\ \E i \in DOMAIN s.table :
           /\ s.table[i].group = p.group /\ s.table[i].address = p.address
           /\ pid = Slot(s.table[i], p.role)

Expected(s, pid) ==
  LET p == s.processes[pid]
  IN  /\ s.starting # "no"
      /\ Newest(s).group = p.group /\ Newest(s).address = p.address
      /\ p.reported => [role |-> p.role, pid |-> pid] \in s.inbox

\* The inductive invariant of one client's sessions.
SessionInv(s) ==
  /\ s \in SessionRecord
  /\ TableInv(s)
  /\ StartInv(s)
  /\ \A pid \in Pids : Owned(s, pid) => Known(s, pid) \/ Expected(s, pid)

ChatInv ==
  /\ queuesLeft \in 0..MaxQueues
  /\ sessions \in [Clients -> SessionRecord]
  /\ \A c \in Clients : SessionInv(sessions[c])

-----------------------------------------------------------------------------
\* What the invariant says of single values.

LEMMA RecordFacts ==
  ASSUME NEW s \in SessionRecord
  PROVE  /\ s.table \in Seq(Session) /\ Len(s.table) \in Nat
         /\ DOMAIN s.table = 1..Len(s.table)
         /\ \A i \in DOMAIN s.table : s.table[i] \in Session
         /\ s.starting \in States
         /\ s.inbox \subseteq [role : Roles, pid : Pids]
         /\ s.processes \in [Pids -> Process \cup {NoProcess}]
         /\ \A pid \in Pids : Running(s, pid) => s.processes[pid] \in Process
         /\ s.table # <<>> => Len(s.table) \in DOMAIN s.table /\ Newest(s) \in Session
<1>1. /\ s.table \in Seq(Session) /\ s.starting \in States
      /\ s.inbox \subseteq [role : Roles, pid : Pids]
      /\ s.processes \in [Pids -> Process \cup {NoProcess}]
  BY DEF SessionRecord
<1>2. /\ Len(s.table) \in Nat /\ DOMAIN s.table = 1..Len(s.table)
      /\ \A i \in DOMAIN s.table : s.table[i] \in Session
  BY <1>1, LenProperties, ElementOfSeq
<1>3. \A pid \in Pids : Running(s, pid) => s.processes[pid] \in Process
  BY <1>1 DEF Running
<1>4. s.table # <<>> => Len(s.table) \in DOMAIN s.table /\ Newest(s) \in Session
  BY <1>1, <1>2, EmptySeq DEF Newest
<1> QED
  BY <1>1, <1>2, <1>3, <1>4

\* Records with some fields replaced.
LEMMA RecordUpdates ==
  ASSUME NEW s \in SessionRecord, NEW table \in Seq(Session), NEW starting \in States,
         NEW inbox \in SUBSET [role : Roles, pid : Pids],
         NEW processes \in [Pids -> Process \cup {NoProcess}]
  PROVE  /\ [s EXCEPT !.table = table, !.starting = starting, !.inbox = inbox]
              \in SessionRecord
         /\ [s EXCEPT !.table = table, !.starting = starting, !.inbox = inbox,
                      !.processes = processes] \in SessionRecord
         /\ [s EXCEPT !.starting = starting, !.processes = processes] \in SessionRecord
         /\ [s EXCEPT !.inbox = inbox, !.starting = starting, !.table = table]
              \in SessionRecord
         /\ [s EXCEPT !.processes = processes, !.table = table] \in SessionRecord
         /\ [s EXCEPT !.processes = processes, !.inbox = inbox] \in SessionRecord
  BY DEF SessionRecord

\* Every live process of the newest entry has one of the two roles.
LEMMA NewestsProcesses ==
  ASSUME NEW s, SessionInv(s), NEW pid \in Pids, Expected(s, pid), Owned(s, pid)
  PROVE  /\ s.processes[pid] \in Process /\ s.processes[pid].role \in Roles
         /\ pid \in Mine(s, s.processes[pid].role)
<1>1. s.processes[pid] \in Process
  BY RecordFacts DEF SessionInv, Owned
<1>2. s.processes[pid].role \in Roles
  BY <1>1 DEF Process
<1> QED
  BY <1>1, <1>2 DEF Mine, Expected

\* A session record with the same table and start, whose processes are some
\* of the old ones and whose reports are all there.
LEMMA FewerProcesses ==
  ASSUME NEW s, SessionInv(s), NEW t \in SessionRecord,
         t.table = s.table, t.starting = s.starting, t.inbox = s.inbox,
         \A pid \in Pids : t.processes[pid] \in {s.processes[pid], NoProcess}
  PROVE  SessionInv(t)
<1>1. \A pid \in Pids : Owned(t, pid) =>
        Owned(s, pid) /\ t.processes[pid] = s.processes[pid]
  BY DEF Owned, Running
<1>2. /\ Newest(t) = Newest(s) /\ ToLaunch(t) = ToLaunch(s) /\ Heard(t) = Heard(s)
      /\ \A role \in Roles : Mine(t, role) \subseteq Mine(s, role)
  BY <1>1 DEF Newest, ToLaunch, Heard, Mine
<1>3. TableInv(t)
  BY DEF SessionInv, TableInv
<1>4. ToLaunch(s) \subseteq Roles /\ Heard(s) \subseteq Roles
      /\ \A m \in s.inbox : m.role \in Roles
  BY RecordFacts DEF ToLaunch, Heard, Roles, SessionInv
<1>5. StartInv(t)
  <2>1. \A role \in Roles : \A pid \in Mine(t, role) :
          pid \in Mine(s, role) /\ t.processes[pid] = s.processes[pid]
    BY <1>1, <1>2 DEF Mine
  <2> QED
    BY <1>2, <1>4, <2>1 DEF SessionInv, StartInv
<1>6. \A pid \in Pids : Owned(t, pid) => Known(t, pid) \/ Expected(t, pid)
  <2>1. ASSUME NEW pid \in Pids, Owned(t, pid)
        PROVE  Known(t, pid) \/ Expected(t, pid)
    BY <1>1, <1>2, <2>1 DEF SessionInv, Known, Expected
  <2> QED
    BY <2>1
<1> QED
  BY <1>3, <1>5, <1>6 DEF SessionInv

-----------------------------------------------------------------------------
\* The operations keep the invariant.

LEMMA NoneKeeps == SessionInv(NoSessions)
<1> DEFINE t == NoSessions
<1>1. /\ t.table = <<>> /\ t.starting = "no" /\ t.inbox = {}
      /\ t.processes = [pid \in Pids |-> NoProcess]
  BY DEF NoSessions
<1>2. t \in SessionRecord
  BY DEF NoSessions, SessionRecord, States
<1> HIDE DEF t
<1>3. TableInv(t) /\ StartInv(t)
  BY <1>1, ChatSessionsAssumption DEF TableInv, StartInv
<1>4. \A pid \in Pids : ~Owned(t, pid)
  BY <1>1 DEF Owned, Running
<1> QED
  BY <1>2, <1>3, <1>4 DEF SessionInv, t

LEMMA GoneKeeps ==
  ASSUME NEW s, SessionInv(s)
  PROVE  SessionInv(ClientGone(s))
<1> DEFINE t == ClientGone(s)
<1>1. s \in SessionRecord /\ s.processes \in [Pids -> Process \cup {NoProcess}]
  BY RecordFacts DEF SessionInv
<1>2. /\ t.table = <<>> /\ t.starting = "no" /\ t.inbox = {}
      /\ t.processes = [pid \in Pids |->
           IF s.processes[pid] = NoProcess THEN NoProcess
             ELSE [s.processes[pid] EXCEPT !.orphan = TRUE]]
  BY <1>1 DEF ClientGone, SessionRecord
<1>3. \A pid \in Pids : /\ t.processes[pid] \in Process \cup {NoProcess}
                        /\ ~Owned(t, pid)
  <2>1. ASSUME NEW pid \in Pids
        PROVE  t.processes[pid] \in Process \cup {NoProcess} /\ ~Owned(t, pid)
    <3> DEFINE p == s.processes[pid]
    <3>1. CASE p = NoProcess
      BY <1>2, <3>1 DEF Owned, Running
    <3>2. CASE p # NoProcess
      <4>1. p \in Process
        BY <1>1, <3>2
      <4>2. t.processes[pid] = [p EXCEPT !.orphan = TRUE]
        BY <1>2, <3>2
      <4> QED
        BY <4>1, <4>2 DEF Owned, Process
    <3> QED
      BY <3>1, <3>2
  <2> QED
    BY <2>1
<1>4. t \in SessionRecord
  <2>1. t.processes \in [Pids -> Process \cup {NoProcess}]
    <3> HIDE DEF t
    <3>1. t.processes = [pid \in Pids |-> t.processes[pid]]
      BY <1>2
    <3> QED
      BY <1>3, <3>1
  <2> DEFINE processes == t.processes
  <2>2. t = [s EXCEPT !.table = <<>>, !.starting = "no", !.inbox = {},
                      !.processes = processes]
    BY <1>2 DEF ClientGone
  <2>3. /\ <<>> \in Seq(Session) /\ "no" \in States
        /\ processes \in [Pids -> Process \cup {NoProcess}]
    BY <2>1 DEF States
  <2> HIDE DEF t, processes
  <2> QED
    BY <1>1, <2>2, <2>3, RecordUpdates
<1> HIDE DEF t
<1>5. TableInv(t) /\ StartInv(t)
  BY <1>2, ChatSessionsAssumption DEF TableInv, StartInv
<1> QED
  BY <1>3, <1>4, <1>5 DEF SessionInv, t

LEMMA EndedKeeps ==
  ASSUME NEW s, SessionInv(s), NEW pid \in Pids
  PROVE  SessionInv(ProcessEnded(s, pid))
<1> DEFINE t == ProcessEnded(s, pid)
<1>1. s \in SessionRecord
  BY DEF SessionInv
<1>2. t \in SessionRecord /\ t.table = s.table /\ t.starting = s.starting
      /\ t.inbox = s.inbox /\ t.processes = [s.processes EXCEPT ![pid] = NoProcess]
  BY <1>1 DEF ProcessEnded, SessionRecord
<1>3. \A q \in Pids : t.processes[q] \in {s.processes[q], NoProcess}
  BY <1>1, <1>2, RecordFacts
<1> HIDE DEF t
<1>4. SessionInv(t)
  BY <1>2, <1>3, FewerProcesses
<1> QED
  BY <1>4 DEF t

LEMMA AddedKeeps ==
  ASSUME NEW s, SessionInv(s), s.starting = "no",
         NEW group \in GroupNames, NEW address \in Addresses,
         Entries(s, group) = {}, Len(s.table) # MaxActiveGroups
  PROVE  SessionInv(Added(s, group, address))
<1> DEFINE e == NewSession(group, address)
           t == Added(s, group, address)
           n == Len(s.table)
<1>1. /\ s \in SessionRecord /\ s.table \in Seq(Session) /\ n \in Nat
      /\ DOMAIN s.table = 1..n
      /\ \A i \in 1..n : s.table[i] \in Session
  BY RecordFacts DEF SessionInv
<1>2. /\ e \in Session /\ e.group = group /\ e.address = address
      /\ e.receiver = NoPid /\ e.sender = NoPid
  BY DEF NewSession, Session
<1>3. /\ t.table = Append(s.table, e) /\ t.starting = "receiver" /\ t.inbox = {}
      /\ t.processes = s.processes
  BY <1>1 DEF Added, SessionRecord
<1> HIDE DEF e
<1>4. /\ t.table \in Seq(Session) /\ Len(t.table) = n + 1
      /\ DOMAIN t.table = 1..n + 1
      /\ \A i \in 1..n : t.table[i] = s.table[i]
      /\ t.table[n + 1] = e
  BY <1>1, <1>2, <1>3, AppendProperties, LenProperties
<1>5. t \in SessionRecord
  <2> DEFINE table == Append(s.table, e)
  <2>1. t = [s EXCEPT !.table = table, !.starting = "receiver", !.inbox = {}]
    BY DEF Added, e
  <2>2. table \in Seq(Session) /\ "receiver" \in States
    BY <1>3, <1>4 DEF States
  <2>3. s.processes \in [Pids -> Process \cup {NoProcess}]
    BY <1>1, RecordFacts
  <2> HIDE DEF t, table
  <2> QED
    BY <1>1, <2>1, <2>2, <2>3, RecordUpdates
<1> HIDE DEF t
<1>6. Newest(t) = e /\ \A pid \in Pids : Owned(t, pid) <=> Owned(s, pid)
  BY <1>3, <1>4 DEF Newest, Owned, Running
<1>7. \A i \in 1..n : s.table[i].group # group
  BY <1>1 DEF Entries
<1>8. TableInv(t)
  <2>1. n + 1 <= MaxActiveGroups
    BY <1>1, ChatSessionsAssumption DEF SessionInv, TableInv
  <2>2. \A i, j \in 1..n + 1 : t.table[i].group = t.table[j].group => i = j
    <3>1. \A i \in 1..n + 1 : i \in 1..n \/ i = n + 1
      BY <1>1
    <3>2. \A i, j \in 1..n : s.table[i].group = s.table[j].group => i = j
      BY <1>1 DEF SessionInv, TableInv
    <3>3. \A i \in 1..n : t.table[i].group # t.table[n + 1].group
      BY <1>2, <1>4, <1>7
    <3>4. \A i, j \in 1..n : t.table[i].group = t.table[j].group => i = j
      BY <1>4, <3>2
    <3> QED
      BY <3>1, <3>3, <3>4
  <2>3. \A i \in 1..n + 1 : i < n + 1 =>
          t.table[i].receiver # NoPid /\ t.table[i].sender # NoPid
    <3>1. \A i \in 1..n : s.table[i].receiver # NoPid /\ s.table[i].sender # NoPid
      BY <1>1 DEF SessionInv, TableInv
    <3>2. \A i \in 1..n + 1 : i < n + 1 => i \in 1..n
      BY <1>1
    <3> QED
      BY <1>4, <3>1, <3>2
  <2>4. t.table # <<>>
    BY <1>1, <1>4, EmptySeq
  <2> QED
    BY <1>3, <1>4, <2>1, <2>2, <2>3, <2>4 DEF TableInv
<1>9. \A pid \in Pids : Owned(s, pid) =>
        /\ Known(s, pid)
        /\ \E i \in 1..n : s.table[i].group = s.processes[pid].group
  BY <1>1 DEF SessionInv, Expected, Known
<1>10. StartInv(t)
  <2>1. \A role : Mine(t, role) = {}
    BY <1>2, <1>3, <1>6, <1>7, <1>9 DEF Mine
  <2> QED
    BY <1>2, <1>3, <1>6, <2>1 DEF StartInv, Heard, Slot
<1>11. \A pid \in Pids : Owned(t, pid) => Known(t, pid)
  <2>1. \A i \in 1..n : i \in 1..n + 1
    BY <1>1
  <2> QED
    BY <1>1, <1>3, <1>4, <1>6, <1>9, <2>1 DEF Known
<1> QED
  BY <1>5, <1>8, <1>10, <1>11 DEF SessionInv, t

LEMMA LaunchedKeeps ==
  ASSUME NEW s, SessionInv(s), NEW role \in Roles, s.starting = role,
         NEW pid \in Pids, ~Running(s, pid)
  PROVE  SessionInv(Launched(s, role, pid))
<1> DEFINE t == Launched(s, role, pid)
           new == [role |-> role, group |-> Newest(s).group,
                   address |-> Newest(s).address, reported |-> FALSE,
                   orphan |-> FALSE]
<1>1. /\ s \in SessionRecord /\ s.table # <<>> /\ s.starting # "no"
      /\ role \in {"receiver", "sender"}
      /\ Newest(s) \in Session
      /\ s.processes \in [Pids -> Process \cup {NoProcess}]
  BY RecordFacts DEF SessionInv, TableInv, Roles
<1>2. new \in Process
  BY <1>1 DEF Process, Session
<1>3. /\ t.table = s.table /\ t.inbox = s.inbox
      /\ t.starting = NextStart(role)
      /\ t.processes = [s.processes EXCEPT ![pid] = new]
  BY <1>1 DEF Launched, SessionRecord
<1>4. NextStart(role) \in {"sender", "receiver_pid"}
      /\ (role = "sender" => NextStart(role) = "receiver_pid")
  BY <1>1 DEF NextStart
<1>5. t \in SessionRecord
  <2> DEFINE processes == [s.processes EXCEPT ![pid] = new]
             starting == NextStart(role)
  <2>1. t = [s EXCEPT !.starting = starting, !.processes = processes]
    BY DEF Launched
  <2>2. starting \in States /\ processes \in [Pids -> Process \cup {NoProcess}]
    BY <1>1, <1>2, <1>4 DEF States
  <2>3. s.table \in Seq(Session) /\ s.inbox \in SUBSET [role : Roles, pid : Pids]
    BY <1>1, RecordFacts
  <2> HIDE DEF t, processes, starting
  <2> QED
    BY <1>1, <2>1, <2>2, <2>3, RecordUpdates
<1>6. /\ new.role = role /\ new.group = Newest(s).group
      /\ new.address = Newest(s).address /\ ~new.reported /\ ~new.orphan
      /\ new # NoProcess
  BY <1>1 DEF NoProcess
<1> HIDE DEF t, new
<1>7. /\ Newest(t) = Newest(s)
      /\ t.processes[pid] = new
      /\ \A q \in Pids : q # pid => t.processes[q] = s.processes[q]
      /\ Owned(t, pid)
      /\ \A q \in Pids : q # pid => (Owned(t, q) <=> Owned(s, q))
  BY <1>1, <1>3, <1>6 DEF Newest, Owned, Running
<1>8. /\ Mine(t, role) = Mine(s, role) \cup {pid}
      /\ \A other : other # role => Mine(t, other) = Mine(s, other)
  BY <1>6, <1>7 DEF Mine, Owned
<1>9. /\ role \in ToLaunch(s) /\ ToLaunch(t) \subseteq ToLaunch(s) \ {role}
      /\ Heard(t) = {} /\ Heard(s) = {}
  BY <1>1, <1>3 DEF ToLaunch, Heard, NextStart, Roles
<1>10. TableInv(t)
  BY <1>1, <1>3, <1>4 DEF SessionInv, TableInv
<1>11. /\ Mine(s, role) = {}
       /\ \A m \in s.inbox : m.role # role
       /\ \A other \in ToLaunch(s) : /\ Mine(s, other) = {}
                                     /\ \A m \in s.inbox : m.role # other
       /\ \A other \in Roles : \A p, q \in Mine(s, other) : p = q
       /\ \A m \in s.inbox : \A q \in Mine(s, m.role) :
            q = m.pid /\ s.processes[q].reported
       /\ \A other \in Roles : Slot(Newest(s), other) = NoPid
  BY <1>1, <1>9 DEF SessionInv, StartInv
<1>12. StartInv(t)
  <2>1. \A other \in ToLaunch(t) : /\ Mine(t, other) = {}
                                   /\ \A m \in t.inbox : m.role # other
    BY <1>3, <1>8, <1>9, <1>11
  <2>2. \A other \in Roles : \A p, q \in Mine(t, other) : p = q
    BY <1>8, <1>11
  <2>3. \A m \in t.inbox : \A q \in Mine(t, m.role) :
          q = m.pid /\ t.processes[q].reported
    <3>1. ASSUME NEW m \in s.inbox, NEW q \in Mine(s, m.role)
          PROVE  q # pid /\ q \in Pids /\ q = m.pid /\ s.processes[q].reported
      BY <1>11 DEF Mine, Owned
    <3> QED
      BY <1>3, <1>7, <1>8, <1>11, <3>1
  <2>4. \A other \in Roles : Slot(Newest(t), other) = NoPid
    BY <1>7, <1>11
  <2> QED
    BY <1>9, <2>1, <2>2, <2>3, <2>4 DEF StartInv
<1>13. \A q \in Pids : Owned(t, q) => Known(t, q) \/ Expected(t, q)
  <2>1. Expected(t, pid)
    BY <1>3, <1>4, <1>6, <1>7 DEF Expected
  <2>2. ASSUME NEW q \in Pids, q # pid, Owned(t, q)
        PROVE  Known(t, q) \/ Expected(t, q)
    BY <1>1, <1>3, <1>4, <1>7, <2>2 DEF SessionInv, Known, Expected
  <2> QED
    BY <2>1, <2>2
<1> QED
  BY <1>5, <1>10, <1>12, <1>13 DEF SessionInv, t

LEMMA NotLaunchedKeeps ==
  ASSUME NEW s, SessionInv(s), NEW role \in Roles, s.starting = role
  PROVE  SessionInv(NotLaunched(s, role))
<1> DEFINE t == NotLaunched(s, role)
<1>1. s \in SessionRecord /\ s.starting # "no" /\ role \in {"receiver", "sender"}
  BY DEF SessionInv, Roles
<1>2. NextStart(role) \in {"sender", "receiver_pid"} /\ NextStart(role) \in States
  BY <1>1 DEF NextStart, States
<1>3. /\ t \in SessionRecord /\ t.table = s.table /\ t.inbox = s.inbox
      /\ t.starting = NextStart(role) /\ t.processes = s.processes
  BY <1>1, <1>2 DEF NotLaunched, SessionRecord
<1> HIDE DEF t
<1>4. /\ Newest(t) = Newest(s)
      /\ \A q \in Pids : Owned(t, q) <=> Owned(s, q)
      /\ \A other : Mine(t, other) = Mine(s, other)
      /\ ToLaunch(t) \subseteq ToLaunch(s) /\ Heard(t) = {} /\ Heard(s) = {}
  BY <1>1, <1>3 DEF Newest, Owned, Running, Mine, ToLaunch, Heard, NextStart, Roles
<1>5. TableInv(t) /\ StartInv(t)
  BY <1>1, <1>2, <1>3, <1>4 DEF SessionInv, TableInv, StartInv
<1>6. \A q \in Pids : Owned(t, q) => Known(t, q) \/ Expected(t, q)
  BY <1>1, <1>2, <1>3, <1>4 DEF SessionInv, Known, Expected
<1> QED
  BY <1>3, <1>5, <1>6 DEF SessionInv, t

LEMMA ReportedKeeps ==
  ASSUME NEW s, SessionInv(s), NEW pid \in Pids, Running(s, pid),
         ~s.processes[pid].reported
  PROVE  SessionInv(Reported(s, pid))
<1> DEFINE t == Reported(s, pid)
           old == s.processes[pid]
           new == [old EXCEPT !.reported = TRUE]
           m == [role |-> old.role, pid |-> pid]
           inbox == IF old.orphan THEN s.inbox ELSE s.inbox \cup {m}
           processes == [s.processes EXCEPT ![pid] = new]
<1>1. /\ s \in SessionRecord /\ old \in Process
      /\ s.processes \in [Pids -> Process \cup {NoProcess}]
      /\ s.inbox \subseteq [role : Roles, pid : Pids] /\ s.table \in Seq(Session)
      /\ s.starting \in States
  BY RecordFacts DEF SessionInv
<1>2. /\ new \in Process /\ new.role = old.role /\ new.group = old.group
      /\ new.address = old.address /\ new.reported /\ new.orphan = old.orphan
      /\ old.role \in Roles /\ new # NoProcess
  BY <1>1 DEF Process, NoProcess, Roles
<1>3. m \in [role : Roles, pid : Pids] /\ m.role = old.role /\ m.pid = pid
  BY <1>2
<1>4. t = [s EXCEPT !.processes = processes, !.inbox = inbox]
  <2>1. t = [s EXCEPT !.processes[pid].reported = TRUE, !.inbox = inbox]
    BY DEF Reported
  <2> QED
    BY <1>1, <2>1
<1> HIDE DEF t, m, new
<1>5. /\ processes \in [Pids -> Process \cup {NoProcess}]
      /\ inbox \subseteq [role : Roles, pid : Pids]
  BY <1>1, <1>2, <1>3
<1> HIDE DEF processes, inbox
<1>6. /\ t \in SessionRecord /\ t.table = s.table /\ t.starting = s.starting
      /\ t.processes = processes /\ t.inbox = inbox
  <2>1. t \in SessionRecord
    BY <1>1, <1>4, <1>5, RecordUpdates
  <2> QED
    BY <1>1, <1>4, <2>1 DEF SessionRecord
<1>7. /\ Newest(t) = Newest(s) /\ ToLaunch(t) = ToLaunch(s) /\ Heard(t) = Heard(s)
      /\ t.processes[pid] = new
      /\ \A q \in Pids : q # pid => t.processes[q] = s.processes[q]
  BY <1>1, <1>6 DEF Newest, ToLaunch, Heard, processes
<1>8. /\ \A q \in Pids : Owned(t, q) <=> Owned(s, q)
      /\ \A q \in Pids : /\ t.processes[q].role = s.processes[q].role
                         /\ t.processes[q].group = s.processes[q].group
                         /\ t.processes[q].address = s.processes[q].address
                         /\ s.processes[q].reported => t.processes[q].reported
  BY <1>2, <1>7 DEF Owned, Running
<1>9. \A role : Mine(t, role) = Mine(s, role)
  BY <1>7, <1>8 DEF Mine
<1>10. TableInv(t)
  BY <1>6 DEF SessionInv, TableInv
<1>11. /\ s.inbox \subseteq inbox
       /\ ~Owned(s, pid) => inbox = s.inbox
       /\ Owned(s, pid) => inbox = s.inbox \cup {m}
  BY DEF inbox, Owned
\* A live process that has not reported is the newest entry's.
<1>12. Owned(s, pid) => Expected(s, pid) /\ pid \in Mine(s, old.role)
  <2>1. Owned(s, pid) => Expected(s, pid)
    BY DEF SessionInv, Known
  <2> QED
    BY <2>1, NewestsProcesses
<1>13. StartInv(t)
  <2> SUFFICES ASSUME s.starting # "no"
               PROVE  StartInv(t)
    BY <1>6 DEF StartInv
  <2>1. /\ \A role \in ToLaunch(s) : /\ Mine(s, role) = {}
                                     /\ \A x \in s.inbox : x.role # role
        /\ \A role \in Roles : \A p, q \in Mine(s, role) : p = q
        /\ \A x \in s.inbox : \A q \in Mine(s, x.role) :
             q = x.pid /\ s.processes[q].reported
        /\ \A role \in Heard(s) :
             /\ Slot(Newest(s), role) # NoPid
             /\ \A q \in Mine(s, role) :
                  q = Slot(Newest(s), role) /\ s.processes[q].reported
        /\ \A role \in Roles \ Heard(s) : Slot(Newest(s), role) = NoPid
    BY DEF SessionInv, StartInv
  <2>2. \A role \in ToLaunch(t) : /\ Mine(t, role) = {}
                                  /\ \A x \in t.inbox : x.role # role
    BY <1>3, <1>6, <1>7, <1>9, <1>11, <1>12, <2>1
  <2>3. \A x \in t.inbox : \A q \in Mine(t, x.role) :
          q = x.pid /\ t.processes[q].reported
    <3>1. \A role : Mine(s, role) \subseteq Pids
      BY DEF Mine
    <3>2. ASSUME NEW x \in s.inbox, NEW q \in Mine(s, x.role)
          PROVE  q = x.pid /\ t.processes[q].reported
      BY <1>8, <2>1, <3>1, <3>2
    <3>3. ASSUME Owned(s, pid), NEW q \in Mine(s, m.role)
          PROVE  q = m.pid /\ t.processes[q].reported
      BY <1>2, <1>3, <1>7, <1>12, <2>1, <3>3
    <3> QED
      BY <1>6, <1>9, <1>11, <3>2, <3>3
  <2>4. \A role \in Heard(t) : \A q \in Mine(t, role) :
          q = Slot(Newest(t), role) /\ t.processes[q].reported
    <3>1. \A role : Mine(s, role) \subseteq Pids
      BY DEF Mine
    <3> QED
      BY <1>7, <1>8, <1>9, <2>1, <3>1
  <2> QED
    BY <1>7, <1>9, <2>1, <2>2, <2>3, <2>4 DEF StartInv
<1>14. \A q \in Pids : Owned(t, q) => Known(t, q) \/ Expected(t, q)
  <2>1. Owned(s, pid) => Expected(t, pid)
    BY <1>2, <1>6, <1>7, <1>11, <1>12 DEF Expected, m
  <2>2. ASSUME NEW q \in Pids, q # pid, Owned(t, q)
        PROVE  Known(t, q) \/ Expected(t, q)
    BY <1>6, <1>7, <1>8, <1>11, <2>2 DEF SessionInv, Known, Expected
  <2> QED
    BY <1>8, <2>1, <2>2
<1> QED
  BY <1>6, <1>10, <1>13, <1>14 DEF SessionInv, t

LEMMA ReceivedKeeps ==
  ASSUME NEW s, SessionInv(s), NEW role \in Roles, NEW pid \in Pids,
         WaitsFor(s, role), [role |-> role, pid |-> pid] \in s.inbox
  PROVE  SessionInv(PidReceived(s, role, pid))
<1> DEFINE t == PidReceived(s, role, pid)
           m == [role |-> role, pid |-> pid]
           n == Len(s.table)
           e == IF role = "receiver" THEN [s.table[n] EXCEPT !.receiver = pid]
                                     ELSE [s.table[n] EXCEPT !.sender = pid]
           starting == IF role = "receiver" THEN "sender_pid" ELSE "no"
           table == [s.table EXCEPT ![n] = e]
           inbox == s.inbox \ {m}
<1>1. /\ s \in SessionRecord /\ s.starting # "no" /\ s.table # <<>>
      /\ s.starting = IF role = "receiver" THEN "receiver_pid" ELSE "sender_pid"
      /\ role \in {"receiver", "sender"}
      /\ pid # NoPid
  BY ChatSessionsAssumption DEF SessionInv, TableInv, WaitsFor, Roles
<1>2. /\ s.table \in Seq(Session) /\ n \in Nat /\ n \in 1..n /\ DOMAIN s.table = 1..n
      /\ s.table[n] \in Session /\ Newest(s) = s.table[n]
      /\ s.processes \in [Pids -> Process \cup {NoProcess}]
      /\ s.inbox \subseteq [role : Roles, pid : Pids]
  BY <1>1, RecordFacts DEF Newest
<1>3. /\ e \in Session /\ e.group = s.table[n].group /\ e.address = s.table[n].address
      /\ Slot(e, role) = pid
      /\ \A other \in Roles \ {role} : Slot(e, other) = Slot(s.table[n], other)
  BY <1>1, <1>2 DEF Session, Slot, Roles
<1>4. t = [s EXCEPT !.inbox = inbox, !.starting = starting, !.table = table]
  BY DEF PidReceived
<1>5. m.role = role /\ m.pid = pid /\ m \in s.inbox
  OBVIOUS
<1> HIDE DEF t, m, e
<1>6. /\ table \in Seq(Session) /\ Len(table) = n
      /\ \A i \in 1..n : table[i] = IF i = n THEN e ELSE s.table[i]
  BY <1>2, <1>3, ExceptSeq
<1>7. DOMAIN table = 1..n
  BY <1>2, <1>6, LenProperties
<1>8. inbox \subseteq [role : Roles, pid : Pids] /\ starting \in States
  BY <1>1, <1>2 DEF States
<1> HIDE DEF table, inbox
<1>9. /\ t \in SessionRecord /\ t.table = table /\ t.starting = starting
      /\ t.processes = s.processes /\ t.inbox = inbox
  <2> HIDE DEF starting
  <2>1. t \in SessionRecord
    BY <1>1, <1>2, <1>4, <1>6, <1>8, RecordUpdates
  <2> QED
    BY <1>1, <1>4, <2>1 DEF SessionRecord
<1>10. /\ Newest(t) = e
       /\ \A q \in Pids : Owned(t, q) <=> Owned(s, q)
       /\ \A other : Mine(t, other) = Mine(s, other)
  BY <1>2, <1>3, <1>6, <1>9 DEF Newest, Owned, Running, Mine
<1>11. /\ ToLaunch(t) = {} /\ Heard(s) = IF role = "receiver" THEN {} ELSE {"receiver"}
       /\ role = "receiver" => Heard(t) = {"receiver"}
       /\ role \notin Heard(s)
  BY <1>1, <1>9 DEF ToLaunch, Heard
<1>12. /\ \A other \in Roles : \A p, q \in Mine(s, other) : p = q
       /\ \A x \in s.inbox : \A q \in Mine(s, x.role) :
            q = x.pid /\ s.processes[q].reported
       /\ \A other \in Heard(s) :
            /\ Slot(Newest(s), other) # NoPid
            /\ \A q \in Mine(s, other) :
                 q = Slot(Newest(s), other) /\ s.processes[q].reported
       /\ \A other \in Roles \ Heard(s) : Slot(Newest(s), other) = NoPid
  BY <1>1 DEF SessionInv, StartInv
<1>13. \A q \in Mine(s, role) : q = pid /\ s.processes[q].reported
  BY <1>5, <1>12
<1>14. inbox \subseteq s.inbox /\ \A x \in s.inbox : x # m => x \in inbox
  BY DEF inbox
<1>15. TableInv(t)
  <2>1. \A i \in 1..n : table[i].group = s.table[i].group
    BY <1>3, <1>6
  <2>2. \A i, j \in 1..n : table[i].group = table[j].group => i = j
    BY <1>2, <2>1 DEF SessionInv, TableInv
  <2>3. \A i \in 1..n : i < n =>
          table[i].receiver # NoPid /\ table[i].sender # NoPid
    <3>1. \A i \in 1..n : i < n =>
            s.table[i].receiver # NoPid /\ s.table[i].sender # NoPid
      BY <1>2 DEF SessionInv, TableInv
    <3> QED
      BY <1>2, <1>6, <3>1
  <2>4. starting = "no" => e.receiver # NoPid /\ e.sender # NoPid
    BY <1>1, <1>3, <1>2, <1>11, <1>12 DEF Slot, Roles
  <2>5. \A i \in 1..n : i < n \/ i = n
    BY <1>2
  <2>6. table # <<>> /\ n <= MaxActiveGroups
    BY <1>2, <1>6, EmptySeq DEF SessionInv, TableInv
  <2> QED
    BY <1>6, <1>7, <1>9, <2>2, <2>3, <2>4, <2>5, <2>6 DEF TableInv
<1>16. StartInv(t)
  <2> SUFFICES ASSUME role = "receiver"
               PROVE  StartInv(t)
    BY <1>9 DEF StartInv
  <2>1. \A other \in Heard(t) :
          /\ Slot(Newest(t), other) # NoPid
          /\ \A q \in Mine(t, other) :
               q = Slot(Newest(t), other) /\ t.processes[q].reported
    BY <1>1, <1>3, <1>9, <1>10, <1>11, <1>13
  <2>2. \A other \in Roles \ Heard(t) : Slot(Newest(t), other) = NoPid
    BY <1>2, <1>3, <1>10, <1>11, <1>12
  <2>3. \A x \in t.inbox : \A q \in Mine(t, x.role) :
          q = x.pid /\ t.processes[q].reported
    BY <1>9, <1>10, <1>12, <1>14
  <2> QED
    BY <1>10, <1>11, <1>12, <2>1, <2>2, <2>3 DEF StartInv
<1>17. \A q \in Pids : Owned(t, q) => Known(t, q) \/ Expected(t, q)
  <2>1. ASSUME NEW q \in Pids, Owned(s, q), Known(s, q)
        PROVE  Known(t, q)
    <3>1. PICK i \in 1..n : /\ s.table[i].group = s.processes[q].group
                            /\ s.table[i].address = s.processes[q].address
                            /\ q = Slot(s.table[i], s.processes[q].role)
                            /\ s.processes[q].reported
      BY <1>2, <2>1 DEF Known
    <3>2. s.processes[q].role \in Roles /\ q # NoPid
      BY <1>1, <2>1, RecordFacts, ChatSessionsAssumption DEF Owned, Process
    <3>3. CASE i = n
      <4>1. s.processes[q].role # role
        BY <1>2, <1>11, <1>12, <3>1, <3>2, <3>3
      <4>2. Slot(e, s.processes[q].role) = q
        BY <1>3, <3>1, <3>2, <3>3, <4>1
      <4> QED
        BY <1>2, <1>3, <1>6, <1>7, <1>9, <3>1, <3>3, <4>2 DEF Known
    <3>4. CASE i # n
      BY <1>6, <1>7, <1>9, <3>1, <3>4 DEF Known
    <3> QED
      BY <3>3, <3>4
  <2>2. ASSUME NEW q \in Pids, Owned(s, q), Expected(s, q)
        PROVE  Known(t, q) \/ Expected(t, q)
    <3>1. s.processes[q].role \in Roles /\ q \in Mine(s, s.processes[q].role)
      BY <2>2, NewestsProcesses
    <3>2. /\ s.table[n].group = s.processes[q].group
          /\ s.table[n].address = s.processes[q].address
          /\ s.processes[q].reported =>
               [role |-> s.processes[q].role, pid |-> q] \in s.inbox
      BY <1>2, <2>2 DEF Expected
    <3>3. CASE s.processes[q].role = role
      <4>1. q = Slot(e, role) /\ s.processes[q].reported
        BY <1>3, <1>13, <3>1, <3>3
      <4>2. /\ n \in DOMAIN t.table /\ t.processes[q] = s.processes[q]
            /\ t.table[n].group = s.processes[q].group
            /\ t.table[n].address = s.processes[q].address
            /\ q = Slot(t.table[n], t.processes[q].role)
        BY <1>2, <1>3, <1>6, <1>7, <1>9, <3>2, <3>3, <4>1
      <4> QED
        BY <4>1, <4>2 DEF Known
    <3>4. CASE s.processes[q].role # role /\ role = "receiver"
      <4>1. s.processes[q].reported =>
              [role |-> s.processes[q].role, pid |-> q] \in inbox
        BY <1>14, <3>2, <3>4 DEF m
      <4> QED
        BY <1>3, <1>9, <1>10, <3>2, <3>4, <4>1 DEF Expected
    <3>5. CASE s.processes[q].role # role /\ role = "sender"
      <4>1. s.processes[q].role = "receiver"
        BY <3>1, <3>5 DEF Roles
      <4>2. q = Slot(s.table[n], "receiver") /\ s.processes[q].reported
        BY <1>2, <1>11, <1>12, <3>1, <3>5, <4>1
      <4>3. q = Slot(e, "receiver")
        BY <1>3, <3>5, <4>2 DEF Roles
      <4>4. /\ n \in DOMAIN t.table /\ t.processes[q] = s.processes[q]
            /\ t.table[n].group = s.processes[q].group
            /\ t.table[n].address = s.processes[q].address
            /\ q = Slot(t.table[n], t.processes[q].role)
        BY <1>2, <1>3, <1>6, <1>7, <1>9, <3>2, <4>1, <4>3
      <4> QED
        BY <4>2, <4>4 DEF Known
    <3> QED
      BY <1>1, <3>3, <3>4, <3>5
  <2> QED
    BY <1>10, <2>1, <2>2 DEF SessionInv
<1> QED
  BY <1>9, <1>15, <1>16, <1>17 DEF SessionInv, t

\* RemoveChatSession keeps every other entry, though maybe elsewhere.
LEMMA TableAfterRemove ==
  ASSUME NEW table \in Seq(Session), NEW i \in DOMAIN table,
         NEW rest, rest = RemoveChatSession(table, i)
  PROVE  /\ rest \in Seq(Session) /\ Len(rest) = Len(table) - 1
         /\ \A j \in DOMAIN table : j # i => \E x \in DOMAIN rest : rest[x] = table[j]
         /\ \A j \in DOMAIN rest : rest[j] = table[IF j = i THEN Len(table) ELSE j]
<1> DEFINE n == Len(table)
           moved == [table EXCEPT ![i] = table[n]]
<1>1. n \in Nat \ {0} /\ DOMAIN table = 1..n /\ n \in 1..n /\ i \in 1..n
      /\ table[n] \in Session
  BY LenProperties, EmptySeq, ElementOfSeq
<1>2. /\ moved \in Seq(Session) /\ Len(moved) = n
      /\ \A j \in 1..n : moved[j] = IF j = i THEN table[n] ELSE table[j]
  BY <1>1, ExceptSeq
<1> HIDE DEF moved
<1>3. \A j \in 1..n - 1 : moved[j] \in Session
  BY <1>1, <1>2, ElementOfSeq
<1>4. /\ SubSeq(moved, 1, n - 1) \in Seq(Session)
      /\ Len(SubSeq(moved, 1, n - 1)) = n - 1
      /\ \A j \in 1..n - 1 : SubSeq(moved, 1, n - 1)[j] = moved[j]
  <2>1. /\ SubSeq(moved, 1, n - 1) \in Seq(Session)
        /\ Len(SubSeq(moved, 1, n - 1)) = IF 1 <= n - 1 THEN n - 1 - 1 + 1 ELSE 0
        /\ \A j \in 1..n - 1 - 1 + 1 : SubSeq(moved, 1, n - 1)[j] = moved[1 + j - 1]
    BY <1>1, <1>3, SubSeqProperties
  <2> QED
    BY <1>1, <2>1
<1>5. rest = SubSeq(moved, 1, n - 1)
  BY DEF RemoveChatSession, moved
<1>6. DOMAIN rest = 1..n - 1
  BY <1>4, <1>5, LenProperties
<1>7. \A j \in DOMAIN rest : rest[j] = table[IF j = i THEN n ELSE j]
  BY <1>1, <1>2, <1>4, <1>5, <1>6
<1>8. ASSUME NEW j \in 1..n, j # i
      PROVE  \E x \in DOMAIN rest : rest[x] = table[j]
  <2>1. CASE j = n
    <3>1. i \in DOMAIN rest
      BY <1>1, <1>6, <1>8, <2>1
    <3> QED
      BY <1>7, <2>1, <3>1
  <2>2. CASE j # n
    <3>1. n \in Int /\ j \in Int /\ 1 <= j /\ j <= n
      BY <1>1
    <3>2. j \in 1..n - 1
      BY <2>2, <3>1
    <3> QED
      BY <1>6, <1>7, <1>8, <3>2
  <2> QED
    BY <2>1, <2>2
<1> QED
  BY <1>1, <1>4, <1>5, <1>7, <1>8

LEMMA StopKeeps ==
  ASSUME NEW s, SessionInv(s), s.starting = "no", NEW group
  PROVE  SessionInv(StopChatSession(s, group))
<1>1. CASE Entries(s, group) = {}
  BY <1>1 DEF StopChatSession
<1>2. CASE Entries(s, group) # {}
  <2>1. /\ s \in SessionRecord /\ s.table \in Seq(Session) /\ Len(s.table) \in Nat
        /\ DOMAIN s.table = 1..Len(s.table)
        /\ s.processes \in [Pids -> Process \cup {NoProcess}]
        /\ \A i, j \in DOMAIN s.table : s.table[i].group = s.table[j].group => i = j
    BY RecordFacts DEF SessionInv, TableInv
  <2>2. PICK i \in DOMAIN s.table : Entries(s, group) = {i}
    BY <1>2, <2>1 DEF Entries
  <2> DEFINE n == Len(s.table)
             table == RemoveChatSession(s.table, i)
             pids == {s.table[i].receiver, s.table[i].sender}
             processes == Killed(s.processes, pids)
             t == StopChatSession(s, group)
  <2>3. i = CHOOSE x \in Entries(s, group) : \A other \in Entries(s, group) : x <= other
    BY <2>1, <2>2
  <2>4. t = [s EXCEPT !.processes = processes, !.table = table]
    BY <1>2, <2>3 DEF StopChatSession
  <2>5. /\ table \in Seq(Session) /\ Len(table) = n - 1
        /\ \A j \in DOMAIN s.table : j # i =>
             \E x \in DOMAIN table : table[x] = s.table[j]
        /\ \A j \in DOMAIN table :
             table[j] = s.table[IF j = i THEN n ELSE j]
    <3> DEFINE old == s.table
    <3>1. old \in Seq(Session) /\ i \in DOMAIN old
      BY <2>1
    <3> HIDE DEF old, table
    <3>2. table = RemoveChatSession(old, i)
      BY DEF table, old
    <3>3. /\ table \in Seq(Session) /\ Len(table) = Len(old) - 1
          /\ \A j \in DOMAIN old : j # i => \E x \in DOMAIN table : table[x] = old[j]
          /\ \A j \in DOMAIN table : table[j] = old[IF j = i THEN Len(old) ELSE j]
      BY <3>1, <3>2, TableAfterRemove
    <3> QED
      BY <3>3 DEF old
  <2>6. /\ processes \in [Pids -> Process \cup {NoProcess}]
        /\ \A q \in Pids : processes[q] = IF q \in pids THEN NoProcess ELSE s.processes[q]
    BY <2>1 DEF Killed
  <2>7. DOMAIN table = 1..n - 1
    BY <2>5, LenProperties
  <2> HIDE DEF t, table, processes
  <2>8. /\ t \in SessionRecord /\ t.table = table /\ t.starting = "no"
        /\ t.processes = processes
    <3>1. t \in SessionRecord
      <4>1. s.inbox \in SUBSET [role : Roles, pid : Pids] /\ s.starting \in States
        BY <2>1, RecordFacts
      <4> QED
        BY <2>1, <2>4, <2>5, <2>6, <4>1, RecordUpdates
    <3> QED
      BY <2>1, <2>4, <3>1 DEF SessionRecord
  <2>9. TableInv(t)
    <3>1. n - 1 <= MaxActiveGroups
      BY <2>1, ChatSessionsAssumption DEF SessionInv, TableInv
    <3>2. ASSUME NEW j \in DOMAIN table
          PROVE  /\ (IF j = i THEN n ELSE j) \in DOMAIN s.table
                 /\ table[j].receiver # NoPid /\ table[j].sender # NoPid
      <4>1. (IF j = i THEN n ELSE j) \in DOMAIN s.table
        BY <2>1, <2>7, <3>2
      <4> QED
        BY <2>5, <4>1 DEF SessionInv, TableInv
    <3>3. ASSUME NEW j \in DOMAIN table, NEW k \in DOMAIN table,
                 table[j].group = table[k].group
          PROVE  j = k
      <4>1. (IF j = i THEN n ELSE j) = (IF k = i THEN n ELSE k)
        <5> DEFINE x == IF j = i THEN n ELSE j
                   y == IF k = i THEN n ELSE k
        <5>1. x \in DOMAIN s.table /\ y \in DOMAIN s.table
          BY <3>2, <3>3
        <5>2. s.table[x].group = s.table[y].group
          BY <2>5, <3>3
        <5> HIDE DEF x, y
        <5>3. x = y
          BY <2>1, <5>1, <5>2
        <5> QED
          BY <5>3 DEF x, y
      <4> QED
        BY <2>1, <2>7, <4>1
    <3> QED
      BY <2>5, <2>8, <3>1, <3>2, <3>3 DEF TableInv
  <2>10. StartInv(t)
    BY <2>8 DEF StartInv
  <2>11. ASSUME NEW q \in Pids, Owned(t, q)
         PROVE  Known(t, q)
    <3>1. /\ q \notin pids /\ t.processes[q] = s.processes[q] /\ Owned(s, q)
      BY <2>6, <2>8, <2>11 DEF Owned, Running
    <3>2. Known(s, q)
      BY <3>1 DEF SessionInv, Expected
    <3>3. PICK j \in DOMAIN s.table :
            /\ s.table[j].group = s.processes[q].group
            /\ s.table[j].address = s.processes[q].address
            /\ q = Slot(s.table[j], s.processes[q].role)
      BY <3>2 DEF Known
    <3>4. j # i
      BY <3>1, <3>3 DEF Slot
    <3>5. PICK x \in DOMAIN table : table[x] = s.table[j]
      BY <2>5, <3>4
    <3> QED
      BY <2>8, <3>1, <3>2, <3>3, <3>5 DEF Known
  <2> QED
    BY <2>8, <2>9, <2>10, <2>11 DEF SessionInv, t
<1> QED
  BY <1>1, <1>2

LEMMA StopAllKeeps ==
  ASSUME NEW s, SessionInv(s), s.starting = "no"
  PROVE  SessionInv(StopAllChatSessions(s))
<1> DEFINE pids == {s.table[i].receiver : i \in DOMAIN s.table}
                     \cup {s.table[i].sender : i \in DOMAIN s.table}
           processes == Killed(s.processes, pids)
           t == StopAllChatSessions(s)
<1>1. /\ s \in SessionRecord /\ s.processes \in [Pids -> Process \cup {NoProcess}]
      /\ s.inbox \in SUBSET [role : Roles, pid : Pids] /\ s.starting \in States
  BY RecordFacts DEF SessionInv
<1>2. t = [s EXCEPT !.processes = processes, !.table = <<>>]
  BY DEF StopAllChatSessions
<1>3. /\ processes \in [Pids -> Process \cup {NoProcess}]
      /\ \A q \in Pids : processes[q] = IF q \in pids THEN NoProcess ELSE s.processes[q]
  BY <1>1 DEF Killed
<1> HIDE DEF t, processes
<1>4. /\ t \in SessionRecord /\ t.table = <<>> /\ t.starting = "no"
      /\ t.processes = processes
  <2>1. <<>> \in Seq(Session)
    OBVIOUS
  <2>2. t \in SessionRecord
    BY <1>1, <1>2, <1>3, <2>1, RecordUpdates
  <2> QED
    BY <1>1, <1>2, <2>2 DEF SessionRecord
<1>5. TableInv(t) /\ StartInv(t)
  BY <1>4, ChatSessionsAssumption DEF TableInv, StartInv
<1>6. ASSUME NEW q \in Pids, Owned(t, q)
      PROVE  FALSE
  <2>1. q \notin pids /\ Owned(s, q)
    BY <1>3, <1>4, <1>6 DEF Owned, Running
  <2>2. Known(s, q)
    BY <2>1 DEF SessionInv, Expected
  <2> QED
    BY <2>1, <2>2 DEF Known, Slot
<1> QED
  BY <1>4, <1>5, <1>6 DEF SessionInv, t

-----------------------------------------------------------------------------
\* The steps.

LEMMA SetKeeps ==
  ASSUME ChatInv, NEW c \in Clients, NEW t, SessionInv(t), SetSessions(c, t)
  PROVE  ChatInv'
<1>1. t \in SessionRecord
  BY DEF SessionInv
<1> QED
  BY <1>1 DEF ChatInv, SetSessions

LEMMA StartKeeps ==
  ASSUME ChatInv, NEW c \in Clients, NEW group \in GroupNames,
         NEW address \in Addresses, Start(c, group, address)
  PROVE  ChatInv'
<1> DEFINE t == Added(sessions[c], group, address)
<1>1. CASE UNCHANGED chatVars
  BY <1>1 DEF ChatInv, chatVars
<1>2. CASE /\ Entries(sessions[c], group) = {}
           /\ Len(sessions[c].table) # MaxActiveGroups /\ queuesLeft # 0
           /\ sessions' = [sessions EXCEPT ![c] = t]
           /\ queuesLeft' = queuesLeft - 1
  <2>1. SessionInv(t)
    BY <1>2, AddedKeeps DEF ChatInv, Start, Idle
  <2>2. t \in SessionRecord
    BY <2>1 DEF SessionInv
  <2>3. queuesLeft' \in 0..MaxQueues
    BY <1>2, ChatSessionsAssumption DEF ChatInv
  <2> HIDE DEF t
  <2> QED
    BY <1>2, <2>1, <2>2, <2>3 DEF ChatInv
<1> QED
  BY <1>1, <1>2 DEF Start, StartChatSession

LEMMA SessionsStep ==
  ASSUME ChatInv, [SessionsNext]_chatVars
  PROVE  ChatInv'
<1>1. CASE UNCHANGED chatVars
  BY <1>1 DEF ChatInv, chatVars
<1>2. ASSUME NEW c \in Clients, NEW group \in GroupNames, Stop(c, group)
      PROVE  ChatInv'
  BY <1>2, StopKeeps, SetKeeps DEF Stop, Idle, ChatInv
<1>3. ASSUME NEW c \in Clients, StopAll(c)
      PROVE  ChatInv'
  BY <1>3, StopAllKeeps, SetKeeps DEF StopAll, Idle, ChatInv
<1>4. ASSUME NEW c \in Clients, ClientDies(c)
      PROVE  ChatInv'
  BY <1>4, GoneKeeps, SetKeeps DEF ClientDies, ChatInv
<1>5. ASSUME NEW c \in Clients, NEW role \in Roles, Launch(c, role)
      PROVE  ChatInv'
  BY <1>5, LaunchedKeeps, NotLaunchedKeeps, SetKeeps DEF Launch, ChatInv
<1>6. ASSUME NEW c \in Clients, NEW role \in Roles, ReceivePid(c, role)
      PROVE  ChatInv'
  BY <1>6, ReceivedKeeps, SetKeeps DEF ReceivePid, ChatInv
<1>7. ASSUME NEW c \in Clients, NEW pid \in Pids, SendPid(c, pid)
      PROVE  ChatInv'
  BY <1>7, ReportedKeeps, SetKeeps DEF SendPid, ChatInv
<1>8. ASSUME NEW c \in Clients, NEW pid \in Pids, ProcessEnds(c, pid)
      PROVE  ChatInv'
  BY <1>8, EndedKeeps, SetKeeps DEF ProcessEnds, ChatInv
<1> QED
  BY <1>1, <1>2, <1>3, <1>4, <1>5, <1>6, <1>7, <1>8, StartKeeps
  DEF SessionsNext, ChatStep, Starting

LEMMA ChatInvariant == SessionsSpec => []ChatInv
<1>1. SessionsInit => ChatInv
  <2>1. NoSessions \in SessionRecord
    BY NoneKeeps DEF SessionInv
  <2> QED
    BY <2>1, NoneKeeps, ChatSessionsAssumption DEF SessionsInit, ChatInv
<1>2. ChatInv /\ [SessionsNext]_chatVars => ChatInv'
  BY SessionsStep
<1> QED
  BY <1>1, <1>2, PTL DEF SessionsSpec

-----------------------------------------------------------------------------
\* The theorems.

\* Type correctness.
THEOREM SessionsTypeCorrect == SessionsSpec => []SessionsTypeOK
<1>1. ChatInv => SessionsTypeOK
  <2> SUFFICES ASSUME ChatInv
               PROVE  SessionsTypeOK
    OBVIOUS
  <2>1. ASSUME NEW c \in Clients
        PROVE  SessionsTypeOf(sessions[c])
    BY RecordFacts DEF ChatInv, SessionInv, TableInv, SessionsTypeOf, States
  <2> QED
    BY <2>1 DEF ChatInv, SessionsTypeOK
<1> QED
  BY <1>1, ChatInvariant, PTL

\* Stopping a session, or all of them, reaches every process the client has
\* started, also when PIDs are reused while reports are on their way.
THEOREM NoProcessStrays == SessionsSpec => []NoStrayProcess
<1>1. ChatInv => NoStrayProcess
  <2> SUFFICES ASSUME ChatInv, NEW c \in Clients, NEW pid \in Pids,
                      Owned(sessions[c], pid)
               PROVE  \E i \in DOMAIN sessions[c].table :
                        BelongsTo(sessions[c], pid, i)
    BY DEF NoStrayProcess, Owned
  <2> DEFINE s == sessions[c]
  <2>1. SessionInv(s) /\ s \in SessionRecord
    BY DEF ChatInv, SessionInv
  <2> HIDE DEF s
  <2>2. CASE Known(s, pid)
    BY <2>2 DEF Known, BelongsTo, Slot, s
  <2>3. CASE Expected(s, pid)
    <3>1. s.starting # "no" /\ Len(s.table) \in DOMAIN s.table
      BY <2>1, <2>3, RecordFacts DEF SessionInv, TableInv, Expected
    <3> QED
      BY <2>3, <3>1 DEF Expected, BelongsTo, Newest, s
  <2>4. Known(s, pid) \/ Expected(s, pid)
    BY <2>1 DEF SessionInv, s
  <2> QED
    BY <2>2, <2>3, <2>4 DEF s
<1> QED
  BY <1>1, ChatInvariant, PTL

\* A group has one entry in the table, complete once the start is over.
THEOREM SessionsNeverDoubled == SessionsSpec => []OneSessionPerGroup
<1>1. ChatInv => OneSessionPerGroup
  <2> SUFFICES ASSUME ChatInv, NEW c \in Clients, NEW i \in DOMAIN sessions[c].table
               PROVE  LET table == sessions[c].table
                      IN  /\ \A j \in DOMAIN table :
                               table[i].group = table[j].group => i = j
                          /\ NoPid \in {table[i].receiver, table[i].sender} =>
                               i = Len(table) /\ ~Idle(c)
    BY DEF OneSessionPerGroup
  <2>1. /\ SessionInv(sessions[c]) /\ Len(sessions[c].table) \in Nat
        /\ DOMAIN sessions[c].table = 1..Len(sessions[c].table)
    BY RecordFacts DEF ChatInv, SessionInv
  <2> QED
    BY <2>1 DEF SessionInv, TableInv, Idle
<1> QED
  BY <1>1, ChatInvariant, PTL

=============================================================================
