---------------------------- MODULE GroupManager ----------------------------
(***************************************************************************)
(* The server's group manager (managers/src/group_manager.c): the live     *)
(* chat groups, the pool of multicast addresses they draw from and the     *)
(* counter their ports come from.                                          *)
(*                                                                         *)
(* Every function of the C module is an operator that takes the manager m  *)
(* and returns a record [result, manager], so that a request handler can   *)
(* call several of them in one atomic step, as the single-threaded server  *)
(* does.  The variable groupManager and GroupManagerSpec close the module  *)
(* under arbitrary calls.                                                  *)
(*                                                                         *)
(* The address 239.0.0.i is the number i.  The free addresses are the      *)
(* abstract FIFO that CircularQueue implements.  The members of a group    *)
(* are a set next to the separately kept m_memberCount: their order is     *)
(* never observed.                                                         *)
(***************************************************************************)
EXTENDS ChatCommon, Integers, Sequences, FiniteSets, Functions

CONSTANTS MaxGroups,            \* MAX_GROUPS: size of the address pool
          DefaultMulticastPort, \* DEFAULT_MULTICAST_PORT
          PortBound             \* bound: CreateGroup is explored below this port

ASSUME GroupManagerAssumption ==
  /\ MaxGroups \in Nat \ {0}
  /\ DefaultMulticastPort \in Nat

VARIABLE groupManager

MulticastIps == 1..MaxGroups

Group == [multicastIp : MulticastIps, multicastPort : Nat,
          members : SUBSET Users, memberCount : Int]

\* Mutant: FillMulticastIpQueue counts one address too many.
GroupManagerCreate_OneTooMany ==
  [groups |-> [n \in {} |-> {}],
   freeMulticastIps |-> [i \in 1..MaxGroups + 1 |-> i],
   nextMulticastPort |-> DefaultMulticastPort]

\* The pool holds every address, in order, and no group is live.
GroupManagerCreate ==
  [groups |-> [n \in {} |-> {}],
   freeMulticastIps |-> [i \in MulticastIps |-> i],
   nextMulticastPort |-> DefaultMulticastPort]

-----------------------------------------------------------------------------
\* The operations.

\* QueueInsert of several addresses, one after the other: those that find
\* the queue full are dropped.
Reinsert(queue, ips) ==
  LET all == queue \o ips
  IN  SubSeq(all, 1, IF Len(all) <= MaxGroups THEN Len(all) ELSE MaxGroups)

\* Mutant: the address that was taken is not given back.
ReturnAddress_Lost(m) == [m EXCEPT !.freeMulticastIps = Tail(@)]

\* A failed creation gives the address it took from the head back at the tail.
ReturnAddress(m) ==
  [m EXCEPT !.freeMulticastIps = Reinsert(Tail(@), <<Head(@)>>)]

\* Mutant: the port belongs to the address instead of the counter.
CreatedGroup_PortOfAddress(m) ==
  [multicastIp |-> Head(m.freeMulticastIps),
   multicastPort |-> DefaultMulticastPort + Head(m.freeMulticastIps),
   members |-> {}, memberCount |-> 0]

CreatedGroup(m) ==
  [multicastIp |-> Head(m.freeMulticastIps),
   multicastPort |-> m.nextMulticastPort, members |-> {}, memberCount |-> 0]

\* When the map refuses the group its port is spent all the same.
GroupManagerCreateGroup(m, name, fault) ==
  IF name \in DOMAIN m.groups
    THEN Outcome("already_exists", m)
  ELSE IF m.freeMulticastIps = <<>>
    THEN Outcome("no_free_multicast_ip", m)
  ELSE IF fault = "object"
    THEN Outcome("allocation_error", ReturnAddress(m))
  ELSE IF fault = "insert"
    THEN Outcome("insert_error",
                 [ReturnAddress(m) EXCEPT !.nextMulticastPort = @ + 1])
  ELSE Outcome("success",
               [groups |-> Put(m.groups, name, CreatedGroup(m)),
                freeMulticastIps |-> Tail(m.freeMulticastIps),
                nextMulticastPort |-> m.nextMulticastPort + 1])

\* The group's address and port, for the response (meaningful on success).
GroupManagerFindGroup(m, name) ==
  IF name \in DOMAIN m.groups
    THEN [result |-> "success",
          ip |-> m.groups[name].multicastIp,
          port |-> m.groups[name].multicastPort]
    ELSE [result |-> "not_found", ip |-> 0, port |-> 0]

\* FindMemberInGroup
IsMember(m, name, user) == user \in m.groups[name].members

WithMember(group, user) ==
  [group EXCEPT !.members = @ \cup {user}, !.memberCount = @ + 1]

WithoutMember(group, user) ==
  [group EXCEPT !.members = @ \ {user}, !.memberCount = @ - 1]

GroupManagerAddUserToGroup(m, name, user, fault) ==
  IF name \notin DOMAIN m.groups
    THEN Outcome("not_found", m)
  ELSE IF IsMember(m, name, user)
    THEN Outcome("already_exists", m)
  ELSE IF fault = "member"
    THEN Outcome("allocation_error", m)
  ELSE Outcome("success",
               [m EXCEPT !.groups[name] = WithMember(@, user)])

\* Mutant: the port counter is set back when groups go.
RemoveGroups_PortsBack(m, order) ==
  [groups |-> Restrict(m.groups,
                       DOMAIN m.groups \ {order[i] : i \in DOMAIN order}),
   freeMulticastIps |->
     Reinsert(m.freeMulticastIps,
              [i \in DOMAIN order |-> m.groups[order[i]].multicastIp]),
   nextMulticastPort |-> m.nextMulticastPort - Len(order)]

\* RemoveGroup of the groups in "order", one after the other: each leaves
\* the map and its address goes to the tail of the pool.
RemoveGroups(m, order) ==
  [groups |-> Restrict(m.groups,
                       DOMAIN m.groups \ {order[i] : i \in DOMAIN order}),
   freeMulticastIps |->
     Reinsert(m.freeMulticastIps,
              [i \in DOMAIN order |-> m.groups[order[i]].multicastIp]),
   nextMulticastPort |-> m.nextMulticastPort]

\* Mutant: the group goes when one member is left, not none.
GroupManagerRemoveUserFromGroup_LastButOne(m, name, user) ==
  IF name \notin DOMAIN m.groups \/ ~IsMember(m, name, user)
    THEN Outcome("not_found", m)
    ELSE LET left == [m EXCEPT !.groups[name] = WithoutMember(@, user)]
         IN  IF left.groups[name].memberCount > 1
               THEN Outcome("success", left)
               ELSE Outcome("success", RemoveGroups(left, <<name>>))

\* The last member to leave takes the group with it.
GroupManagerRemoveUserFromGroup(m, name, user) ==
  IF name \notin DOMAIN m.groups \/ ~IsMember(m, name, user)
    THEN Outcome("not_found", m)
    ELSE LET left == [m EXCEPT !.groups[name] = WithoutMember(@, user)]
         IN  IF left.groups[name].memberCount # 0
               THEN Outcome("success", left)
             ELSE IF Len(m.freeMulticastIps) = MaxGroups
               THEN Outcome("insert_error", RemoveGroups(left, <<name>>))
             ELSE Outcome("success", RemoveGroups(left, <<name>>))

\* Mutant: the member goes, the count stays.
LeaveAll_CountKept(m, user) ==
  [m EXCEPT !.groups =
     [n \in DOMAIN @ |-> [@[n] EXCEPT !.members = @ \ {user}]]]

\* First pass of RemoveUserFromAllGroups: the user leaves every group.
LeaveAll(m, user) ==
  [m EXCEPT !.groups =
     [n \in DOMAIN @ |-> IF IsMember(m, n, user)
                           THEN WithoutMember(@[n], user) ELSE @[n]]]

\* Mutant: no group is ever collected.
EmptyGroups_None(m) == {}

\* CollectEmptyGroupsAction
EmptyGroups(m) == {n \in DOMAIN m.groups : m.groups[n].memberCount = 0}

\* The map's bucket order decides which group is visited first.
VisitOrders(names) == Bijection(1..Cardinality(names), names)

\* Second pass: every group found empty, whoever emptied it, is removed.
GroupManagerRemoveUserFromAllGroups(m, user, order) ==
  Outcome("success", RemoveGroups(LeaveAll(m, user), order))

-----------------------------------------------------------------------------
\* The manager under arbitrary calls.

GroupManagerInit == groupManager = GroupManagerCreate

CreateGroup(name, fault) ==
  /\ groupManager.nextMulticastPort < PortBound
  /\ groupManager' =
       GroupManagerCreateGroup(groupManager, name, fault).manager

AddUserToGroup(name, user, fault) ==
  groupManager' =
    GroupManagerAddUserToGroup(groupManager, name, user, fault).manager

RemoveUserFromGroup(name, user) ==
  groupManager' =
    GroupManagerRemoveUserFromGroup(groupManager, name, user).manager

RemoveUserFromAllGroups(user) ==
  \E order \in VisitOrders(EmptyGroups(LeaveAll(groupManager, user))) :
    groupManager' =
      GroupManagerRemoveUserFromAllGroups(groupManager, user, order).manager

GroupManagerNext ==
  \/ \E name \in GroupNames, fault \in Faults : CreateGroup(name, fault)
  \/ \E name \in GroupNames, user \in Users, fault \in Faults :
       AddUserToGroup(name, user, fault)
  \/ \E name \in GroupNames, user \in Users : RemoveUserFromGroup(name, user)
  \/ \E user \in Users : RemoveUserFromAllGroups(user)

GroupManagerSpec ==
  GroupManagerInit /\ [][GroupManagerNext]_groupManager

-----------------------------------------------------------------------------
\* Properties.

Live == groupManager.groups

ManagerTypeOK(m) ==
  /\ m = [groups |-> m.groups,
          freeMulticastIps |-> m.freeMulticastIps,
          nextMulticastPort |-> m.nextMulticastPort]
  /\ DOMAIN m.groups \subseteq GroupNames
  /\ m.groups \in [DOMAIN m.groups -> Group]
  /\ m.freeMulticastIps \in Seq(MulticastIps)
  /\ m.nextMulticastPort \in Nat

PoolConserved(m) ==
  /\ IsInjective(m.freeMulticastIps)
  /\ \A n \in DOMAIN m.groups : \A i \in DOMAIN m.freeMulticastIps :
       m.groups[n].multicastIp # m.freeMulticastIps[i]
  /\ \A n1, n2 \in DOMAIN m.groups :
       m.groups[n1].multicastIp = m.groups[n2].multicastIp => n1 = n2
  /\ Len(m.freeMulticastIps) + Cardinality(DOMAIN m.groups) = MaxGroups

CountsExact(m) ==
  \A n \in DOMAIN m.groups :
    m.groups[n].memberCount = Cardinality(m.groups[n].members)

PortsDistinct(m) ==
  /\ \A n \in DOMAIN m.groups :
       m.groups[n].multicastPort < m.nextMulticastPort
  /\ \A n1, n2 \in DOMAIN m.groups :
       m.groups[n1].multicastPort = m.groups[n2].multicastPort => n1 = n2

\* Type invariant: the shape of the manager (struct GroupManager).
GroupManagerTypeOK == ManagerTypeOK(groupManager)

\* Every address is in exactly one place: waiting in the pool once, or held
\* by one live group.  CreateGroup's error paths and the two removal paths
\* all move addresses; one that forgot to would leak or share one.
AddressPoolConserved == PoolConserved(groupManager)

\* m_memberCount, which alone decides when a group is deleted, is the
\* number of members in the list.
MemberCountExact == CountsExact(groupManager)

\* Live groups have different ports, all handed out already: the counter is
\* never set back, also not by a creation that fails half-way.  (Here a port is
\* the int m_multicastPort; on the wire it has 16 bits, see ChatServer's OnWire.)
PortsUnique == PortsDistinct(groupManager)

Moved ==
  \/ \E n \in DOMAIN Live \cap DOMAIN Live' :
       \/ Live'[n].multicastIp # Live[n].multicastIp
       \/ Live'[n].multicastPort # Live[n].multicastPort
  \/ \E n \in DOMAIN Live' \ DOMAIN Live :
       Live'[n].multicastPort < groupManager.nextMulticastPort

\* A live group keeps its address and port until it is deleted, and a group
\* that appears gets an m_multicastPort no earlier group has had, whatever failed
\* between its creation and its insertion.
AddressStable == [][~Moved]_groupManager
=============================================================================
