------------------------ MODULE GroupManager_proofs ------------------------
(***************************************************************************)
(* Proofs about GroupManager, for every set of names, every pool size and  *)
(* every choice of allocation failures.                                    *)
(*                                                                         *)
(* The inductive invariant is ManagerInv: the four properties the runs     *)
(* check and the finiteness of the sets whose cardinalities they mention.  *)
(* The lemmas are about the operators, for an arbitrary manager m, so that *)
(* they serve the standalone manager here and the server that calls        *)
(* several operations in one step (ChatServer_proofs).                     *)
(***************************************************************************)
EXTENDS GroupManager, FiniteSetTheorems, SequenceTheorems, TLAPS

SetsFinite(m) ==
  /\ IsFiniteSet(DOMAIN m.groups)
  /\ \A n \in DOMAIN m.groups : IsFiniteSet(m.groups[n].members)

ManagerInv(m) ==
  /\ ManagerTypeOK(m)
  /\ PoolConserved(m)
  /\ CountsExact(m)
  /\ PortsDistinct(m)
  /\ SetsFinite(m)

-----------------------------------------------------------------------------
\* Updating a manager.

\* A manager is a record of three fields.
LEMMA FieldsUpdated ==
  ASSUME NEW m, ManagerTypeOK(m), NEW g, NEW q, NEW p
  PROVE  /\ [m EXCEPT !.groups = g] =
              [groups |-> g, freeMulticastIps |-> m.freeMulticastIps,
               nextMulticastPort |-> m.nextMulticastPort]
         /\ [m EXCEPT !.freeMulticastIps = q] =
              [groups |-> m.groups, freeMulticastIps |-> q,
               nextMulticastPort |-> m.nextMulticastPort]
         /\ [m EXCEPT !.nextMulticastPort = p] =
              [groups |-> m.groups, freeMulticastIps |-> m.freeMulticastIps,
               nextMulticastPort |-> p]
<1>1. PICK g0, q0, p0 : m = [groups |-> g0, freeMulticastIps |-> q0,
                             nextMulticastPort |-> p0]
  BY DEF ManagerTypeOK
<1>2. [m EXCEPT !.groups = g] =
        [groups |-> g, freeMulticastIps |-> q0, nextMulticastPort |-> p0]
  BY <1>1
<1>3. [m EXCEPT !.freeMulticastIps = q] =
        [groups |-> g0, freeMulticastIps |-> q, nextMulticastPort |-> p0]
  BY <1>1
<1>4. [m EXCEPT !.nextMulticastPort = p] =
        [groups |-> g0, freeMulticastIps |-> q0, nextMulticastPort |-> p]
  BY <1>1
<1> QED
  BY <1>1, <1>2, <1>3, <1>4

\* Changes inside live groups keep the invariant when the groups keep their
\* addresses and ports and the counts stay exact.
LEMMA MembersChangedInv ==
  ASSUME NEW m, ManagerInv(m), NEW g,
         DOMAIN g = DOMAIN m.groups,
         \A n \in DOMAIN g :
           /\ g[n] \in Group
           /\ g[n].multicastIp = m.groups[n].multicastIp
           /\ g[n].multicastPort = m.groups[n].multicastPort
           /\ IsFiniteSet(g[n].members)
           /\ g[n].memberCount = Cardinality(g[n].members),
         g \in [DOMAIN g -> Group]
  PROVE  ManagerInv([m EXCEPT !.groups = g])
<1> DEFINE r == [groups |-> g, freeMulticastIps |-> m.freeMulticastIps,
                 nextMulticastPort |-> m.nextMulticastPort]
<1>1. [m EXCEPT !.groups = g] = r
  BY FieldsUpdated DEF ManagerInv
<1>2. ManagerTypeOK(r)
  BY DEF ManagerInv, ManagerTypeOK
<1>3. PoolConserved(r)
  BY DEF ManagerInv, PoolConserved
<1>4. CountsExact(r) /\ PortsDistinct(r) /\ SetsFinite(r)
  BY DEF ManagerInv, CountsExact, PortsDistinct, SetsFinite
<1> QED
  BY <1>1, <1>2, <1>3, <1>4 DEF ManagerInv

\* A larger port counter keeps the invariant.
LEMMA PortSpentInv ==
  ASSUME NEW m, ManagerInv(m)
  PROVE  ManagerInv([m EXCEPT !.nextMulticastPort = @ + 1])
<1> DEFINE r == [groups |-> m.groups, freeMulticastIps |-> m.freeMulticastIps,
                 nextMulticastPort |-> m.nextMulticastPort + 1]
<1>1. [m EXCEPT !.nextMulticastPort = @ + 1] = r
  BY FieldsUpdated DEF ManagerInv
<1>2. ManagerTypeOK(r)
  BY DEF ManagerInv, ManagerTypeOK
<1>3. PortsDistinct(r)
  BY DEF ManagerInv, ManagerTypeOK, PortsDistinct, Group
<1>4. PoolConserved(r) /\ CountsExact(r) /\ SetsFinite(r)
  BY DEF ManagerInv, PoolConserved, CountsExact, SetsFinite
<1> QED
  BY <1>1, <1>2, <1>3, <1>4 DEF ManagerInv

-----------------------------------------------------------------------------
\* The initial pool.

\* A new manager satisfies the invariant: all addresses are in the pool.
LEMMA CreateInv == ManagerInv(GroupManagerCreate)
<1> DEFINE m == GroupManagerCreate
<1>1. m.groups = [n \in {} |-> {}] /\ DOMAIN m.groups = {}
  BY DEF GroupManagerCreate
<1>2. /\ m.freeMulticastIps = [i \in 1..MaxGroups |-> i]
      /\ m.freeMulticastIps \in Seq(1..MaxGroups)
      /\ Len(m.freeMulticastIps) = MaxGroups
      /\ DOMAIN m.freeMulticastIps = 1..MaxGroups
  BY GroupManagerAssumption DEF GroupManagerCreate, MulticastIps
<1>3. ManagerTypeOK(m)
  BY <1>1, <1>2, GroupManagerAssumption
     DEF ManagerTypeOK, GroupManagerCreate, MulticastIps
<1>4. PoolConserved(m)
  BY <1>1, <1>2, FS_EmptySet, GroupManagerAssumption
     DEF PoolConserved, IsInjective
<1>5. CountsExact(m) /\ PortsDistinct(m) /\ SetsFinite(m)
  BY <1>1, FS_EmptySet DEF CountsExact, PortsDistinct, SetsFinite
<1> QED
  BY <1>3, <1>4, <1>5 DEF ManagerInv

-----------------------------------------------------------------------------
\* Addresses going back to the pool.

\* While there is room, Reinsert loses nothing: it is concatenation.
LEMMA ReinsertFits ==
  ASSUME NEW q \in Seq(MulticastIps), NEW ips \in Seq(MulticastIps),
         Len(q) + Len(ips) <= MaxGroups
  PROVE  /\ Reinsert(q, ips) = q \o ips
         /\ q \o ips \in Seq(MulticastIps)
         /\ Len(q \o ips) = Len(q) + Len(ips)
<1>1. q \o ips \in Seq(MulticastIps) /\ Len(q \o ips) = Len(q) + Len(ips)
  BY ConcatProperties
<1>2. SubSeq(q \o ips, 1, Len(q \o ips)) = q \o ips
  BY <1>1, SubSeqFull
<1> QED
  BY <1>1, <1>2 DEF Reinsert

\* Taking the head of the pool and giving it back keeps the invariant.
LEMMA ReturnAddressInv ==
  ASSUME NEW m, ManagerInv(m), m.freeMulticastIps # <<>>
  PROVE  ManagerInv(ReturnAddress(m))
<1> DEFINE q == m.freeMulticastIps
           t == Tail(q) \o <<Head(q)>>
           r == [groups |-> m.groups, freeMulticastIps |-> t,
                 nextMulticastPort |-> m.nextMulticastPort]
<1>1. q \in Seq(MulticastIps) /\ q # <<>>
  BY DEF ManagerInv, ManagerTypeOK
<1>2. /\ Head(q) \in MulticastIps
      /\ Head(q) = q[1]
      /\ Tail(q) \in Seq(MulticastIps)
      /\ Len(Tail(q)) = Len(q) - 1
      /\ Len(q) \in Nat \ {0}
      /\ DOMAIN q = 1..Len(q)
      /\ \A i \in 1..Len(q) - 1 : Tail(q)[i] = q[i + 1]
      /\ <<Head(q)>> \in Seq(MulticastIps) /\ Len(<<Head(q)>>) = 1
  BY <1>1
<1>3. Cardinality(DOMAIN m.groups) \in Nat
  BY FS_CardinalityType DEF ManagerInv, SetsFinite
<1>4. Len(q) + Cardinality(DOMAIN m.groups) = MaxGroups
  BY DEF ManagerInv, PoolConserved
<1>5. Len(Tail(q)) + Len(<<Head(q)>>) <= MaxGroups
  BY <1>2, <1>3, <1>4, GroupManagerAssumption
<1>6. Reinsert(Tail(q), <<Head(q)>>) = t /\ t \in Seq(MulticastIps)
  BY <1>2, <1>5, ReinsertFits
<1>7. /\ Len(t) = Len(q)
      /\ DOMAIN t = 1..Len(q)
      /\ \A i \in 1..Len(q) : t[i] = IF i < Len(q) THEN q[i + 1] ELSE q[1]
  BY <1>2
<1>8. ReturnAddress(m) = r
  BY <1>6, FieldsUpdated DEF ManagerInv, ReturnAddress
<1>9. ManagerTypeOK(r)
  BY <1>6 DEF ManagerInv, ManagerTypeOK
<1>10. PoolConserved(r)
  <2>1. \A a, b \in 1..Len(q) : q[a] = q[b] => a = b
    BY <1>2 DEF ManagerInv, PoolConserved, IsInjective
  <2>2. \A a, b \in 1..Len(q) : t[a] = t[b] => a = b
    BY <1>2, <1>7, <2>1
  <2>3. IsInjective(t)
    BY <1>7, <2>2 DEF IsInjective
  <2>4. \A n \in DOMAIN m.groups : \A i \in 1..Len(q) :
          m.groups[n].multicastIp # q[i]
    BY <1>2 DEF ManagerInv, PoolConserved
  <2>5. \A n \in DOMAIN m.groups : \A i \in 1..Len(q) :
          m.groups[n].multicastIp # t[i]
    BY <1>2, <1>7, <2>4
  <2> QED
    BY <1>4, <1>7, <2>3, <2>5 DEF ManagerInv, PoolConserved
<1>11. CountsExact(r) /\ PortsDistinct(r) /\ SetsFinite(r)
  BY DEF ManagerInv, CountsExact, PortsDistinct, SetsFinite
<1> QED
  BY <1>8, <1>9, <1>10, <1>11 DEF ManagerInv

-----------------------------------------------------------------------------
\* The operations keep the invariant.

\* Adding a group with the address at the head of the pool.
LEMMA GroupAddedInv ==
  ASSUME NEW m, ManagerInv(m), NEW name \in GroupNames \ DOMAIN m.groups,
         m.freeMulticastIps # <<>>
  PROVE  ManagerInv([groups |-> Put(m.groups, name, CreatedGroup(m)),
                     freeMulticastIps |-> Tail(m.freeMulticastIps),
                     nextMulticastPort |-> m.nextMulticastPort + 1])
<1> DEFINE q == m.freeMulticastIps
           new == CreatedGroup(m)
           g == Put(m.groups, name, new)
           r == [groups |-> g, freeMulticastIps |-> Tail(q),
                 nextMulticastPort |-> m.nextMulticastPort + 1]
<1>1. q \in Seq(MulticastIps) /\ q # <<>> /\ m.nextMulticastPort \in Nat
  BY DEF ManagerInv, ManagerTypeOK
<1>2. /\ Head(q) \in MulticastIps
      /\ Head(q) = q[1]
      /\ Tail(q) \in Seq(MulticastIps)
      /\ Len(Tail(q)) = Len(q) - 1
      /\ Len(q) \in Nat \ {0}
      /\ DOMAIN q = 1..Len(q)
      /\ DOMAIN Tail(q) = 1..Len(q) - 1
      /\ \A i \in 1..Len(q) - 1 : Tail(q)[i] = q[i + 1]
  BY <1>1
<1>3. /\ DOMAIN g = DOMAIN m.groups \cup {name}
      /\ g[name] = new
      /\ \A n \in DOMAIN m.groups : g[n] = m.groups[n]
      /\ g = [n \in DOMAIN m.groups \cup {name} |->
                IF n = name THEN new ELSE m.groups[n]]
  BY DEF Put
<1>4. /\ new \in Group
      /\ new.multicastIp = q[1]
      /\ new.multicastPort = m.nextMulticastPort
      /\ new.members = {} /\ new.memberCount = 0
  BY <1>1, <1>2 DEF CreatedGroup, Group
<1> HIDE DEF new, g
<1>5. ManagerTypeOK(r)
  <2>1. DOMAIN m.groups \subseteq GroupNames
        /\ m.groups \in [DOMAIN m.groups -> Group]
    BY DEF ManagerInv, ManagerTypeOK
  <2>2. g \in [DOMAIN g -> Group]
    BY <1>3, <1>4, <2>1
  <2> QED
    BY <1>1, <1>2, <1>3, <2>1, <2>2 DEF ManagerTypeOK
<1>6. PoolConserved(r)
  <2>1. /\ \A a, b \in 1..Len(q) : q[a] = q[b] => a = b
        /\ \A n \in DOMAIN m.groups : \A i \in 1..Len(q) :
             m.groups[n].multicastIp # q[i]
        /\ \A n1, n2 \in DOMAIN m.groups :
             m.groups[n1].multicastIp = m.groups[n2].multicastIp => n1 = n2
        /\ Len(q) + Cardinality(DOMAIN m.groups) = MaxGroups
    BY <1>2 DEF ManagerInv, PoolConserved, IsInjective
  <2>2. IsInjective(Tail(q))
    <3>1. ASSUME NEW a \in 1..Len(q) - 1, NEW b \in 1..Len(q) - 1,
                 Tail(q)[a] = Tail(q)[b]
          PROVE  a = b
      <4>1. /\ a \in Int /\ b \in Int
            /\ a + 1 \in 1..Len(q) /\ b + 1 \in 1..Len(q)
        BY <1>2
      <4>2. q[a + 1] = q[b + 1]
        BY <1>2, <3>1
      <4>3. a + 1 = b + 1
        BY <2>1, <4>1, <4>2
      <4> QED
        BY <4>1, <4>3
    <3> QED
      BY <1>2, <3>1 DEF IsInjective
  <2>3. \A n \in DOMAIN g : \A i \in 1..Len(q) - 1 :
          g[n].multicastIp # Tail(q)[i]
    BY <1>2, <1>3, <1>4, <2>1
  <2>4. \A n1, n2 \in DOMAIN g :
          g[n1].multicastIp = g[n2].multicastIp => n1 = n2
    <3>1. 1 \in 1..Len(q)
      BY <1>2
    <3>2. \A n \in DOMAIN m.groups : g[n].multicastIp # g[name].multicastIp
      BY <1>3, <1>4, <2>1, <3>1
    <3> QED
      BY <1>3, <2>1, <3>2
  <2>5. /\ Cardinality(DOMAIN g) = Cardinality(DOMAIN m.groups) + 1
        /\ Cardinality(DOMAIN m.groups) \in Nat
    BY <1>3, FS_AddElement, FS_CardinalityType DEF ManagerInv, SetsFinite
  <2> QED
    BY <1>2, <2>1, <2>2, <2>3, <2>4, <2>5 DEF PoolConserved
<1>7. CountsExact(r)
  BY <1>3, <1>4, FS_EmptySet DEF ManagerInv, CountsExact
<1>8. PortsDistinct(r)
  <2>1. \A n \in DOMAIN m.groups :
          /\ m.groups[n].multicastPort \in Nat
          /\ m.groups[n].multicastPort < m.nextMulticastPort
    BY DEF ManagerInv, ManagerTypeOK, PortsDistinct, Group
  <2> QED
    BY <1>1, <1>3, <1>4, <2>1 DEF ManagerInv, PortsDistinct
<1>9. SetsFinite(r)
  BY <1>3, <1>4, FS_AddElement, FS_EmptySet DEF ManagerInv, SetsFinite
<1> QED
  BY <1>5, <1>6, <1>7, <1>8, <1>9 DEF ManagerInv, g, new

\* GroupManagerCreateGroup, with its two error paths.
LEMMA CreateGroupInv ==
  ASSUME NEW m, ManagerInv(m), NEW name \in GroupNames, NEW fault
  PROVE  ManagerInv(GroupManagerCreateGroup(m, name, fault).manager)
<1>1. CASE name \in DOMAIN m.groups \/ m.freeMulticastIps = <<>>
  BY <1>1 DEF GroupManagerCreateGroup, Outcome
<1>2. CASE name \notin DOMAIN m.groups /\ m.freeMulticastIps # <<>>
  <2>1. /\ ManagerInv(ReturnAddress(m))
        /\ ManagerInv([ReturnAddress(m) EXCEPT !.nextMulticastPort = @ + 1])
    BY <1>2, ReturnAddressInv, PortSpentInv
  <2>2. ManagerInv([groups |-> Put(m.groups, name, CreatedGroup(m)),
                    freeMulticastIps |-> Tail(m.freeMulticastIps),
                    nextMulticastPort |-> m.nextMulticastPort + 1])
    BY <1>2, GroupAddedInv
  <2> QED
    BY <1>2, <2>1, <2>2 DEF GroupManagerCreateGroup, Outcome
<1> QED
  BY <1>1, <1>2

\* Joining and leaving one group.  WithMember is used for a user who is not
\* in the group and WithoutMember for one who is.
LEMMA MemberCounts ==
  ASSUME NEW group \in Group, IsFiniteSet(group.members),
         group.memberCount = Cardinality(group.members), NEW user \in Users
  PROVE  /\ user \notin group.members =>
              /\ WithMember(group, user) \in Group
              /\ IsFiniteSet(WithMember(group, user).members)
              /\ WithMember(group, user).memberCount =
                   Cardinality(WithMember(group, user).members)
         /\ user \in group.members =>
              /\ WithoutMember(group, user) \in Group
              /\ IsFiniteSet(WithoutMember(group, user).members)
              /\ WithoutMember(group, user).memberCount =
                   Cardinality(WithoutMember(group, user).members)
         /\ WithMember(group, user).multicastIp = group.multicastIp
         /\ WithMember(group, user).multicastPort = group.multicastPort
         /\ WithoutMember(group, user).multicastIp = group.multicastIp
         /\ WithoutMember(group, user).multicastPort = group.multicastPort
<1> DEFINE joined == WithMember(group, user)
           left == WithoutMember(group, user)
<1>1. /\ group.members \in SUBSET Users
      /\ group.memberCount \in Int
      /\ Cardinality(group.members) \in Nat
  BY FS_CardinalityType DEF Group
<1>2. /\ joined.multicastIp = group.multicastIp
      /\ joined.multicastPort = group.multicastPort
      /\ joined.members = group.members \cup {user}
      /\ joined.memberCount = group.memberCount + 1
  BY <1>1 DEF WithMember, Group
<1>3. /\ left.multicastIp = group.multicastIp
      /\ left.multicastPort = group.multicastPort
      /\ left.members = group.members \ {user}
      /\ left.memberCount = group.memberCount - 1
  BY <1>1 DEF WithoutMember, Group
<1>4. joined \in Group /\ left \in Group
  <2>1. /\ [group EXCEPT !.members = @ \cup {user}] \in Group
        /\ [group EXCEPT !.members = @ \ {user}] \in Group
    BY DEF Group
  <2>2. \A g \in Group : /\ [g EXCEPT !.memberCount = @ + 1] \in Group
                         /\ [g EXCEPT !.memberCount = @ - 1] \in Group
    BY DEF Group
  <2>3. joined = [[group EXCEPT !.members = @ \cup {user}]
                    EXCEPT !.memberCount = @ + 1]
    BY DEF WithMember, Group
  <2>4. left = [[group EXCEPT !.members = @ \ {user}]
                  EXCEPT !.memberCount = @ - 1]
    BY DEF WithoutMember, Group
  <2> QED
    BY <2>1, <2>2, <2>3, <2>4
<1>5. user \notin group.members =>
        /\ IsFiniteSet(group.members \cup {user})
        /\ Cardinality(group.members \cup {user}) =
             Cardinality(group.members) + 1
  BY FS_AddElement
<1>6. user \in group.members =>
        /\ IsFiniteSet(group.members \ {user})
        /\ Cardinality(group.members \ {user}) =
             Cardinality(group.members) - 1
  BY FS_RemoveElement
<1> QED
  BY <1>1, <1>2, <1>3, <1>4, <1>5, <1>6

\* What the invariant says of one live group.
LEMMA LiveGroup ==
  ASSUME NEW m, ManagerInv(m), NEW n \in DOMAIN m.groups
  PROVE  /\ m.groups[n] \in Group
         /\ IsFiniteSet(m.groups[n].members)
         /\ m.groups[n].memberCount = Cardinality(m.groups[n].members)
BY DEF ManagerInv, ManagerTypeOK, SetsFinite, CountsExact

LEMMA AddUserInv ==
  ASSUME NEW m, ManagerInv(m), NEW name, NEW user \in Users, NEW fault
  PROVE  ManagerInv(GroupManagerAddUserToGroup(m, name, user, fault).manager)
<1>1. CASE \/ name \notin DOMAIN m.groups
           \/ IsMember(m, name, user)
           \/ fault = "member"
  BY <1>1 DEF GroupManagerAddUserToGroup, Outcome
<1>2. CASE name \in DOMAIN m.groups /\ user \notin m.groups[name].members
  <2> DEFINE g == [m.groups EXCEPT ![name] = WithMember(@, user)]
  <2>1. /\ DOMAIN g = DOMAIN m.groups
        /\ g[name] = WithMember(m.groups[name], user)
        /\ \A n \in DOMAIN g : n # name => g[n] = m.groups[n]
    BY <1>2
  <2>2. \A n \in DOMAIN g :
          /\ g[n] \in Group
          /\ g[n].multicastIp = m.groups[n].multicastIp
          /\ g[n].multicastPort = m.groups[n].multicastPort
          /\ IsFiniteSet(g[n].members)
          /\ g[n].memberCount = Cardinality(g[n].members)
    BY <1>2, <2>1, LiveGroup, MemberCounts
  <2>3. g \in [DOMAIN g -> Group]
    BY <2>2
  <2> HIDE DEF g
  <2>4. ManagerInv([m EXCEPT !.groups = g])
    BY <2>1, <2>2, <2>3, MembersChangedInv
  <2> QED
    BY <1>2, <2>4, ManagerInv(m)
       DEF g, GroupManagerAddUserToGroup, Outcome, IsMember
<1> QED
  BY <1>1, <1>2 DEF IsMember

\* Removing one or more groups: each address goes back to the pool once.
LEMMA RemoveGroupsInv ==
  ASSUME NEW m, ManagerInv(m), NEW names \in SUBSET DOMAIN m.groups,
         NEW order \in VisitOrders(names)
  PROVE  ManagerInv(RemoveGroups(m, order))
<1> DEFINE q == m.freeMulticastIps
           k == Cardinality(names)
           ips == [i \in DOMAIN order |-> m.groups[order[i]].multicastIp]
           t == q \o ips
           kept == DOMAIN m.groups \ names
           g == [n \in kept |-> m.groups[n]]
           r == [groups |-> g, freeMulticastIps |-> t,
                 nextMulticastPort |-> m.nextMulticastPort]
<1>1. /\ k \in Nat
      /\ IsFiniteSet(kept)
      /\ Cardinality(kept) = Cardinality(DOMAIN m.groups) - k
      /\ Cardinality(kept) \in Nat
      /\ Cardinality(DOMAIN m.groups) \in Nat
  <2>1. IsFiniteSet(DOMAIN m.groups) /\ IsFiniteSet(names)
    BY FS_Subset DEF ManagerInv, SetsFinite
  <2>2. DOMAIN m.groups \cap names = names
    OBVIOUS
  <2> QED
    BY <2>1, <2>2, FS_Difference, FS_CardinalityType
<1>2. /\ DOMAIN order = 1..k
      /\ \A i \in 1..k : order[i] \in names
      /\ \A a, b \in 1..k : order[a] = order[b] => a = b
      /\ {order[i] : i \in 1..k} = names
  BY DEF VisitOrders, Bijection, Injection, IsInjective, Surjection
<1>3. /\ q \in Seq(MulticastIps)
      /\ Len(q) \in Nat
      /\ DOMAIN q = 1..Len(q)
      /\ \A n \in DOMAIN m.groups : /\ m.groups[n] \in Group
                                    /\ m.groups[n].multicastIp \in MulticastIps
      /\ \A a, b \in 1..Len(q) : q[a] = q[b] => a = b
      /\ \A n \in DOMAIN m.groups : \A i \in 1..Len(q) :
           m.groups[n].multicastIp # q[i]
      /\ \A n1, n2 \in DOMAIN m.groups :
           m.groups[n1].multicastIp = m.groups[n2].multicastIp => n1 = n2
      /\ Len(q) + Cardinality(DOMAIN m.groups) = MaxGroups
  <2>1. q \in Seq(MulticastIps) /\ Len(q) \in Nat /\ DOMAIN q = 1..Len(q)
    BY DEF ManagerInv, ManagerTypeOK
  <2>2. \A n \in DOMAIN m.groups : /\ m.groups[n] \in Group
                                   /\ m.groups[n].multicastIp \in MulticastIps
    BY DEF ManagerInv, ManagerTypeOK, Group
  <2> QED
    BY <2>1, <2>2 DEF ManagerInv, PoolConserved, IsInjective
<1>4. /\ ips \in Seq(MulticastIps)
      /\ Len(ips) = k
      /\ \A i \in 1..k : ips[i] = m.groups[order[i]].multicastIp
  BY <1>1, <1>2, <1>3
<1> HIDE DEF ips
<1>5. Reinsert(q, ips) = t /\ t \in Seq(MulticastIps)
  <2>1. Len(q) + Len(ips) <= MaxGroups
    BY <1>1, <1>3, <1>4, GroupManagerAssumption
  <2> QED
    BY <1>3, <1>4, <2>1, ReinsertFits
<1>6. /\ Len(t) = Len(q) + k
      /\ DOMAIN t = 1..Len(q) + k
      /\ \A i \in 1..Len(q) + k :
           t[i] = IF i <= Len(q) THEN q[i] ELSE ips[i - Len(q)]
  <2>1. /\ Len(t) = Len(q) + k
        /\ \A i \in 1..Len(q) + k :
             t[i] = IF i <= Len(q) THEN q[i] ELSE ips[i - Len(q)]
    <3>1. q \in Seq(MulticastIps) /\ ips \in Seq(MulticastIps)
      BY <1>3, <1>4
    <3> HIDE DEF q, k
    <3>2. /\ Len(t) = Len(q) + Len(ips)
          /\ \A i \in 1..Len(q) + Len(ips) :
               t[i] = IF i <= Len(q) THEN q[i] ELSE ips[i - Len(q)]
      BY <3>1, ConcatProperties, Zenon
    <3> HIDE DEF t
    <3> QED
      BY <1>4, <3>2
  <2> QED
    BY <1>5, <2>1, LenProperties
<1>7. RemoveGroups(m, order) = r
  BY <1>2, <1>5 DEF RemoveGroups, Restrict, ips
<1> HIDE DEF k, t
<1>8. ManagerTypeOK(r)
  BY <1>3, <1>5 DEF ManagerInv, ManagerTypeOK
<1>9. PoolConserved(r)
  <2>1. \A a, b \in 1..Len(q) + k : t[a] = t[b] => a = b
    <3> SUFFICES ASSUME NEW a \in 1..Len(q) + k, NEW b \in 1..Len(q) + k,
                        t[a] = t[b]
                 PROVE  a = b
      OBVIOUS
    <3>1. CASE a <= Len(q) /\ b <= Len(q)
      BY <1>1, <1>3, <1>6, <3>1
    <3>2. CASE a > Len(q) /\ b > Len(q)
      <4>1. a - Len(q) \in 1..k /\ b - Len(q) \in 1..k
        BY <1>1, <1>3, <3>2
      <4>2. t[a] = ips[a - Len(q)] /\ t[b] = ips[b - Len(q)]
        BY <1>3, <1>6, <3>2
      <4>3. m.groups[order[a - Len(q)]].multicastIp =
              m.groups[order[b - Len(q)]].multicastIp
        BY <1>4, <4>1, <4>2
      <4>4. order[a - Len(q)] = order[b - Len(q)]
        BY <1>2, <1>3, <4>1, <4>3
      <4>5. a - Len(q) = b - Len(q)
        BY <1>2, <4>1, <4>4
      <4> QED
        BY <1>1, <1>3, <4>5
    <3>3. CASE a <= Len(q) /\ b > Len(q)
      <4>1. b - Len(q) \in 1..k /\ a \in 1..Len(q)
        BY <1>1, <1>3, <3>3
      <4>2. t[a] = q[a] /\ t[b] = ips[b - Len(q)]
        BY <1>3, <1>6, <3>3
      <4>3. m.groups[order[b - Len(q)]].multicastIp # q[a]
        BY <1>2, <1>3, <4>1
      <4> QED
        BY <1>4, <4>1, <4>2, <4>3
    <3>4. CASE a > Len(q) /\ b <= Len(q)
      <4>1. a - Len(q) \in 1..k /\ b \in 1..Len(q)
        BY <1>1, <1>3, <3>4
      <4>2. t[b] = q[b] /\ t[a] = ips[a - Len(q)]
        BY <1>3, <1>6, <3>4
      <4>3. m.groups[order[a - Len(q)]].multicastIp # q[b]
        BY <1>2, <1>3, <4>1
      <4> QED
        BY <1>4, <4>1, <4>2, <4>3
    <3> QED
      BY <1>1, <1>3, <3>1, <3>2, <3>3, <3>4
  <2>2. \A n \in kept : \A i \in 1..Len(q) + k : g[n].multicastIp # t[i]
    <3> SUFFICES ASSUME NEW n \in kept, NEW i \in 1..Len(q) + k
                 PROVE  m.groups[n].multicastIp # t[i]
      OBVIOUS
    <3>1. CASE i <= Len(q)
      BY <1>1, <1>3, <1>6, <3>1
    <3>2. CASE i > Len(q)
      <4>1. i - Len(q) \in 1..k
        BY <1>1, <3>2
      <4>2. t[i] = ips[i - Len(q)]
        BY <1>1, <1>6, <3>2
      <4> QED
        BY <1>2, <1>3, <1>4, <4>1, <4>2
    <3>3. i <= Len(q) \/ i > Len(q)
      <4>1. i \in Int /\ Len(q) \in Int
        BY <1>1
      <4> QED
        BY <4>1
    <3> QED
      BY <3>1, <3>2, <3>3
  <2>3. Len(t) + Cardinality(kept) = MaxGroups
    BY <1>1, <1>3, <1>6
  <2>4. IsInjective(t)
    BY <1>6, <2>1 DEF IsInjective
  <2>5. \A n1, n2 \in kept :
          g[n1].multicastIp = g[n2].multicastIp => n1 = n2
    BY <1>3
  <2>6. /\ r.groups = g /\ r.freeMulticastIps = t
        /\ DOMAIN g = kept /\ DOMAIN t = 1..Len(q) + k
    BY <1>6
  <2> HIDE DEF r, g, kept
  <2> QED
    BY <2>2, <2>3, <2>4, <2>5, <2>6 DEF PoolConserved
<1>10. CountsExact(r) /\ PortsDistinct(r) /\ SetsFinite(r)
  BY <1>1 DEF ManagerInv, CountsExact, PortsDistinct, SetsFinite
<1> QED
  BY <1>7, <1>8, <1>9, <1>10 DEF ManagerInv

\* Leaving one group, and the group with its last member.
LEMMA RemoveUserInv ==
  ASSUME NEW m, ManagerInv(m), NEW name, NEW user \in Users
  PROVE  ManagerInv(GroupManagerRemoveUserFromGroup(m, name, user).manager)
<1>1. CASE name \notin DOMAIN m.groups \/ ~IsMember(m, name, user)
  BY <1>1 DEF GroupManagerRemoveUserFromGroup, Outcome
<1>2. CASE name \in DOMAIN m.groups /\ user \in m.groups[name].members
  <2> DEFINE g == [m.groups EXCEPT ![name] = WithoutMember(@, user)]
             left == [m EXCEPT !.groups[name] = WithoutMember(@, user)]
  <2>1. /\ DOMAIN g = DOMAIN m.groups
        /\ g[name] = WithoutMember(m.groups[name], user)
        /\ \A n \in DOMAIN g : n # name => g[n] = m.groups[n]
    BY <1>2
  <2>2. \A n \in DOMAIN g :
          /\ g[n] \in Group
          /\ g[n].multicastIp = m.groups[n].multicastIp
          /\ g[n].multicastPort = m.groups[n].multicastPort
          /\ IsFiniteSet(g[n].members)
          /\ g[n].memberCount = Cardinality(g[n].members)
    BY <1>2, <2>1, LiveGroup, MemberCounts
  <2>3. g \in [DOMAIN g -> Group]
    BY <2>2
  <2> HIDE DEF g
  <2>4. ManagerInv([m EXCEPT !.groups = g])
    BY <2>1, <2>2, <2>3, MembersChangedInv
  <2>5. left = [m EXCEPT !.groups = g]
    BY DEF g
  <2>6. left = [groups |-> g, freeMulticastIps |-> m.freeMulticastIps,
                nextMulticastPort |-> m.nextMulticastPort]
    BY <2>5, FieldsUpdated DEF ManagerInv
  <2>7. <<name>> \in VisitOrders({name})
    <3>1. Cardinality({name}) = 1
      BY FS_Singleton
    <3> QED
      BY <3>1 DEF VisitOrders, Bijection, Injection, IsInjective, Surjection
  <2>8. ManagerInv(RemoveGroups(left, <<name>>))
    BY <1>2, <2>1, <2>4, <2>5, <2>6, <2>7, RemoveGroupsInv
  <2> HIDE DEF left
  <2> QED
    BY <1>2, <2>4, <2>5, <2>8
       DEF left, GroupManagerRemoveUserFromGroup, Outcome, IsMember
<1> QED
  BY <1>1, <1>2 DEF IsMember

\* Leaving all groups and collecting the empty ones, in any order.
LEMMA RemoveUserFromAllInv ==
  ASSUME NEW m, ManagerInv(m), NEW user \in Users,
         NEW order \in VisitOrders(EmptyGroups(LeaveAll(m, user)))
  PROVE  ManagerInv(GroupManagerRemoveUserFromAllGroups(m, user, order).manager)
<1> DEFINE g == [n \in DOMAIN m.groups |->
                   IF IsMember(m, n, user)
                     THEN WithoutMember(m.groups[n], user) ELSE m.groups[n]]
           left == LeaveAll(m, user)
<1>1. \A n \in DOMAIN g :
        /\ g[n] \in Group
        /\ g[n].multicastIp = m.groups[n].multicastIp
        /\ g[n].multicastPort = m.groups[n].multicastPort
        /\ IsFiniteSet(g[n].members)
        /\ g[n].memberCount = Cardinality(g[n].members)
  BY LiveGroup, MemberCounts DEF IsMember
<1>2. DOMAIN g = DOMAIN m.groups /\ g \in [DOMAIN g -> Group]
  BY <1>1
<1>3. left = [m EXCEPT !.groups = g]
  BY DEF LeaveAll
<1> HIDE DEF g
<1>4. ManagerInv(left)
  BY <1>1, <1>2, <1>3, MembersChangedInv
<1> HIDE DEF left
<1>5. EmptyGroups(left) \in SUBSET DOMAIN left.groups
  BY DEF EmptyGroups
<1>6. ManagerInv(RemoveGroups(left, order))
  BY <1>4, <1>5, RemoveGroupsInv DEF left
<1> QED
  BY <1>6 DEF left, GroupManagerRemoveUserFromAllGroups, Outcome

-----------------------------------------------------------------------------
\* The operations never move a live group.

\* Groups that live before and after keep address and port, and a new group
\* has a port that was not handed out before; the counter never goes back.
Stable(m, m2) ==
  /\ \A n \in DOMAIN m.groups \cap DOMAIN m2.groups :
       /\ m2.groups[n].multicastIp = m.groups[n].multicastIp
       /\ m2.groups[n].multicastPort = m.groups[n].multicastPort
  /\ \A n \in DOMAIN m2.groups \ DOMAIN m.groups :
       m2.groups[n].multicastPort >= m.nextMulticastPort
  /\ m2.nextMulticastPort >= m.nextMulticastPort

LEMMA CounterOrdered ==
  ASSUME NEW m, ManagerInv(m)
  PROVE  /\ m.nextMulticastPort \in Nat
         /\ m.nextMulticastPort + 1 >= m.nextMulticastPort
         /\ m.nextMulticastPort >= m.nextMulticastPort
BY DEF ManagerInv, ManagerTypeOK

LEMMA CreateGroupStable ==
  ASSUME NEW m, ManagerInv(m), NEW name, NEW fault
  PROVE  Stable(m, GroupManagerCreateGroup(m, name, fault).manager)
<1>1. CASE name \in DOMAIN m.groups \/ m.freeMulticastIps = <<>>
  BY <1>1, CounterOrdered DEF GroupManagerCreateGroup, Outcome, Stable
<1>2. CASE name \notin DOMAIN m.groups /\ m.freeMulticastIps # <<>>
  <2> DEFINE q == Reinsert(Tail(m.freeMulticastIps),
                           <<Head(m.freeMulticastIps)>>)
             r1 == [groups |-> m.groups, freeMulticastIps |-> q,
                    nextMulticastPort |-> m.nextMulticastPort]
             r2 == [groups |-> Put(m.groups, name, CreatedGroup(m)),
                    freeMulticastIps |-> Tail(m.freeMulticastIps),
                    nextMulticastPort |-> m.nextMulticastPort + 1]
  <2> HIDE DEF q
  <2>1. ReturnAddress(m) = r1
    BY FieldsUpdated DEF ManagerInv, ReturnAddress, q
  <2>2. [ReturnAddress(m) EXCEPT !.nextMulticastPort = @ + 1] =
          [groups |-> m.groups, freeMulticastIps |-> q,
           nextMulticastPort |-> m.nextMulticastPort + 1]
    BY <2>1
  <2>3. CreatedGroup(m).multicastPort = m.nextMulticastPort
        /\ m.nextMulticastPort \in Nat
    BY DEF CreatedGroup, ManagerInv, ManagerTypeOK
  <2>4. Stable(m, r2)
    <3> DEFINE g == Put(m.groups, name, CreatedGroup(m))
    <3>1. /\ DOMAIN g = DOMAIN m.groups \cup {name}
          /\ \A n \in DOMAIN m.groups : g[n] = m.groups[n]
          /\ g[name] = CreatedGroup(m)
      BY <1>2 DEF Put
    <3> HIDE DEF g
    <3>2. r2.groups = g
      BY DEF g
    <3> QED
      BY <2>3, <3>1, <3>2, CounterOrdered DEF Stable
  <2>5. Stable(m, ReturnAddress(m))
    BY <2>1, CounterOrdered DEF Stable
  <2>6. Stable(m, [ReturnAddress(m) EXCEPT !.nextMulticastPort = @ + 1])
    BY <2>2, CounterOrdered DEF Stable
  <2> QED
    BY <1>2, <2>4, <2>5, <2>6 DEF GroupManagerCreateGroup, Outcome
<1> QED
  BY <1>1, <1>2

LEMMA AddUserStable ==
  ASSUME NEW m, ManagerInv(m), NEW name, NEW user, NEW fault
  PROVE  Stable(m, GroupManagerAddUserToGroup(m, name, user, fault).manager)
<1> DEFINE g == [m.groups EXCEPT ![name] = WithMember(@, user)]
<1>1. \A n \in DOMAIN m.groups :
        /\ g[n].multicastIp = m.groups[n].multicastIp
        /\ g[n].multicastPort = m.groups[n].multicastPort
  BY LiveGroup DEF WithMember, Group
<1>2. DOMAIN g = DOMAIN m.groups
  OBVIOUS
<1> HIDE DEF g
<1>3. Stable(m, [m EXCEPT !.groups = g])
  BY <1>1, <1>2, FieldsUpdated, CounterOrdered DEF ManagerInv, Stable
<1>4. Stable(m, m)
  BY CounterOrdered DEF Stable
<1> QED
  BY <1>3, <1>4 DEF g, GroupManagerAddUserToGroup, Outcome

LEMMA RemoveUserStable ==
  ASSUME NEW m, ManagerInv(m), NEW name, NEW user
  PROVE  Stable(m, GroupManagerRemoveUserFromGroup(m, name, user).manager)
<1> DEFINE g == [m.groups EXCEPT ![name] = WithoutMember(@, user)]
           left == [m EXCEPT !.groups[name] = WithoutMember(@, user)]
<1>1. \A n \in DOMAIN m.groups :
        /\ g[n].multicastIp = m.groups[n].multicastIp
        /\ g[n].multicastPort = m.groups[n].multicastPort
  BY LiveGroup DEF WithoutMember, Group
<1>2. DOMAIN g = DOMAIN m.groups
  OBVIOUS
<1>3. left = [m EXCEPT !.groups = g]
  OBVIOUS
<1> HIDE DEF g
<1>4. left.groups = g /\ left.nextMulticastPort = m.nextMulticastPort
  BY <1>3, FieldsUpdated DEF ManagerInv
<1> HIDE DEF left
<1>5. Stable(m, left)
  BY <1>1, <1>2, <1>4, CounterOrdered DEF Stable
<1>6. Stable(m, RemoveGroups(left, <<name>>))
  BY <1>1, <1>2, <1>4, CounterOrdered DEF Stable, RemoveGroups, Restrict
<1>7. Stable(m, m)
  BY CounterOrdered DEF Stable
<1> QED
  BY <1>5, <1>6, <1>7 DEF left, GroupManagerRemoveUserFromGroup, Outcome

LEMMA RemoveUserFromAllStable ==
  ASSUME NEW m, ManagerInv(m), NEW user, NEW order
  PROVE  Stable(m, GroupManagerRemoveUserFromAllGroups(m, user, order).manager)
<1> DEFINE g == [n \in DOMAIN m.groups |->
                   IF IsMember(m, n, user)
                     THEN WithoutMember(m.groups[n], user) ELSE m.groups[n]]
<1>1. \A n \in DOMAIN m.groups :
        /\ g[n].multicastIp = m.groups[n].multicastIp
        /\ g[n].multicastPort = m.groups[n].multicastPort
  BY LiveGroup DEF WithoutMember, Group
<1>2. DOMAIN g = DOMAIN m.groups
  OBVIOUS
<1>3. LeaveAll(m, user) = [m EXCEPT !.groups = g]
  BY DEF LeaveAll
<1> HIDE DEF g
<1>4. /\ LeaveAll(m, user).groups = g
      /\ LeaveAll(m, user).nextMulticastPort = m.nextMulticastPort
  BY <1>3, FieldsUpdated DEF ManagerInv
<1>5. Stable(m, RemoveGroups(LeaveAll(m, user), order))
  BY <1>1, <1>2, <1>4, CounterOrdered DEF Stable, RemoveGroups, Restrict
<1> QED
  BY <1>5 DEF GroupManagerRemoveUserFromAllGroups, Outcome

-----------------------------------------------------------------------------
\* What each operation does to the groups, for the handlers that call it.

\* A member of a live group is still one in m2.
MemberKept(m, m2, name, user) ==
  name \in DOMAIN m.groups /\ user \in m.groups[name].members =>
    name \in DOMAIN m2.groups /\ user \in m2.groups[name].members

NobodyAlone(m) == \A n \in DOMAIN m.groups : m.groups[n].members # {}

\* The group has no member, and had some or was not there.
NewlyAlone(m, m2, n) ==
  /\ n \in DOMAIN m2.groups /\ m2.groups[n].members = {}
  /\ ~(n \in DOMAIN m.groups /\ m.groups[n].members = {})

\* A creation adds a group without members under a new port, or no group.
LEMMA CreateGroupEffect ==
  ASSUME NEW m, ManagerInv(m), NEW name, NEW fault
  PROVE  LET call == GroupManagerCreateGroup(m, name, fault)
         IN  /\ call.result # "success" => call.manager.groups = m.groups
             /\ call.result = "success" =>
                  /\ name \notin DOMAIN m.groups
                  /\ DOMAIN call.manager.groups = DOMAIN m.groups \cup {name}
                  /\ \A n \in DOMAIN m.groups :
                       call.manager.groups[n] = m.groups[n]
                  /\ call.manager.groups[name].members = {}
                  /\ call.manager.groups[name].multicastPort =
                       m.nextMulticastPort
                  /\ call.manager.nextMulticastPort = m.nextMulticastPort + 1
<1> DEFINE call == GroupManagerCreateGroup(m, name, fault)
           back == ReturnAddress(m)
           new == [groups |-> Put(m.groups, name, CreatedGroup(m)),
                   freeMulticastIps |-> Tail(m.freeMulticastIps),
                   nextMulticastPort |-> m.nextMulticastPort + 1]
<1>1. back.groups = m.groups
  BY FieldsUpdated DEF ManagerInv, ReturnAddress
<1>2. [back EXCEPT !.nextMulticastPort = @ + 1].groups = back.groups
  BY FieldsUpdated DEF ManagerInv, ReturnAddress
<1>3. /\ new.groups = Put(m.groups, name, CreatedGroup(m))
      /\ new.nextMulticastPort = m.nextMulticastPort + 1
  OBVIOUS
<1>4. \/ call.result = "success" /\ call.manager = new /\ name \notin DOMAIN m.groups
      \/ call.result # "success" /\ call.manager = m
      \/ call.result # "success" /\ call.manager = back
      \/ /\ call.result # "success"
         /\ call.manager = [back EXCEPT !.nextMulticastPort = @ + 1]
  BY DEF GroupManagerCreateGroup, Outcome
<1>5. CreatedGroup(m).members = {} /\ CreatedGroup(m).multicastPort = m.nextMulticastPort
  BY DEF CreatedGroup
<1>6. /\ DOMAIN Put(m.groups, name, CreatedGroup(m)) = DOMAIN m.groups \cup {name}
      /\ Put(m.groups, name, CreatedGroup(m))[name] = CreatedGroup(m)
      /\ \A n \in DOMAIN m.groups : n # name =>
           Put(m.groups, name, CreatedGroup(m))[n] = m.groups[n]
  BY DEF Put
<1> HIDE DEF call, back, new
<1> QED
  BY <1>1, <1>2, <1>3, <1>4, <1>5, <1>6 DEF call

\* A join adds one member to one live group, or changes nothing.
LEMMA AddUserEffect ==
  ASSUME NEW m, ManagerInv(m), NEW name, NEW user, NEW fault
  PROVE  LET call == GroupManagerAddUserToGroup(m, name, user, fault)
         IN  /\ call.result # "success" => call.manager = m
             /\ call.result = "success" =>
                  /\ name \in DOMAIN m.groups
                  /\ user \notin m.groups[name].members
                  /\ call.manager.groups[name].members =
                       m.groups[name].members \cup {user}
                  /\ \A n \in DOMAIN m.groups : n # name =>
                       call.manager.groups[n] = m.groups[n]
             /\ DOMAIN call.manager.groups = DOMAIN m.groups
             /\ call.manager.nextMulticastPort = m.nextMulticastPort
             /\ \A n, u : MemberKept(m, call.manager, n, u)
<1> DEFINE call == GroupManagerAddUserToGroup(m, name, user, fault)
           g == [m.groups EXCEPT ![name] = WithMember(@, user)]
<1>1. \/ call.result # "success" /\ call.manager = m
      \/ /\ call.result = "success"
         /\ call.manager = [m EXCEPT !.groups = g]
         /\ name \in DOMAIN m.groups /\ user \notin m.groups[name].members
  BY DEF GroupManagerAddUserToGroup, Outcome, IsMember
<1>2. /\ [m EXCEPT !.groups = g].groups = g
      /\ [m EXCEPT !.groups = g].nextMulticastPort = m.nextMulticastPort
  BY FieldsUpdated DEF ManagerInv
<1>3. /\ DOMAIN g = DOMAIN m.groups
      /\ \A n \in DOMAIN m.groups : n # name => g[n] = m.groups[n]
  OBVIOUS
<1>4. name \in DOMAIN m.groups => g[name].members = m.groups[name].members \cup {user}
  <2>1. \A x \in Group : WithMember(x, user).members = x.members \cup {user}
    BY DEF WithMember, Group
  <2>2. name \in DOMAIN m.groups =>
          m.groups[name] \in Group /\ g[name] = WithMember(m.groups[name], user)
    BY LiveGroup
  <2> QED
    BY <2>1, <2>2
<1> HIDE DEF call, g
<1> QED
  BY <1>1, <1>2, <1>3, <1>4 DEF call, MemberKept

\* A leave takes one user out of one group, which stays while it has others.
LEMMA RemoveUserEffect ==
  ASSUME NEW m, ManagerInv(m), NEW name, NEW user \in Users
  PROVE  LET m2 == GroupManagerRemoveUserFromGroup(m, name, user).manager
         IN  /\ DOMAIN m2.groups \subseteq DOMAIN m.groups
             /\ \A n, u : n # name \/ u # user => MemberKept(m, m2, n, u)
             /\ \A n : ~NewlyAlone(m, m2, n)
<1> DEFINE m2 == GroupManagerRemoveUserFromGroup(m, name, user).manager
           g == [m.groups EXCEPT ![name] = WithoutMember(@, user)]
           left == [m EXCEPT !.groups[name] = WithoutMember(@, user)]
           gone == RemoveGroups(left, <<name>>)
<1>1. CASE name \notin DOMAIN m.groups \/ ~IsMember(m, name, user)
  BY <1>1 DEF GroupManagerRemoveUserFromGroup, Outcome, MemberKept, NewlyAlone
<1>2. CASE name \in DOMAIN m.groups /\ IsMember(m, name, user)
  <2>1. left.groups = g
    <3>1. left = [m EXCEPT !.groups = g]
      OBVIOUS
    <3> HIDE DEF left, g
    <3> QED
      BY <3>1, FieldsUpdated DEF ManagerInv
  <2>2. \/ m2 = left /\ g[name].memberCount # 0
        \/ m2 = gone /\ g[name].memberCount = 0
    BY <1>2, <2>1 DEF GroupManagerRemoveUserFromGroup, Outcome
  <2>3. /\ DOMAIN g = DOMAIN m.groups
        /\ g[name] = WithoutMember(m.groups[name], user)
        /\ \A n \in DOMAIN m.groups : n # name => g[n] = m.groups[n]
    BY <1>2
  <2>4. g[name].members = m.groups[name].members \ {user}
    <3>1. \A x \in Group : WithoutMember(x, user).members = x.members \ {user}
      BY DEF WithoutMember, Group
    <3> QED
      BY <1>2, <2>3, <3>1, LiveGroup
  <2>5. g[name].memberCount = 0 <=> g[name].members = {}
    BY <1>2, <2>3, LiveGroup, MemberCounts, FS_EmptySet DEF IsMember
  <2>6. /\ DOMAIN gone.groups = DOMAIN g \ {name}
        /\ \A n \in DOMAIN g \ {name} : gone.groups[n] = g[n]
    <3>1. {<<name>>[i] : i \in DOMAIN <<name>>} = {name}
      OBVIOUS
    <3> HIDE DEF left, g
    <3> QED
      BY <2>1, <3>1 DEF RemoveGroups, Restrict
  <2> HIDE DEF m2, g, left, gone
  <2>7. DOMAIN m2.groups \subseteq DOMAIN m.groups
    BY <2>1, <2>2, <2>3, <2>6
  <2>8. \A n, u : n # name \/ u # user => MemberKept(m, m2, n, u)
    <3>1. CASE m2 = left
      BY <2>1, <2>3, <2>4, <3>1 DEF MemberKept
    <3>2. CASE m2 = gone /\ g[name].memberCount = 0
      BY <1>2, <2>3, <2>4, <2>5, <2>6, <3>2 DEF MemberKept
    <3> QED
      BY <2>2, <3>1, <3>2
  <2>9. \A n : ~NewlyAlone(m, m2, n)
    <3>1. CASE m2 = left /\ g[name].memberCount # 0
      BY <2>1, <2>3, <2>5, <3>1 DEF NewlyAlone
    <3>2. CASE m2 = gone
      BY <2>3, <2>6, <3>2 DEF NewlyAlone
    <3> QED
      BY <2>2, <3>1, <3>2
  <2> QED
    BY <2>7, <2>8, <2>9 DEF m2
<1> QED
  BY <1>1, <1>2

\* A leave that is refused changes nothing: the pool has room for the address
\* of a live group.
LEMMA RemoveUserRefused ==
  ASSUME NEW m, ManagerInv(m), NEW name, NEW user,
         GroupManagerRemoveUserFromGroup(m, name, user).result # "success"
  PROVE  GroupManagerRemoveUserFromGroup(m, name, user).manager = m
<1>1. CASE name \notin DOMAIN m.groups \/ ~IsMember(m, name, user)
  BY <1>1 DEF GroupManagerRemoveUserFromGroup, Outcome
<1>2. CASE name \in DOMAIN m.groups
  <2>1. IsFiniteSet(DOMAIN m.groups)
    BY DEF ManagerInv, SetsFinite
  <2>2. /\ Cardinality(DOMAIN m.groups) \in Nat
        /\ Cardinality(DOMAIN m.groups) # 0
    BY <1>2, <2>1, FS_CardinalityType, FS_EmptySet
  <2>3. Len(m.freeMulticastIps) # MaxGroups
    BY <2>2, GroupManagerAssumption DEF ManagerInv, PoolConserved, ManagerTypeOK
  <2> QED
    BY <1>2, <2>3 DEF GroupManagerRemoveUserFromGroup, Outcome
<1> QED
  BY <1>1, <1>2

\* A logout takes the user out of every group and ends those it leaves empty.
LEMMA RemoveUserFromAllEffect ==
  ASSUME NEW m, ManagerInv(m), NEW user \in Users,
         NEW order \in VisitOrders(EmptyGroups(LeaveAll(m, user)))
  PROVE  LET m2 == GroupManagerRemoveUserFromAllGroups(m, user, order).manager
         IN  /\ DOMAIN m2.groups \subseteq DOMAIN m.groups
             /\ \A n \in DOMAIN m2.groups : user \notin m2.groups[n].members
             /\ \A n, u : u # user => MemberKept(m, m2, n, u)
             /\ NobodyAlone(m2)
<1> DEFINE m2 == GroupManagerRemoveUserFromAllGroups(m, user, order).manager
           g == [n \in DOMAIN m.groups |->
                   IF IsMember(m, n, user)
                     THEN WithoutMember(m.groups[n], user) ELSE m.groups[n]]
           left == LeaveAll(m, user)
           names == EmptyGroups(left)
<1>1. left.groups = g
  <2>1. left = [m EXCEPT !.groups = g]
    BY DEF LeaveAll
  <2> HIDE DEF left, g
  <2> QED
    BY <2>1, FieldsUpdated DEF ManagerInv
<1>2. /\ DOMAIN g = DOMAIN m.groups
      /\ \A n \in DOMAIN m.groups :
           /\ g[n].members = m.groups[n].members \ {user}
           /\ IsFiniteSet(g[n].members)
           /\ g[n].memberCount = Cardinality(g[n].members)
  <2>1. \A x \in Group : WithoutMember(x, user).members = x.members \ {user}
    BY DEF WithoutMember, Group
  <2> SUFFICES ASSUME NEW n \in DOMAIN m.groups
               PROVE  /\ g[n].members = m.groups[n].members \ {user}
                      /\ IsFiniteSet(g[n].members)
                      /\ g[n].memberCount = Cardinality(g[n].members)
    OBVIOUS
  <2>2. CASE IsMember(m, n, user)
    BY <2>1, <2>2, LiveGroup, MemberCounts DEF IsMember
  <2>3. CASE ~IsMember(m, n, user)
    <3>1. g[n] = m.groups[n] /\ user \notin m.groups[n].members
      BY <2>3 DEF IsMember
    <3> QED
      BY <3>1, LiveGroup
  <2> QED
    BY <2>2, <2>3
<1>3. names = {n \in DOMAIN g : g[n].members = {}}
  <2> HIDE DEF g, left
  <2>1. names = {n \in DOMAIN g : g[n].memberCount = 0}
    BY <1>1 DEF EmptyGroups
  <2>2. \A n \in DOMAIN g : g[n].memberCount = 0 <=> g[n].members = {}
    BY <1>2, FS_EmptySet
  <2> HIDE DEF names
  <2> QED
    BY <2>1, <2>2
<1>4. {order[i] : i \in DOMAIN order} = names
  BY DEF VisitOrders, Bijection, Injection, Surjection
<1> HIDE DEF g, left, names
<1>5. /\ DOMAIN m2.groups = DOMAIN g \ names
      /\ \A n \in DOMAIN g \ names : m2.groups[n] = g[n]
  BY <1>1, <1>4 DEF GroupManagerRemoveUserFromAllGroups, Outcome, RemoveGroups,
                    Restrict, left
<1> HIDE DEF m2
<1> QED
  BY <1>2, <1>3, <1>5 DEF m2, MemberKept, NobodyAlone

-----------------------------------------------------------------------------
\* The theorems.

GroupManagerInv == ManagerInv(groupManager)

\* One call of any operation keeps the invariant.
LEMMA GroupManagerStep ==
  ASSUME GroupManagerInv, [GroupManagerNext]_groupManager
  PROVE  GroupManagerInv'
<1> USE DEF GroupManagerInv
<1>1. ASSUME NEW name \in GroupNames, NEW fault \in Faults,
             CreateGroup(name, fault)
      PROVE  GroupManagerInv'
  BY <1>1, CreateGroupInv DEF CreateGroup
<1>2. ASSUME NEW name \in GroupNames, NEW user \in Users,
             NEW fault \in Faults, AddUserToGroup(name, user, fault)
      PROVE  GroupManagerInv'
  BY <1>2, AddUserInv DEF AddUserToGroup
<1>3. ASSUME NEW name \in GroupNames, NEW user \in Users,
             RemoveUserFromGroup(name, user)
      PROVE  GroupManagerInv'
  BY <1>3, RemoveUserInv DEF RemoveUserFromGroup
<1>4. ASSUME NEW user \in Users, RemoveUserFromAllGroups(user)
      PROVE  GroupManagerInv'
  BY <1>4, RemoveUserFromAllInv DEF RemoveUserFromAllGroups
<1>5. CASE UNCHANGED groupManager
  BY <1>5
<1> QED
  BY <1>1, <1>2, <1>3, <1>4, <1>5 DEF GroupManagerNext

\* The inductive invariant holds of every reachable manager.
THEOREM GroupManagerInvariant == GroupManagerSpec => []GroupManagerInv
<1>1. GroupManagerInit => GroupManagerInv
  BY CreateInv DEF GroupManagerInit, GroupManagerInv
<1>2. GroupManagerInv /\ [GroupManagerNext]_groupManager => GroupManagerInv'
  BY GroupManagerStep
<1> QED
  BY <1>1, <1>2, PTL DEF GroupManagerSpec

\* The manager keeps its type: no call corrupts it (struct GroupManager).
THEOREM GroupManagerTypeCorrect == GroupManagerSpec => []GroupManagerTypeOK
<1>1. GroupManagerInv => GroupManagerTypeOK
  BY DEF GroupManagerInv, ManagerInv, GroupManagerTypeOK
<1> QED
  BY <1>1, GroupManagerInvariant, PTL

\* No multicast address is ever lost or held twice, whatever sequence of
\* creations, failed creations, joins, leaves and logouts was called.
THEOREM AddressesConserved == GroupManagerSpec => []AddressPoolConserved
<1>1. GroupManagerInv => AddressPoolConserved
  BY DEF GroupManagerInv, ManagerInv, AddressPoolConserved
<1> QED
  BY <1>1, GroupManagerInvariant, PTL

\* m_memberCount is the number of members, so that a group is deleted when
\* and only when its last member has left.
THEOREM MemberCountsExact == GroupManagerSpec => []MemberCountExact
<1>1. GroupManagerInv => MemberCountExact
  BY DEF GroupManagerInv, ManagerInv, MemberCountExact
<1> QED
  BY <1>1, GroupManagerInvariant, PTL

\* Live groups never share a port (before the 16 bits of the wire).
THEOREM PortsNeverShared == GroupManagerSpec => []PortsUnique
<1>1. GroupManagerInv => PortsUnique
  BY DEF GroupManagerInv, ManagerInv, PortsUnique
<1> QED
  BY <1>1, GroupManagerInvariant, PTL

\* A live group never changes its address or port, and no port is handed out
\* a second time: an old member's receiver never hears a later group.
THEOREM GroupsStayPut == GroupManagerSpec => AddressStable
<1> DEFINE Step == Stable(groupManager, groupManager')
<1>1. ASSUME GroupManagerInv, GroupManagerNext
      PROVE  Step
  <2> USE <1>1 DEF GroupManagerInv
  <2>1. ASSUME NEW name \in GroupNames, NEW fault \in Faults,
               CreateGroup(name, fault)
        PROVE  Step
    BY <2>1, CreateGroupStable DEF CreateGroup
  <2>2. ASSUME NEW name \in GroupNames, NEW user \in Users,
               NEW fault \in Faults, AddUserToGroup(name, user, fault)
        PROVE  Step
    BY <2>2, AddUserStable DEF AddUserToGroup
  <2>3. ASSUME NEW name \in GroupNames, NEW user \in Users,
               RemoveUserFromGroup(name, user)
        PROVE  Step
    BY <2>3, RemoveUserStable DEF RemoveUserFromGroup
  <2>4. ASSUME NEW user \in Users, RemoveUserFromAllGroups(user)
        PROVE  Step
    BY <2>4, RemoveUserFromAllStable DEF RemoveUserFromAllGroups
  <2> QED
    BY <2>1, <2>2, <2>3, <2>4 DEF GroupManagerNext
<1>2. ASSUME GroupManagerInv, GroupManagerInv', Step
      PROVE  ~Moved
  <2>1. /\ \A n \in DOMAIN groupManager'.groups :
             groupManager'.groups[n].multicastPort \in Nat
        /\ groupManager.nextMulticastPort \in Nat
    BY <1>2 DEF GroupManagerInv, ManagerInv, ManagerTypeOK, Group
  <2> QED
    BY <1>2, <2>1 DEF Stable, Moved, Live
<1>3. GroupManagerInv /\ GroupManagerInv' /\ [GroupManagerNext]_groupManager => [~Moved]_groupManager
  BY <1>1, <1>2
<1> QED
  BY <1>3, GroupManagerInvariant, PTL DEF GroupManagerSpec, AddressStable
=============================================================================
