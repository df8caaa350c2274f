------------------------- MODULE UserManager_proofs -------------------------
(***************************************************************************)
(* Proofs about UserManager, for every set of users, passwords and sockets *)
(* and every choice of allocation failures.  The inductive invariant is    *)
(* UsersInv: the types and the agreement of the two maps, neither of which *)
(* is inductive without the other.                                         *)
(***************************************************************************)
EXTENDS UserManager, TLAPS

UsersInv(m) == UsersTypeOK(m) /\ MapsAgree(m)

\* What one call may not do, for an arbitrary manager before and after it:
\* Stolen for m and m2.
SessionsKept(m, m2) ==
  /\ \A s \in DOMAIN m.socketToUser \cap DOMAIN m2.socketToUser :
       m2.socketToUser[s] = m.socketToUser[s]
  /\ \A u \in DOMAIN m.accounts :
       /\ u \in DOMAIN m2.accounts
       /\ m2.accounts[u].password = m.accounts[u].password
       /\ m.accounts[u].isActive /\ m2.accounts[u].isActive =>
            m2.accounts[u].socket = m.accounts[u].socket

Good(m, m2) == UsersInv(m2) /\ SessionsKept(m, m2)

-----------------------------------------------------------------------------
\* Updating one account.

LEMMA NoSocketIsNone == NoSocket \notin Sockets
BY UserManagerAssumption DEF NoSocket

LEMMA AccountUpdates ==
  ASSUME NEW a \in User, NEW s \in Sockets
  PROVE  /\ Activated(a, s) \in User
         /\ Activated(a, s).isActive
         /\ Activated(a, s).socket = s
         /\ Activated(a, s).password = a.password
         /\ Deactivated(a) \in User
         /\ ~Deactivated(a).isActive
         /\ Deactivated(a).socket = NoSocket
         /\ Deactivated(a).password = a.password
<1>1. /\ [a EXCEPT !.isActive = TRUE] \in User
      /\ [a EXCEPT !.isActive = FALSE] \in User
  BY DEF User
<1>2. \A b \in User : /\ [b EXCEPT !.socket = s] \in User
                      /\ [b EXCEPT !.socket = NoSocket] \in User
  BY DEF User
<1>3. Activated(a, s) = [[a EXCEPT !.isActive = TRUE] EXCEPT !.socket = s]
  BY DEF Activated, User
<1>4. Deactivated(a) =
        [[a EXCEPT !.isActive = FALSE] EXCEPT !.socket = NoSocket]
  BY DEF Deactivated, User
<1>5. /\ Activated(a, s).isActive = TRUE
      /\ Activated(a, s).socket = s
      /\ Activated(a, s).password = a.password
  BY DEF Activated, User
<1>6. /\ Deactivated(a).isActive = FALSE
      /\ Deactivated(a).socket = NoSocket
      /\ Deactivated(a).password = a.password
  BY DEF Deactivated, User
<1> QED
  BY <1>1, <1>2, <1>3, <1>4, <1>5, <1>6

\* A manager is a record of two fields.
LEMMA AccountsReplaced ==
  ASSUME NEW m, UsersTypeOK(m), NEW a
  PROVE  [m EXCEPT !.accounts = a] =
           [accounts |-> a, socketToUser |-> m.socketToUser]
<1>1. PICK a0, s0 : m = [accounts |-> a0, socketToUser |-> s0]
  BY DEF UsersTypeOK
<1> QED
  BY <1>1

LEMMA NothingChanged ==
  ASSUME NEW m, UsersInv(m)
  PROVE  Good(m, m)
BY DEF Good, SessionsKept

-----------------------------------------------------------------------------
\* The operations keep the invariant and every session.

LEMMA CreateGood == UsersInv(UserManagerCreate)
BY DEF UserManagerCreate, UsersInv, UsersTypeOK, MapsAgree

LEMMA RegisterGood ==
  ASSUME NEW m, UsersInv(m), NEW user \in Users, NEW password \in Passwords,
         NEW fault
  PROVE  Good(m, UserManagerRegister(m, user, password, fault).manager)
<1>1. CASE user \in DOMAIN m.accounts \/ fault \in {"object", "insert"}
  BY <1>1, NothingChanged DEF UserManagerRegister, Outcome
<1>2. CASE user \notin DOMAIN m.accounts
  <2> DEFINE new == NewAccount(password)
             a == Put(m.accounts, user, new)
             r == [accounts |-> a, socketToUser |-> m.socketToUser]
  <2>1. new \in User /\ new.isActive = FALSE /\ new.socket = NoSocket
    BY DEF NewAccount, User
  <2>2. /\ DOMAIN a = DOMAIN m.accounts \cup {user}
        /\ a[user] = new
        /\ \A u \in DOMAIN m.accounts : a[u] = m.accounts[u]
        /\ a = [u \in DOMAIN a |-> a[u]]
    BY <1>2 DEF Put
  <2> HIDE DEF new, a
  <2>3. UsersTypeOK(r)
    <3>1. \A u \in DOMAIN a : a[u] \in User
      BY <2>1, <2>2 DEF UsersInv, UsersTypeOK
    <3>2. a \in [DOMAIN a -> User]
      BY <2>2, <3>1
    <3> QED
      BY <2>2, <3>2 DEF UsersInv, UsersTypeOK
  <2>4. MapsAgree(r)
    BY <2>1, <2>2 DEF UsersInv, MapsAgree
  <2>5. SessionsKept(m, r)
    BY <2>2 DEF SessionsKept
  <2>6. [m EXCEPT !.accounts = Put(@, user, NewAccount(password))] = r
    BY AccountsReplaced DEF UsersInv, a, new
  <2> QED
    BY <1>2, <2>3, <2>4, <2>5, <2>6, NothingChanged
       DEF UserManagerRegister, Outcome, Good, UsersInv
<1> QED
  BY <1>1, <1>2

\* An inactive account that is activated and deactivated again, when the
\* socket map refused the login, is as before.
LEMMA RolledBackGood ==
  ASSUME NEW m, UsersInv(m), NEW user \in DOMAIN m.accounts,
         ~m.accounts[user].isActive, NEW socket \in Sockets
  PROVE  Good(m, [m EXCEPT !.accounts[user] =
                    Deactivated(Activated(@, socket))])
<1> DEFINE a == [m.accounts EXCEPT ![user] = Deactivated(Activated(@, socket))]
           r == [accounts |-> a, socketToUser |-> m.socketToUser]
<1>1. /\ DOMAIN a = DOMAIN m.accounts
      /\ a[user] = Deactivated(Activated(m.accounts[user], socket))
      /\ \A u \in DOMAIN m.accounts : u # user => a[u] = m.accounts[u]
      /\ a = [u \in DOMAIN a |-> a[u]]
  BY DEF UsersInv, UsersTypeOK
<1>2. /\ a[user] \in User
      /\ ~a[user].isActive
      /\ a[user].socket = NoSocket
      /\ a[user].password = m.accounts[user].password
  BY <1>1, AccountUpdates DEF UsersInv, UsersTypeOK
<1> HIDE DEF a
<1>3. UsersTypeOK(r)
  <2>1. \A u \in DOMAIN a : a[u] \in User
    BY <1>1, <1>2 DEF UsersInv, UsersTypeOK
  <2>2. a \in [DOMAIN a -> User]
    BY <1>1, <2>1
  <2> QED
    BY <1>1, <2>2 DEF UsersInv, UsersTypeOK
<1>4. MapsAgree(r)
  BY <1>1, <1>2 DEF UsersInv, MapsAgree
<1>5. SessionsKept(m, r)
  BY <1>1, <1>2 DEF SessionsKept
<1>6. [m EXCEPT !.accounts[user] = Deactivated(Activated(@, socket))] = r
  BY AccountsReplaced DEF UsersInv, a
<1> QED
  BY <1>3, <1>4, <1>5, <1>6 DEF Good, UsersInv

\* A login on a socket nobody is logged in on.
LEMMA LoggedInGood ==
  ASSUME NEW m, UsersInv(m), NEW user \in DOMAIN m.accounts,
         ~m.accounts[user].isActive,
         NEW socket \in Sockets \ DOMAIN m.socketToUser
  PROVE  Good(m, LoggedIn(m, user, socket))
<1> DEFINE a == [m.accounts EXCEPT ![user] = Activated(@, socket)]
           t == Put(m.socketToUser, socket, user)
           r == [accounts |-> a, socketToUser |-> t]
<1>1. /\ DOMAIN a = DOMAIN m.accounts
      /\ a[user] = Activated(m.accounts[user], socket)
      /\ \A u \in DOMAIN m.accounts : u # user => a[u] = m.accounts[u]
      /\ a = [u \in DOMAIN a |-> a[u]]
  BY DEF UsersInv, UsersTypeOK
<1>2. /\ a[user] \in User
      /\ a[user].isActive
      /\ a[user].socket = socket
      /\ a[user].password = m.accounts[user].password
  BY <1>1, AccountUpdates DEF UsersInv, UsersTypeOK
<1>3. /\ DOMAIN t = DOMAIN m.socketToUser \cup {socket}
      /\ t[socket] = user
      /\ \A s \in DOMAIN m.socketToUser : t[s] = m.socketToUser[s]
      /\ t = [s \in DOMAIN t |-> t[s]]
  BY DEF Put
<1> HIDE DEF a, t
<1>4. UsersTypeOK(r)
  <2>1. \A u \in DOMAIN a : a[u] \in User
    BY <1>1, <1>2 DEF UsersInv, UsersTypeOK
  <2>2. a \in [DOMAIN a -> User]
    BY <1>1, <2>1
  <2>3. \A s \in DOMAIN t : t[s] \in Users
    BY <1>3 DEF UsersInv, UsersTypeOK
  <2>4. t \in [DOMAIN t -> Users]
    BY <1>3, <2>3
  <2> QED
    BY <1>1, <1>3, <2>2, <2>4 DEF UsersInv, UsersTypeOK
<1>5. MapsAgree(r)
  BY <1>1, <1>2, <1>3 DEF UsersInv, MapsAgree
<1>6. SessionsKept(m, r)
  BY <1>1, <1>2, <1>3 DEF SessionsKept
<1> QED
  BY <1>4, <1>5, <1>6 DEF Good, UsersInv, LoggedIn, a, t

LEMMA LoginGood ==
  ASSUME NEW m, UsersInv(m), NEW user, NEW password,
         NEW socket \in Sockets, NEW fault
  PROVE  Good(m, UserManagerLogin(m, user, password, socket, fault).manager)
BY NothingChanged, RolledBackGood, LoggedInGood
   DEF UserManagerLogin, Outcome

\* A logout takes the entry out of the socket map and resets its account.
LEMMA LogoutGood ==
  ASSUME NEW m, UsersInv(m), NEW socket \in Sockets
  PROVE  Good(m, UserManagerLogout(m, socket).manager)
<1>1. CASE socket \notin DOMAIN m.socketToUser
  BY <1>1, NothingChanged DEF UserManagerLogout, Outcome
<1>2. CASE socket \in DOMAIN m.socketToUser
  <2> DEFINE user == m.socketToUser[socket]
             a == [m.accounts EXCEPT ![user] = Deactivated(@)]
             t == Restrict(m.socketToUser, DOMAIN m.socketToUser \ {socket})
             r == [accounts |-> a, socketToUser |-> t]
  <2>1. /\ user \in DOMAIN m.accounts
        /\ m.accounts[user] \in User
        /\ m.accounts[user].isActive
        /\ m.accounts[user].socket = socket
    BY <1>2 DEF UsersInv, UsersTypeOK, MapsAgree
  <2>2. /\ DOMAIN a = DOMAIN m.accounts
        /\ a[user] = Deactivated(m.accounts[user])
        /\ \A u \in DOMAIN m.accounts : u # user => a[u] = m.accounts[u]
        /\ a = [u \in DOMAIN a |-> a[u]]
    BY <2>1 DEF UsersInv, UsersTypeOK
  <2>3. /\ a[user] \in User
        /\ ~a[user].isActive
        /\ a[user].socket = NoSocket
        /\ a[user].password = m.accounts[user].password
    BY <2>1, <2>2, AccountUpdates
  <2>4. /\ DOMAIN t = DOMAIN m.socketToUser \ {socket}
        /\ \A s \in DOMAIN t : t[s] = m.socketToUser[s]
        /\ t = [s \in DOMAIN t |-> t[s]]
    BY DEF Restrict
  <2> HIDE DEF a, t
  <2>5. UsersTypeOK(r)
    <3>1. \A u \in DOMAIN a : a[u] \in User
      BY <2>2, <2>3 DEF UsersInv, UsersTypeOK
    <3>2. a \in [DOMAIN a -> User]
      BY <2>2, <3>1
    <3>3. \A s \in DOMAIN t : t[s] \in Users
      BY <2>4 DEF UsersInv, UsersTypeOK
    <3>4. t \in [DOMAIN t -> Users]
      BY <2>4, <3>3
    <3> QED
      BY <2>2, <2>4, <3>2, <3>4 DEF UsersInv, UsersTypeOK
  <2>6. MapsAgree(r)
    BY <1>2, <2>1, <2>2, <2>3, <2>4 DEF UsersInv, MapsAgree
  <2>7. SessionsKept(m, r)
    BY <2>2, <2>3, <2>4 DEF SessionsKept
  <2> QED
    BY <1>2, <2>5, <2>6, <2>7
       DEF Good, UsersInv, UserManagerLogout, LoggedOut, Outcome, a, t
<1> QED
  BY <1>1, <1>2

-----------------------------------------------------------------------------
\* What each operation does to the logins, for the handlers that call it.

\* A login of m that m2 still has, for the same user.
LoginKept(m, m2, socket) ==
  IsLoggedIn(m, socket) =>
    IsLoggedIn(m2, socket) /\ UsernameBySocket(m2, socket) = UsernameBySocket(m, socket)

LEMMA RegisterEffect ==
  ASSUME NEW m, UsersInv(m), NEW user, NEW password, NEW fault
  PROVE  UserManagerRegister(m, user, password, fault).manager.socketToUser =
           m.socketToUser
<1> DEFINE a == Put(m.accounts, user, NewAccount(password))
<1>1. [m EXCEPT !.accounts = a].socketToUser = m.socketToUser
  BY AccountsReplaced DEF UsersInv
<1>2. [m EXCEPT !.accounts = Put(@, user, NewAccount(password))] =
        [m EXCEPT !.accounts = a]
  OBVIOUS
<1> HIDE DEF a
<1> QED
  BY <1>1, <1>2 DEF UserManagerRegister, Outcome

\* A login enters one user under one socket that had none, or changes no
\* login.
LEMMA LoginEffect ==
  ASSUME NEW m, UsersInv(m), NEW user, NEW password, NEW socket, NEW fault
  PROVE  LET call == UserManagerLogin(m, user, password, socket, fault)
         IN  /\ call.result # "success" =>
                  call.manager.socketToUser = m.socketToUser
             /\ call.result = "success" =>
                  /\ IsLoggedIn(call.manager, socket)
                  /\ UsernameBySocket(call.manager, socket) = user
             /\ \A s : LoginKept(m, call.manager, s)
<1> DEFINE call == UserManagerLogin(m, user, password, socket, fault)
           a == [m.accounts EXCEPT ![user] = Deactivated(Activated(@, socket))]
           back == [m EXCEPT !.accounts[user] = Deactivated(Activated(@, socket))]
           t == Put(m.socketToUser, socket, user)
<1>1. back.socketToUser = m.socketToUser
  <2>1. back = [m EXCEPT !.accounts = a]
    OBVIOUS
  <2> HIDE DEF back, a
  <2> QED
    BY <2>1, AccountsReplaced DEF UsersInv
<1>2. LoggedIn(m, user, socket).socketToUser = t
  BY DEF LoggedIn
<1>3. \/ call.result # "success" /\ (call.manager = m \/ call.manager = back)
      \/ /\ call.result = "success" /\ call.manager = LoggedIn(m, user, socket)
         /\ socket \notin DOMAIN m.socketToUser
  BY DEF UserManagerLogin, Outcome
<1>4. /\ DOMAIN t = DOMAIN m.socketToUser \cup {socket}
      /\ t[socket] = user
      /\ \A s \in DOMAIN m.socketToUser : s # socket => t[s] = m.socketToUser[s]
  BY DEF Put
<1> HIDE DEF call, back, t
<1> QED
  BY <1>1, <1>2, <1>3, <1>4 DEF call, LoginKept, IsLoggedIn, UsernameBySocket

\* A logout takes the entry of its socket out and no other.
LEMMA LogoutEffect ==
  ASSUME NEW m, NEW socket
  PROVE  LET m2 == UserManagerLogout(m, socket).manager
         IN  /\ ~IsLoggedIn(m2, socket)
             /\ DOMAIN m2.socketToUser = DOMAIN m.socketToUser \ {socket}
             /\ \A s : s # socket => LoginKept(m, m2, s)
<1>1. CASE socket \notin DOMAIN m.socketToUser
  BY <1>1 DEF UserManagerLogout, Outcome, LoginKept, IsLoggedIn
<1>2. CASE socket \in DOMAIN m.socketToUser
  <2> DEFINE t == Restrict(m.socketToUser, DOMAIN m.socketToUser \ {socket})
  <2>1. UserManagerLogout(m, socket).manager.socketToUser = t
    BY <1>2 DEF UserManagerLogout, LoggedOut, Outcome
  <2>2. /\ DOMAIN t = DOMAIN m.socketToUser \ {socket}
        /\ \A s \in DOMAIN t : t[s] = m.socketToUser[s]
    BY DEF Restrict
  <2> HIDE DEF t
  <2> QED
    BY <2>1, <2>2 DEF LoginKept, IsLoggedIn, UsernameBySocket
<1> QED
  BY <1>1, <1>2

\* Nobody is logged in on two sockets.
LEMMA OneSocketEach ==
  ASSUME NEW m, UsersInv(m), NEW s1, NEW s2, IsLoggedIn(m, s1), IsLoggedIn(m, s2),
         UsernameBySocket(m, s1) = UsernameBySocket(m, s2)
  PROVE  s1 = s2
BY DEF UsersInv, MapsAgree, IsLoggedIn, UsernameBySocket

-----------------------------------------------------------------------------
\* The theorems.

UserManagerInv == UsersInv(userManager)

LEMMA UserManagerStep ==
  ASSUME UserManagerInv, UserManagerNext
  PROVE  Good(userManager, userManager')
<1> USE DEF UserManagerInv
<1>1. ASSUME NEW user \in Users, NEW password \in Passwords,
             NEW fault \in Faults, Register(user, password, fault)
      PROVE  Good(userManager, userManager')
  BY <1>1, RegisterGood DEF Register
<1>2. ASSUME NEW user \in Users, NEW password \in Passwords,
             NEW socket \in Sockets, NEW fault \in Faults,
             Login(user, password, socket, fault)
      PROVE  Good(userManager, userManager')
  BY <1>2, LoginGood DEF Login
<1>3. ASSUME NEW socket \in Sockets, Logout(socket)
      PROVE  Good(userManager, userManager')
  BY <1>3, LogoutGood DEF Logout
<1> QED
  BY <1>1, <1>2, <1>3 DEF UserManagerNext

THEOREM UserManagerInvariant == UserManagerSpec => []UserManagerInv
<1>1. UserManagerInit => UserManagerInv
  BY CreateGood DEF UserManagerInit, UserManagerInv
<1>2. UserManagerInv /\ [UserManagerNext]_userManager => UserManagerInv'
  BY UserManagerStep DEF Good, UserManagerInv
<1> QED
  BY <1>1, <1>2, PTL DEF UserManagerSpec

\* The manager keeps its type (struct UserManager).
THEOREM UserManagerTypeCorrect == UserManagerSpec => []UserManagerTypeOK
<1>1. UserManagerInv => UserManagerTypeOK
  BY DEF UserManagerInv, UsersInv, UserManagerTypeOK
<1> QED
  BY <1>1, UserManagerInvariant, PTL

\* The socket map and the accounts never disagree: no user is logged in
\* twice, no socket carries two users, and the key inside a user record is
\* never changed while the map refers to it.
THEOREM MapsNeverDisagree == UserManagerSpec => []SocketMapConsistent
<1>1. UserManagerInv => SocketMapConsistent
  BY DEF UserManagerInv, UsersInv, SocketMapConsistent
<1> QED
  BY <1>1, UserManagerInvariant, PTL

\* No call takes a session from a user or moves it to another socket.
THEOREM SessionsSafe == UserManagerSpec => SessionNeverStolen
<1>1. UserManagerInv /\ [UserManagerNext]_userManager => [~Stolen]_userManager
  BY UserManagerStep DEF Good, SessionsKept, Stolen, Accounts, SocketToUser
<1> QED
  BY <1>1, UserManagerInvariant, PTL DEF UserManagerSpec, SessionNeverStolen
=============================================================================
