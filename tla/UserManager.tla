----------------------------- MODULE UserManager -----------------------------
(***************************************************************************)
(* The server's user manager (managers/src/user_manager.c): the accounts   *)
(* and which of them is logged in on which socket.                         *)
(*                                                                         *)
(* m_username_to_user is accounts; m_socket_to_user is socketToUser, kept  *)
(* as the map from the socket an entry was inserted under to the user it   *)
(* points at.  In the C code the key of that second map is a pointer to    *)
(* the user's own m_socket field, so the entry stays findable only while   *)
(* the field keeps the value it had at the insertion: SocketMapConsistent  *)
(* says that it does.                                                      *)
(*                                                                         *)
(* As in GroupManager, every function is an operator from the manager m to *)
(* a record [result, manager].                                             *)
(***************************************************************************)
EXTENDS ChatCommon, Integers, Functions

CONSTANTS Passwords,   \* passwords clients may send
          Sockets      \* descriptors a client connection may have

ASSUME UserManagerAssumption == Sockets \subseteq Nat

VARIABLE userManager

NoSocket == -1

User == [password : Passwords, isActive : BOOLEAN,
         socket : Sockets \cup {NoSocket}]

UserManagerCreate ==
  [accounts |-> [u \in {} |-> {}], socketToUser |-> [s \in {} |-> {}]]

-----------------------------------------------------------------------------
\* The operations.

\* Mutant: m_socket of a new account is left zero.
NewAccount_SocketZero(password) ==
  [password |-> password, isActive |-> FALSE, socket |-> 0]

NewAccount(password) ==
  [password |-> password, isActive |-> FALSE, socket |-> NoSocket]

UserManagerRegister(m, user, password, fault) ==
  IF user \in DOMAIN m.accounts
    THEN Outcome("already_exists", m)
  ELSE IF fault \in {"object", "insert"}
    THEN Outcome("insert_error", m)
  ELSE Outcome("success",
               [m EXCEPT !.accounts = Put(@, user, NewAccount(password))])

Activated(account, socket) ==
  [account EXCEPT !.isActive = TRUE, !.socket = socket]

\* Mutant: m_socket is reset, m_isActive is not.
Deactivated_StillActive(account) == [account EXCEPT !.socket = NoSocket]

Deactivated(account) ==
  [account EXCEPT !.isActive = FALSE, !.socket = NoSocket]

LoggedIn(m, user, socket) ==
  [accounts |-> [m.accounts EXCEPT ![user] = Activated(@, socket)],
   socketToUser |-> Put(m.socketToUser, socket, user)]

\* Mutant: an account that is logged in may log in again elsewhere.
UserManagerLogin_Twice(m, user, password, socket, fault) ==
  IF user \notin DOMAIN m.accounts
    THEN Outcome("not_found", m)
  ELSE IF m.accounts[user].password # password
    THEN Outcome("invalid_password", m)
  ELSE IF socket \in DOMAIN m.socketToUser \/ fault = "insert"
    THEN Outcome("insert_error", m)
  ELSE Outcome("success", LoggedIn(m, user, socket))

\* The user record is changed before the insertion into the socket map and
\* changed back when the map refuses, because that socket has a user already
\* or for lack of memory.
UserManagerLogin(m, user, password, socket, fault) ==
  IF user \notin DOMAIN m.accounts
    THEN Outcome("not_found", m)
  ELSE IF m.accounts[user].password # password
    THEN Outcome("invalid_password", m)
  ELSE IF m.accounts[user].isActive
    THEN Outcome("already_logged_in", m)
  ELSE IF socket \in DOMAIN m.socketToUser \/ fault = "insert"
    THEN Outcome("insert_error",
                 [m EXCEPT !.accounts[user] =
                    Deactivated(Activated(@, socket))])
  ELSE Outcome("success", LoggedIn(m, user, socket))

LoggedOut(m, socket) ==
  [accounts |-> [m.accounts EXCEPT ![m.socketToUser[socket]] = Deactivated(@)],
   socketToUser |-> Restrict(m.socketToUser,
                             DOMAIN m.socketToUser \ {socket})]

UserManagerLogout(m, socket) ==
  IF socket \notin DOMAIN m.socketToUser
    THEN Outcome("not_found", m)
    ELSE Outcome("success", LoggedOut(m, socket))

\* UserManagerGetUsernameBySocket succeeds exactly for these sockets, with
\* the user the socket map points at.
IsLoggedIn(m, socket) == socket \in DOMAIN m.socketToUser
UsernameBySocket(m, socket) == m.socketToUser[socket]

-----------------------------------------------------------------------------
\* The manager under arbitrary calls.

UserManagerInit == userManager = UserManagerCreate

Register(user, password, fault) ==
  userManager' =
    UserManagerRegister(userManager, user, password, fault).manager

Login(user, password, socket, fault) ==
  userManager' =
    UserManagerLogin(userManager, user, password, socket, fault).manager

Logout(socket) ==
  userManager' = UserManagerLogout(userManager, socket).manager

UserManagerNext ==
  \/ \E user \in Users, password \in Passwords, fault \in Faults :
       Register(user, password, fault)
  \/ \E user \in Users, password \in Passwords,
        socket \in Sockets, fault \in Faults :
       Login(user, password, socket, fault)
  \/ \E socket \in Sockets : Logout(socket)

UserManagerSpec == UserManagerInit /\ [][UserManagerNext]_userManager

-----------------------------------------------------------------------------
\* Properties.

Accounts == userManager.accounts
SocketToUser == userManager.socketToUser

UsersTypeOK(m) ==
  /\ m = [accounts |-> m.accounts, socketToUser |-> m.socketToUser]
  /\ DOMAIN m.accounts \subseteq Users
  /\ m.accounts \in [DOMAIN m.accounts -> User]
  /\ DOMAIN m.socketToUser \subseteq Sockets
  /\ m.socketToUser \in [DOMAIN m.socketToUser -> Users]

MapsAgree(m) ==
  /\ \A s \in DOMAIN m.socketToUser :
       /\ m.socketToUser[s] \in DOMAIN m.accounts
       /\ m.accounts[m.socketToUser[s]].isActive
       /\ m.accounts[m.socketToUser[s]].socket = s
  /\ \A u \in DOMAIN m.accounts :
       IF m.accounts[u].isActive
         THEN /\ m.accounts[u].socket \in DOMAIN m.socketToUser
              /\ m.socketToUser[m.accounts[u].socket] = u
         ELSE m.accounts[u].socket = NoSocket

Stolen ==
  \/ \E s \in DOMAIN SocketToUser \cap DOMAIN SocketToUser' :
       SocketToUser'[s] # SocketToUser[s]
  \/ \E u \in DOMAIN Accounts :
       \/ u \notin DOMAIN Accounts'
       \/ Accounts'[u].password # Accounts[u].password
       \/ /\ Accounts[u].isActive /\ Accounts'[u].isActive
          /\ Accounts'[u].socket # Accounts[u].socket

\* Type invariant: the shape of the manager (struct UserManager).
UserManagerTypeOK == UsersTypeOK(userManager)

\* The two maps tell the same story: an entry under a socket points at an
\* existing account that is active on exactly that socket, and an active
\* account is entered under its socket.  In particular no user is logged in
\* on two sockets, no socket carries two users, and a key of the socket map,
\* which lives inside the user record, never changes under the map.
SocketMapConsistent == MapsAgree(userManager)

\* A session moves only through a logout: no step takes a socket from one
\* user and gives it to another, and no step moves a logged-in user to
\* another socket.  An account, once there, keeps its password.
SessionNeverStolen == [][~Stolen]_userManager
=============================================================================
