----------------------------- MODULE MCManagers -----------------------------
\* Model-checking instance of the server's two managers, each under
\* arbitrary calls; a behaviour is one manager's.  Which users, passwords
\* and names exist does not matter to them, so they are symmetric.
EXTENDS UserManager, GroupManager, TLC

VARIABLE subject     \* the manager this behaviour is about

managersVars == <<subject, userManager, groupManager>>

ManagersInit ==
  /\ subject \in {"users", "groups"}
  /\ UserManagerInit
  /\ GroupManagerInit

ManagersNext ==
  /\ \/ subject = "users" /\ UserManagerNext /\ UNCHANGED groupManager
     \/ subject = "groups" /\ GroupManagerNext /\ UNCHANGED userManager
  /\ UNCHANGED subject

ManagersSpec == ManagersInit /\ [][ManagersNext]_managersVars

Symmetry ==
  Permutations(GroupNames) \cup Permutations(Users) \cup Permutations(Passwords)
=============================================================================
