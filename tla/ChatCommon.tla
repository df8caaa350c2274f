----------------------------- MODULE ChatCommon -----------------------------
(***************************************************************************)
(* What the parts of the chat system share: the names that are sent, the   *)
(* allocation failures considered and the form of a call's result.         *)
(*                                                                         *)
(* A fault names the one allocation of a request that fails: "object" (a   *)
(* User, a Group or a Group's list), "insert" (HashMap_Insert), "member"   *)
(* (a member's name or its list node) or "none".                           *)
(***************************************************************************)
CONSTANTS Clients,     \* client processes
          Users,       \* user names clients may send
          GroupNames,  \* group names clients may send
          Faults       \* the allocation failures considered

ASSUME FaultsAssumption ==
  /\ "none" \in Faults
  /\ Faults \subseteq {"none", "object", "insert", "member"}

\* The result code a function returns and the manager it leaves behind.
Outcome(result, m) == [result |-> result, manager |-> m]

\* f with x mapped to y: what a successful HashMap_Insert does.
Put(f, x, y) == [z \in DOMAIN f \cup {x} |-> IF z = x THEN y ELSE f[z]]
=============================================================================
