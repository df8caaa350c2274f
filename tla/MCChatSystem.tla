---------------------------- MODULE MCChatSystem ----------------------------
\* Model-checking instances of ChatSystem.
EXTENDS ChatSystem, TLC

Symmetry == Permutations(Clients) \cup Permutations(Users)
              \cup Permutations(GroupNames) \cup Permutations(Pids)

\* Every address the server can give, as ChatSystem_proofs assumes it.
AllAddresses == MulticastIps \X Nat
=============================================================================
