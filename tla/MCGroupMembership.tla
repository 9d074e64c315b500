-------------------------- MODULE MCGroupMembership --------------------------
(* Instances of GroupMembership for TLC. *)
EXTENDS GroupMembership, TLC

\* Users, groups, sockets and slots are interchangeable.
Symmetry ==
  Permutations(Users) \cup Permutations(Groups) \cup Permutations(Sockets)
    \cup Permutations(Slots)
=============================================================================
