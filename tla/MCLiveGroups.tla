---------------------------- MODULE MCLiveGroups ----------------------------
(* An instance of LiveGroups for TLC. *)
EXTENDS LiveGroups, TLC

CONSTANTS u1, u2, g1, g2

\* Two members of one group, or one user in two groups.
MCMemberships == {{<<u1, g1>>, <<u2, g1>>}, {<<u1, g1>>, <<u1, g2>>}}

\* Slots of one kind are interchangeable.
Symmetry == Permutations(Clients) \cup Permutations(Sweeps)

=============================================================================
