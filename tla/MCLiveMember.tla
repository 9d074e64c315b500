---------------------------- MODULE MCLiveMember ----------------------------
(* Instances of LiveMember for TLC. *)
EXTENDS LiveMember, TLC

\* Slots of one kind, trip ids, locations and session objects are interchangeable.
Symmetry ==
  Permutations(Clients) \cup Permutations(Sweeps) \cup Permutations(Trips)
    \cup Permutations(Locs) \cup Permutations(Objs)

=============================================================================
