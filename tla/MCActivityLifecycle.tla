------------------------ MODULE MCActivityLifecycle ------------------------
(***************************************************************************)
(* Small instances of ActivityLifecycle for TLC.                           *)
(***************************************************************************)
EXTENDS ActivityLifecycle, TLC

(* One activity with an end and one without: the end anchor is the start.  *)
MCSchedules == { [start |-> 2, end |-> 3], [start |-> 2, end |-> Null] }

MCShortSchedule == { [start |-> 2, end |-> 3] }

(* Connections are interchangeable and so are the members of a bond.       *)
MCSymmetry == Permutations(Clients) \cup Permutations(Members)

MCMemberSymmetry == Permutations(Members)

=============================================================================
