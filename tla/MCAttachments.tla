--------------------------- MODULE MCAttachments ---------------------------
(* Instances of Attachments for TLC: keys, rows and requests are interchangeable. *)
EXTENDS Attachments, TLC

Symmetry == Permutations(Ids) \cup Permutations(ActivityKeys) \cup Permutations(Requests)
=============================================================================
