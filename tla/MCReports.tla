----------------------------- MODULE MCReports -----------------------------
(* Instances of Reports for TLC: unit and double prices, a window of two days. *)
EXTENDS Reports, TLC

CONSTANTS e1, e2

MCAmount == (e1 :> 1 @@ e2 :> 2)
MCWindow == [r \in Reports |-> <<0, MaxDay>>]
=============================================================================
