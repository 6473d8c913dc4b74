---------------------------- MODULE MCExpenses -----------------------------
(***************************************************************************)
(* Small instances of Expenses for TLC.                                    *)
(***************************************************************************)
EXTENDS Expenses, TLC

=============================================================================
