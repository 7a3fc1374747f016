----------------------------- MODULE MCTaskView -----------------------------
(***************************************************************************)
(* Bounded instance of TaskView.  The names of tasks are only compared.    *)
(***************************************************************************)
EXTENDS TaskView, TLC

MCSymmetry == Permutations(Names)
=============================================================================
