----------------------------- MODULE MCTriggers -----------------------------
(***************************************************************************)
(* Small instance of Triggers: three slots for a breakpoint, the exception *)
(* trigger (both at the same address), a one-slot and a two-slot           *)
(* watchpoint, so that the slots run out; two failed accesses, so that a   *)
(* rollback can fail too.                                                  *)
(***************************************************************************)
EXTENDS Triggers

CONSTANTS entry, other, w1, w2

MCAddrs   == {entry}
MCWatches == {w1, w2}
MCNeed    == [w \in MCWatches |-> IF w = w1 THEN 1 ELSE 2]
=============================================================================
