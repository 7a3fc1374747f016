---------------------------- MODULE MCAlgorithms ----------------------------
(***************************************************************************)
(* The two bounded checks of algorithms that share no state: the covering  *)
(* of watched ranges (WatchRange) and the staging of Flash data            *)
(* (FlashStaging).  A behaviour takes one of them and leaves the other as  *)
(* it starts.                                                              *)
(***************************************************************************)
EXTENDS WatchRange, FlashStaging

MCPowers == {1, 2, 4, 8, 16, 32}

VARIABLE algorithm

vars == <<algorithm, watchVars, stagingVars>>

Init ==
    /\ algorithm \in {"ranges", "loads"}
    /\ WatchInit /\ StagingInit
    /\ algorithm = "loads" => range = [address |-> 0, length |-> 1, kind |-> "load"]
Next ==
    /\ UNCHANGED algorithm
    /\ \/ algorithm = "ranges" /\ WatchNext /\ UNCHANGED stagingVars
       \/ algorithm = "loads" /\ StagingNext /\ UNCHANGED watchVars
Spec == Init /\ [][Next]_vars
=============================================================================
